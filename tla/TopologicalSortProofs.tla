----------------------- MODULE TopologicalSortProofs -----------------------
(***************************************************************************)
(* Kahn's algorithm as graph.py writes it is right for every workflow: it  *)
(* raises exactly when there is a cycle.                                   *)
(***************************************************************************)
EXTENDS TopologicalSort, FiniteSetTheorems, TLAPS

(***************************************************************************)
(* Facts about queues of nodes and about the graph of a workflow.          *)
(***************************************************************************)
(* The places of a list are finitely many, as many as it is long. *)
LEMMA Places ==
    ASSUME NEW k \in Nat
    PROVE  IsFiniteSet(1 .. k) /\ Cardinality(1 .. k) = k
<1>1. 1 \in Int /\ k \in Int
  OBVIOUS
<1>2. IsFiniteSet(1 .. k) /\ Cardinality(1 .. k) = IF 1 > k THEN 0 ELSE k - 1 + 1
  BY ONLY <1>1, FS_Interval
<1> QED
  BY <1>2

(***************************************************************************)
(* Lists of distinct nodes and the queue operations of the loops.          *)
(***************************************************************************)
(* popleft takes exactly the head away from the queue's elements. *)
LEMMA PopLeft ==
    ASSUME NEW S, NEW q \in Seq(S), q # <<>>, IsInjective(q)
    PROVE  /\ Head(q) \in S
           /\ Tail(q) \in Seq(S)
           /\ Head(q) \in Range(q)
           /\ Range(Tail(q)) = Range(q) \ {Head(q)}
           /\ IsInjective(Tail(q))
<1>1. Len(q) \in Nat /\ Len(q) >= 1 /\ DOMAIN q = 1 .. Len(q)
  OBVIOUS
<1>2. /\ Head(q) = q[1] /\ Tail(q) \in Seq(S)
      /\ DOMAIN Tail(q) = 1 .. Len(q) - 1
      /\ \A i \in DOMAIN Tail(q) : Tail(q)[i] = q[i + 1]
  BY <1>1
<1>3. Head(q) \in S /\ Head(q) \in Range(q)
  BY <1>1, <1>2 DEF Range
<1>4. Range(Tail(q)) \subseteq Range(q) \ {Head(q)}
  BY <1>1, <1>2 DEF Range, IsInjective
<1>5. ASSUME NEW x \in Range(q) \ {Head(q)}
      PROVE  x \in Range(Tail(q))
  <2>1. PICK i \in 1 .. Len(q) : x = q[i]
    BY <1>1 DEF Range
  <2>2. i - 1 \in DOMAIN Tail(q) /\ Tail(q)[i - 1] = x
    BY <1>1, <1>2, <2>1
  <2> QED
    BY <2>2 DEF Range
<1>6. IsInjective(Tail(q))
  BY <1>1, <1>2 DEF IsInjective
<1> QED
  BY <1>2, <1>3, <1>4, <1>5, <1>6

(* Appending new distinct elements keeps a queue free of repetitions. *)
LEMMA Extend ==
    ASSUME NEW S, NEW q \in Seq(S), NEW s \in Seq(S)
    PROVE  /\ q \o s \in Seq(S)
           /\ Range(q \o s) = Range(q) \cup Range(s)
           /\ (IsInjective(q) /\ IsInjective(s) /\ Range(q) \cap Range(s) = {})
                 => IsInjective(q \o s)
<1>1. /\ Len(q) \in Nat /\ DOMAIN q = 1 .. Len(q)
      /\ Len(s) \in Nat /\ DOMAIN s = 1 .. Len(s)
      /\ q \o s \in Seq(S) /\ DOMAIN (q \o s) = 1 .. Len(q) + Len(s)
      /\ \A i \in 1 .. Len(q) : (q \o s)[i] = q[i]
      /\ \A i \in 1 .. Len(s) : (q \o s)[Len(q) + i] = s[i]
  OBVIOUS
<1>2. \A i \in DOMAIN (q \o s) :
         \/ i \in DOMAIN q /\ (q \o s)[i] = q[i]
         \/ i - Len(q) \in DOMAIN s /\ (q \o s)[i] = s[i - Len(q)]
  BY <1>1
<1>3. Range(q \o s) \subseteq Range(q) \cup Range(s)
  BY <1>2 DEF Range
<1>4. Range(q) \subseteq Range(q \o s)
  BY <1>1 DEF Range
<1>5. Range(s) \subseteq Range(q \o s)
  <2> SUFFICES ASSUME NEW i \in DOMAIN s PROVE s[i] \in Range(q \o s)
    BY DEF Range
  <2>1. Len(q) + i \in DOMAIN (q \o s) /\ (q \o s)[Len(q) + i] = s[i]
    BY <1>1
  <2> QED
    BY <2>1 DEF Range
<1>6. ASSUME IsInjective(q), IsInjective(s), Range(q) \cap Range(s) = {}
      PROVE  IsInjective(q \o s)
  <2>1. \A i \in DOMAIN q, j \in DOMAIN s : q[i] # s[j]
    BY <1>6 DEF Range
  <2> QED
    BY <1>1, <1>2, <1>6, <2>1 DEF IsInjective
<1> QED
  BY <1>1, <1>3, <1>4, <1>5, <1>6

(* What the loops that list a finite set of nodes produce. *)
LEMMA ListsProperties ==
    ASSUME NEW S, NEW T \in SUBSET S, IsFiniteSet(T), NEW R,
           NEW s \in [1 .. Cardinality(T) -> T], Lists(s, T, R)
    PROVE  s \in Seq(S) /\ Range(s) = T /\ IsInjective(s)
<1>1. Cardinality(T) \in Nat
  BY FS_CardinalityType
<1>2. s \in Seq(S)
  BY <1>1
<1>3. DOMAIN s \subseteq Nat
  BY <1>1
<1>4. ASSUME NEW i \in DOMAIN s, NEW j \in DOMAIN s, s[i] = s[j]
      PROVE  i = j
  <2>1. i \in Nat /\ j \in Nat
    BY <1>3
  <2>2. ~(i < j) /\ ~(j < i)
    BY <1>4 DEF Lists
  <2> QED
    BY <2>1, <2>2
<1> QED
  BY <1>2, <1>4 DEF Lists, IsInjective

(***************************************************************************)
(* The nodes a workflow's graph speaks of.                                 *)
(***************************************************************************)
LEMMA GraphShape ==
    ASSUME NEW Id, NEW Conn, NEW w, NEW n,
           w.nodes \in Seq(Id), w.connections \in Seq(Conn),
           \A e \in Conn : e.source_node \in Id /\ e.target_node \in Id
    PROVE  /\ ConnsOf(w) \subseteq Nat /\ IsFiniteSet(ConnsOf(w))
           /\ \A c \in ConnsOf(w) : Source(w, c) \in Id /\ Target(w, c) \in Id
           /\ NodesOf(w) \subseteq Id /\ IsFiniteSet(NodesOf(w))
           /\ Parents(w, n) \subseteq Id /\ IsFiniteSet(Parents(w, n))
           /\ Children(w, n) \subseteq Id /\ IsFiniteSet(Children(w, n))
           /\ Roots(w) \subseteq Id /\ IsFiniteSet(Roots(w))
<1>1. ConnsOf(w) = 1 .. Len(w.connections) /\ Len(w.connections) \in Nat
  BY DEF ConnsOf
<1>2. IsFiniteSet(ConnsOf(w))
  BY <1>1, Places
<1>3. \A c \in ConnsOf(w) : Source(w, c) \in Id /\ Target(w, c) \in Id
  <2>1. \A c \in ConnsOf(w) : w.connections[c] \in Conn
    BY <1>1
  <2> QED
    BY <2>1 DEF Source, Target
<1>4. DOMAIN w.nodes = 1 .. Len(w.nodes) /\ Len(w.nodes) \in Nat
  OBVIOUS
<1>5. NodesOf(w) \subseteq Id
  BY <1>4 DEF NodesOf, Range
<1>6. IsFiniteSet(NodesOf(w))
  <2>0. IsFiniteSet(1 .. Len(w.nodes))
    BY ONLY <1>4, Places
  <2>1. IsFiniteSet(DOMAIN w.nodes)
    BY <1>4, <2>0
  <2>2. w.nodes \in Surjection(DOMAIN w.nodes, NodesOf(w))
    BY <1>4 DEF Surjection, NodesOf, Range
  <2> QED
    BY <2>1, <2>2, FS_Surjection
<1>7. IsFiniteSet(Children(w, n))
  <2>1. IsFiniteSet(Outgoing(w, n))
    BY <1>2, FS_Subset DEF Outgoing
  <2>2. [c \in Outgoing(w, n) |-> Target(w, c)]
           \in Surjection(Outgoing(w, n), Children(w, n))
    BY DEF Surjection, Children
  <2> QED
    BY <2>1, <2>2, FS_Surjection
<1>8. IsFiniteSet(Parents(w, n))
  <2>1. IsFiniteSet(Incoming(w, n))
    BY <1>2, FS_Subset DEF Incoming
  <2>2. [c \in Incoming(w, n) |-> Source(w, c)]
           \in Surjection(Incoming(w, n), Parents(w, n))
    BY DEF Surjection, Parents
  <2> QED
    BY <2>1, <2>2, FS_Surjection
<1>9. IsFiniteSet(Roots(w))
  BY <1>6, FS_Subset DEF Roots
<1> QED
  BY <1>1, <1>2, <1>3, <1>5, <1>6, <1>7, <1>8, <1>9
     DEF Parents, Children, Roots, Incoming, Outgoing

(* Being a child is the converse of being a parent. *)
LEMMA ChildIffParent ==
    ASSUME NEW w, NEW n, NEW t
    PROVE  t \in Children(w, n) <=> n \in Parents(w, t)
  BY DEF Children, Parents, Outgoing, Incoming

(* A non-empty set of places has a first one. *)
LEMMA FirstPlace ==
    ASSUME NEW I \in SUBSET Nat, I # {}
    PROVE  \E i \in I : \A j \in I : i <= j
<1>1. PICK i \in I : \A j \in I : <<j, i>> \notin OpToRel(<, Nat)
  BY NatLessThanWellFounded, WFMin
<1>2. \A j \in I : ~(j < i)
  BY <1>1 DEF OpToRel
<1> QED
  BY <1>2

(* As many places as elements, for a list without repetitions. *)
LEMMA LengthOfDistinct ==
    ASSUME NEW S, NEW q \in Seq(S), IsInjective(q)
    PROVE  IsFiniteSet(Range(q)) /\ Cardinality(Range(q)) = Len(q)
<1>1. DOMAIN q = 1 .. Len(q) /\ Len(q) \in Nat
  OBVIOUS
<1>2. IsFiniteSet(1 .. Len(q)) /\ Cardinality(1 .. Len(q)) = Len(q)
  BY <1>1, Places
<1>3. q \in Surjection(1 .. Len(q), Range(q)) /\ q \in Injection(1 .. Len(q), Range(q))
  BY <1>1 DEF Surjection, Injection, Range
<1> QED
  BY <1>2, <1>3, FS_Surjection

(* The graph operators of a workflow yield nodes of it. *)
LEMMA GraphTypes ==
    ASSUME NEW w \in Workflows, NEW n
    PROVE  /\ NodesOf(w) \subseteq NodeId /\ IsFiniteSet(NodesOf(w))
           /\ Parents(w, n) \subseteq NodeId /\ IsFiniteSet(Parents(w, n))
           /\ Children(w, n) \subseteq NodeId /\ IsFiniteSet(Children(w, n))
<1> DEFINE Conn == [source_node : NodeId, source_index : Nat, target_node : NodeId]
<1>1. w.nodes \in Seq(NodeId) /\ w.connections \in Seq(Conn)
  BY ShapesAssumption
<1>2. \A e \in Conn : e.source_node \in NodeId /\ e.target_node \in NodeId
  OBVIOUS
<1> HIDE DEF Conn
<1> QED
  BY <1>1, <1>2, GraphShape, ZenonT(60)

(***************************************************************************)
(* The inductive invariant: the checks before the sort have passed; the    *)
(* indegree of a node counts its parents that are not in the order yet;    *)
(* the nodes met so far are those with no such parent.                     *)
(***************************************************************************)
Sorting == step \in {"sort", "built", "CycleDetectedError"}

CheckInv ==
    /\ step = "WorkflowValidationError" => ~NoDuplicateIds(workflow)
    /\ step \in Ends \cup {"adjacency", "sort"} => \/ NoDuplicateIds(workflow)
                                                 \/ step = "WorkflowValidationError"
    /\ step = "InvalidConnectionError" => ~EndpointsKnown(workflow)
    /\ Sorting => EndpointsKnown(workflow)
    /\ ~Sorting => order = <<>>
    /\ step = "built" => queue = <<>> /\ AllVisited
    /\ step = "CycleDetectedError" => queue = <<>> /\ ~AllVisited

ListsInv ==
    /\ IsInjective(queue)
    /\ IsInjective(order)
    /\ Range(queue) \cap Range(order) = {}

SortInv ==
    Sorting =>
        /\ \A n \in NodeId :
              indegree[n] = Cardinality(Parents(workflow, n) \ Range(order))
        /\ \A n \in NodeId :
              n \in Range(queue) \cup Range(order) <=>
                  n \in NodesOf(workflow) /\ Parents(workflow, n) \subseteq Range(order)

IInv == TypeOK /\ CheckInv /\ ListsInv /\ SortInv /\ OrderIsTopological

(* The invariant holds when the constructor is entered. *)
LEMMA InitIInv == Init => IInv
<1> SUFFICES ASSUME Init PROVE IInv
  OBVIOUS
<1>1. Range(queue) = {} /\ Range(order) = {} /\ IsInjective(queue) /\ IsInjective(order)
  BY DEF Init, Range, IsInjective
<1> QED
  BY <1>1 DEF Init, IInv, TypeOK, CheckInv, ListsInv, SortInv, Sorting, Ends,
              OrderIsTopological

(* Indexing the nodes keeps the invariant. *)
LEMMA BuildNodeIndexIInv == IInv /\ BuildNodeIndex => IInv'
  BY DEF IInv, BuildNodeIndex, TypeOK, CheckInv, ListsInv, SortInv, Sorting, Ends,
         OrderIsTopological, AllVisited

(* What a deque filled in declaration order holds. *)
LEMMA InOrderProperties ==
    ASSUME NEW w, NEW T \in SUBSET NodeId, IsFiniteSet(T), NEW s \in InOrder(w, T)
    PROVE  s \in Seq(NodeId) /\ Range(s) = T /\ IsInjective(s)
  BY ListsProperties DEF InOrder

(* The set-up of the sort establishes its loop invariant. *)
LEMMA BuildAdjacencyIInv == IInv /\ BuildAdjacency => IInv'
<1> SUFFICES ASSUME IInv, BuildAdjacency PROVE IInv'
  OBVIOUS
<1>1. CASE ~EndpointsKnown(workflow)
  BY <1>1 DEF IInv, BuildAdjacency, TypeOK, CheckInv, ListsInv, SortInv, Sorting, Ends,
              OrderIsTopological, AllVisited
<1>2. CASE EndpointsKnown(workflow)
  <2> DEFINE Z == {n \in NodesOf(workflow) : Indegree(workflow)[n] = 0}
  <2>0. workflow \in Workflows
    BY DEF IInv, TypeOK
  <2>1. order = <<>> /\ order' = <<>> /\ Range(order') = {}
    BY DEF IInv, BuildAdjacency, CheckInv, Sorting, Range
  <2>2. \A n \in NodeId : /\ IsFiniteSet(Parents(workflow, n))
                          /\ Cardinality(Parents(workflow, n)) \in Nat
                          /\ Cardinality(Parents(workflow, n)) = 0
                                <=> Parents(workflow, n) = {}
    BY <2>0, GraphTypes, FS_CardinalityType, FS_EmptySet
  <2>3. Z \subseteq NodeId /\ IsFiniteSet(Z)
    BY <2>0, GraphTypes, FS_Subset
  <2>4. /\ queue' \in Seq(NodeId) /\ Range(queue') = Z /\ IsInjective(queue')
    BY <1>2, <2>3, InOrderProperties DEF BuildAdjacency
  <2>5. indegree' = Indegree(workflow) /\ indegree' \in [NodeId -> Nat]
    BY <1>2, <2>2 DEF BuildAdjacency, Indegree
  <2>6. TypeOK'
    BY <1>2, <2>4, <2>5 DEF IInv, TypeOK, BuildAdjacency
  <2>7. CheckInv'
    BY <1>2, <2>1 DEF IInv, CheckInv, BuildAdjacency, Sorting, Ends
  <2>8. ListsInv' /\ OrderIsTopological'
    BY <2>1, <2>4 DEF ListsInv, OrderIsTopological, IsInjective
  <2>9. SortInv'
    <3>1. workflow' = workflow
      BY DEF BuildAdjacency
    <3>2. \A n \in NodeId : Parents(workflow, n) \ Range(order') = Parents(workflow, n)
      BY <2>1
    <3>3. \A n \in NodeId :
            indegree'[n] = Cardinality(Parents(workflow, n) \ Range(order'))
      BY <2>5, <3>2 DEF Indegree
    <3>4. \A n \in NodeId : n \in Z <=>
              n \in NodesOf(workflow) /\ Parents(workflow, n) = {}
      BY <2>2 DEF Indegree
    <3> QED
      BY <2>1, <2>4, <3>1, <3>3, <3>4 DEF SortInv
  <2> QED
    BY <2>6, <2>7, <2>8, <2>9 DEF IInv
<1> QED
  BY <1>1, <1>2

(* One iteration of the sort keeps the loop invariant. *)
LEMMA VisitIInv == IInv /\ Visit => IInv'
<1> SUFFICES ASSUME IInv, Visit PROVE IInv'
  OBVIOUS
<1> DEFINE n == Head(queue)
<1>0. workflow \in Workflows /\ workflow' = workflow /\ Sorting /\ Sorting' /\ step' = step
  BY DEF IInv, TypeOK, Visit, Decremented, Sorting
<1>1. /\ n \in NodeId /\ n \in Range(queue) /\ Tail(queue) \in Seq(NodeId)
      /\ Range(Tail(queue)) = Range(queue) \ {n} /\ IsInjective(Tail(queue))
  BY PopLeft DEF IInv, TypeOK, ListsInv, Visit, Decremented
<1>2. n \notin Range(order)
  BY <1>1 DEF IInv, ListsInv
<1>3. /\ order' = Append(order, n) /\ order' \in Seq(NodeId)
      /\ Range(order') = Range(order) \cup {n} /\ IsInjective(order')
  <2>1. order' = order \o <<n>> /\ <<n>> \in Seq(NodeId) /\ order \in Seq(NodeId)
    BY <1>1 DEF Visit, Decremented, IInv, TypeOK
  <2>2. Range(<<n>>) = {n} /\ IsInjective(<<n>>)
    BY DEF Range, IsInjective
  <2>3. IsInjective(order) /\ Range(order) \cap Range(<<n>>) = {}
    BY <1>2, <2>2 DEF IInv, ListsInv
  <2>4. /\ order \o <<n>> \in Seq(NodeId) /\ IsInjective(order \o <<n>>)
        /\ Range(order \o <<n>>) = Range(order) \cup Range(<<n>>)
    BY <2>1, <2>2, <2>3, Extend, ZenonT(60)
  <2> QED
    BY <2>1, <2>2, <2>4 DEF Visit, Decremented
<1>4. ASSUME NEW t \in NodeId
      PROVE  LET before == Parents(workflow, t) \ Range(order)
                 after  == Parents(workflow, t) \ Range(order')
             IN  /\ indegree[t] = Cardinality(before)
                 /\ indegree'[t] = Cardinality(after)
                 /\ indegree'[t] \in Nat
                 /\ t \in Freed(n) <=> n \in Parents(workflow, t) /\ after = {}
  <2> DEFINE before == Parents(workflow, t) \ Range(order)
  <2> DEFINE after  == Parents(workflow, t) \ Range(order')
  <2>1. IsFiniteSet(before) /\ after = before \ {n}
    BY <1>0, <1>3, GraphTypes, FS_Subset
  <2>2. indegree[t] = Cardinality(before)
    BY <1>0 DEF IInv, SortInv
  <2>3. t \in Children(workflow, n) <=> n \in before
    BY <1>2, ChildIffParent
  <2>4. /\ IsFiniteSet(after) /\ Cardinality(after) \in Nat
        /\ Cardinality(after) = IF n \in before THEN Cardinality(before) - 1
                                                ELSE Cardinality(before)
        /\ Cardinality(after) = 0 <=> after = {}
    <3> HIDE DEF before, after, n
    <3>1. /\ IsFiniteSet(after)
          /\ Cardinality(after) = IF n \in before THEN Cardinality(before) - 1
                                                  ELSE Cardinality(before)
      BY <2>1, FS_RemoveElement
    <3>2. Cardinality(after) \in Nat
      BY <3>1, FS_CardinalityType
    <3>3. Cardinality(after) = 0 <=> after = {}
      BY <3>1, FS_EmptySet
    <3> QED
      BY <3>1, <3>2, <3>3
  <2>5. indegree'[t] = IF t \in Children(workflow, n) THEN indegree[t] - 1 ELSE indegree[t]
    BY DEF Visit, Decremented
  <2>6. indegree'[t] = Cardinality(after)
    BY <2>2, <2>3, <2>4, <2>5
  <2>7. t \in Freed(n) <=> n \in Parents(workflow, t) /\ after = {}
    BY <1>2, <2>2, <2>3, <2>4 DEF Freed
  <2> QED
    BY <2>2, <2>4, <2>6, <2>7
<1>5. Freed(n) \subseteq NodeId /\ IsFiniteSet(Freed(n))
  BY <1>0, GraphTypes, FS_Subset DEF Freed
<1>6. PICK s \in InOrder(workflow, Freed(n)) : queue' = Tail(queue) \o s
  BY DEF Visit, Decremented
<1>7. s \in Seq(NodeId) /\ Range(s) = Freed(n) /\ IsInjective(s)
  BY <1>5, InOrderProperties
<1>8. Freed(n) \cap (Range(queue) \cup Range(order)) = {}
  <2> SUFFICES ASSUME NEW t \in Freed(n), t \in Range(queue) \cup Range(order)
               PROVE  FALSE
    OBVIOUS
  <2>1. t \in NodeId /\ Parents(workflow, t) \subseteq Range(order)
    BY <1>0, <1>5 DEF IInv, SortInv
  <2> QED
    BY <1>2, <1>4, <2>1
<1>9. /\ queue' \in Seq(NodeId) /\ IsInjective(queue')
      /\ Range(queue') = (Range(queue) \ {n}) \cup Freed(n)
  <2> DEFINE q == Tail(queue)
  <2>1. /\ q \in Seq(NodeId) /\ IsInjective(q) /\ Range(q) = Range(queue) \ {n}
        /\ queue' = q \o s
    BY <1>1, <1>6
  <2> HIDE DEF q, n
  <2>2. Range(q) \cap Range(s) = {}
    BY <1>7, <1>8, <2>1
  <2>3. /\ q \o s \in Seq(NodeId) /\ IsInjective(q \o s)
        /\ Range(q \o s) = Range(q) \cup Range(s)
    BY <1>7, <2>1, <2>2, Extend
  <2> QED
    BY <1>7, <2>1, <2>3
<1>10. TypeOK'
  <2>1. indegree' \in [NodeId -> Nat]
    BY <1>4 DEF Visit, Decremented
  <2> QED
    BY <1>0, <1>3, <1>9, <2>1 DEF IInv, TypeOK
<1>11. CheckInv'
  BY <1>0 DEF IInv, CheckInv, Visit, Decremented, Sorting
<1>12. ListsInv'
  BY <1>1, <1>3, <1>8, <1>9 DEF IInv, ListsInv
<1>13. SortInv'
  <2>1. ASSUME NEW t \in NodeId
        PROVE  t \in Range(queue') \cup Range(order') <=>
                  t \in NodesOf(workflow) /\ Parents(workflow, t) \subseteq Range(order')
    <3>1. t \in Range(queue) \cup Range(order) <=>
             t \in NodesOf(workflow) /\ Parents(workflow, t) \subseteq Range(order)
      BY <1>0 DEF IInv, SortInv
    <3>2. t \in Freed(n) => t \in NodesOf(workflow)
      BY <1>0 DEF IInv, CheckInv, EndpointsKnown, Freed, Children, Outgoing
    <3>3. t \in Freed(n) <=> /\ n \in Parents(workflow, t)
                             /\ Parents(workflow, t) \subseteq Range(order')
      BY <1>4
    <3> QED
      BY <1>1, <1>3, <1>9, <3>1, <3>2, <3>3
  <2> QED
    BY <1>0, <1>4, <2>1 DEF SortInv
<1>14. OrderIsTopological'
  <2>1. Len(order) \in Nat /\ DOMAIN order = 1 .. Len(order)
    BY DEF IInv, TypeOK
  <2>2. /\ DOMAIN order' = 1 .. Len(order) + 1
        /\ \A i \in 1 .. Len(order) : order'[i] = order[i]
        /\ order'[Len(order) + 1] = n
    BY <1>3, <2>1 DEF IInv, TypeOK
  <2>3. ASSUME NEW i \in DOMAIN order', NEW p \in Parents(workflow, order'[i])
        PROVE  \E j \in 1 .. i - 1 : order'[j] = p
    <3>1. CASE i = Len(order) + 1
      <4>1. p \in Range(order)
        BY <1>0, <1>1, <2>2, <3>1 DEF IInv, SortInv
      <4> QED
        BY <2>1, <2>2, <3>1, <4>1 DEF Range
    <3>2. CASE i \in 1 .. Len(order)
      <4>1. PICK j \in 1 .. i - 1 : order[j] = p
        BY <2>1, <2>2, <3>2 DEF IInv, OrderIsTopological
      <4>2. j \in 1 .. Len(order)
        BY <2>1, <3>2
      <4> QED
        BY <2>2, <4>1, <4>2
    <3> QED
      BY <2>1, <2>2, <3>1, <3>2
  <2> QED
    BY <1>0, <1>3, <2>3 DEF OrderIsTopological
<1> QED
  BY <1>10, <1>11, <1>12, <1>13, <1>14 DEF IInv

(* Ending the sort keeps the invariant. *)
LEMMA FinishIInv == IInv /\ Finish => IInv'
  BY DEF IInv, Finish, TypeOK, CheckInv, ListsInv, SortInv, Sorting, Ends,
         OrderIsTopological, AllVisited

(* IInv is an invariant of the constructor. *)
THEOREM Invariance == Spec => []IInv
<1>1. Init => IInv
  BY InitIInv
<1>2. IInv /\ [Next]_vars => IInv'
  <2> SUFFICES ASSUME IInv, [Next]_vars PROVE IInv'
    OBVIOUS
  <2>1. CASE UNCHANGED vars
    BY <2>1 DEF vars, IInv, TypeOK, CheckInv, ListsInv, SortInv, Sorting,
                OrderIsTopological, AllVisited
  <2> QED
    BY <2>1, BuildNodeIndexIInv, BuildAdjacencyIInv, VisitIInv, FinishIInv DEF Next
<1> QED
  BY <1>1, <1>2, PTL DEF Spec
-----------------------------------------------------------------------------
(* A set of nodes each of which has a parent in the set is never touched   *)
(* by the sort: the first of its nodes in the order would come after a     *)
(* parent in the set.                                                      *)
LEMMA CyclicPartNotVisited ==
    ASSUME IInv, NEW S, \A n \in S : Parents(workflow, n) \cap S # {}
    PROVE  S \cap Range(order) = {}
<1> DEFINE I == {i \in DOMAIN order : order[i] \in S}
<1>1. Len(order) \in Nat /\ DOMAIN order = 1 .. Len(order)
  BY DEF IInv, TypeOK
<1>2. I \in SUBSET Nat
  BY <1>1
<1>3. ASSUME I # {} PROVE FALSE
  <2>1. PICK i \in I : \A j \in I : i <= j
    BY <1>2, <1>3, FirstPlace
  <2>2. PICK p \in S : p \in Parents(workflow, order[i])
    BY <2>1
  <2>3. PICK j \in 1 .. i - 1 : order[j] = p
    BY <2>1, <2>2 DEF IInv, OrderIsTopological
  <2>4. j \in I /\ j < i
    BY <1>1, <2>1, <2>2, <2>3
  <2> QED
    BY <1>2, <2>1, <2>4
<1> QED
  BY <1>3 DEF Range

(* With nothing left to visit, the nodes outside the order are such a set. *)
LEMMA UnvisitedIsCyclic ==
    ASSUME IInv, Sorting, queue = <<>>,
           NEW n \in NodesOf(workflow) \ Range(order)
    PROVE  Parents(workflow, n) \cap (NodesOf(workflow) \ Range(order)) # {}
<1>1. Range(queue) = {}
  BY DEF Range
<1>2. n \in NodeId
  BY GraphTypes DEF IInv, TypeOK
<1>3. ~(Parents(workflow, n) \subseteq Range(order))
  BY <1>1, <1>2 DEF IInv, SortInv
<1>4. Parents(workflow, n) \subseteq NodesOf(workflow)
  BY DEF IInv, CheckInv, EndpointsKnown, Parents, Incoming
<1> QED
  BY <1>3, <1>4

(* The comparison of lengths decides whether every node was visited. *)
LEMMA AllVisitedMeansAll ==
    ASSUME IInv, Sorting
    PROVE  Range(order) \subseteq NodesOf(workflow)
           /\ (AllVisited <=> Range(order) = NodesOf(workflow))
<1>1. Range(order) \subseteq NodesOf(workflow)
  BY DEF IInv, TypeOK, SortInv, Range
<1>2. IsFiniteSet(NodesOf(workflow))
  BY GraphTypes DEF IInv, TypeOK
<1>3. Cardinality(Range(order)) = Len(order)
  BY LengthOfDistinct DEF IInv, TypeOK, ListsInv
<1> QED
  BY <1>1, <1>2, <1>3, FS_Subset DEF AllVisited

(* The invariant implies that the verdict is right. *)
LEMMA IInvImpliesVerdict == IInv => VerdictIsRight
<1> SUFFICES ASSUME IInv PROVE VerdictIsRight
  OBVIOUS
<1>1. ASSUME step = "built" PROVE WellFormed(workflow)
  <2>1. Sorting /\ Range(order) = NodesOf(workflow)
    BY <1>1, AllVisitedMeansAll DEF IInv, CheckInv, Sorting
  <2>2. ASSUME NEW S \in SUBSET NodesOf(workflow), S # {}
        PROVE  \E n \in S : Parents(workflow, n) \cap S = {}
    BY <2>1, <2>2, CyclicPartNotVisited
  <2> QED
    BY <1>1, <2>1, <2>2 DEF WellFormed, Acyclic, IInv, CheckInv, Ends
<1>2. ASSUME step = "CycleDetectedError"
      PROVE  NoDuplicateIds(workflow) /\ EndpointsKnown(workflow) /\ ~Acyclic(workflow)
  <2>1. Sorting /\ queue = <<>> /\ ~AllVisited
    BY <1>2 DEF IInv, CheckInv, Sorting
  <2>2. NodesOf(workflow) \ Range(order) # {}
    BY <2>1, AllVisitedMeansAll
  <2>3. ~Acyclic(workflow)
    BY <2>1, <2>2, UnvisitedIsCyclic DEF Acyclic
  <2> QED
    BY <1>2, <2>1, <2>3 DEF IInv, CheckInv, Ends
<1> QED
  BY <1>1, <1>2 DEF VerdictIsRight, IInv, CheckInv, Ends

(* The constructor builds a graph for well-formed workflows only, and, of  *)
(* those without duplicate connections, raises the error that describes    *)
(* what is wrong with the others.                                          *)
THEOREM VerdictAlwaysRight == Spec => []VerdictIsRight
<1>1. IInv => VerdictIsRight
  BY IInvImpliesVerdict
<1> QED
  BY <1>1, Invariance, PTL

(* The constructor's state has its type; no indegree falls below zero. *)
THEOREM TypeCorrect == Spec => []TypeOK
<1>1. IInv => TypeOK
  BY DEF IInv
<1>2. QED
  BY <1>1, Invariance, PTL

(* The order is topological at every moment of the sort. *)
THEOREM OrderAlwaysTopological == Spec => []OrderIsTopological
  BY Invariance, PTL DEF IInv

(* The invariant implies what the error message names. *)
LEMMA IInvImpliesOffenders == IInv => OffendersAreTheCyclicPart
<1> SUFFICES ASSUME IInv, step = "CycleDetectedError"
             PROVE  Offenders = UNION {S \in SUBSET NodesOf(workflow) :
                                  \A n \in S : Parents(workflow, n) \cap S # {}}
  BY DEF OffendersAreTheCyclicPart
<1> DEFINE U == NodesOf(workflow) \ Range(order)
<1>1. Sorting /\ queue = <<>> /\ workflow \in Workflows
  BY DEF IInv, CheckInv, Sorting, TypeOK
<1>2. \A n \in U : Parents(workflow, n) \cap U # {}
  BY <1>1, UnvisitedIsCyclic
<1>3. Offenders = U
  <2> SUFFICES ASSUME NEW n \in NodesOf(workflow)
               PROVE  indegree[n] > 0 <=> n \notin Range(order)
    BY DEF Offenders
  <2> DEFINE waiting == Parents(workflow, n) \ Range(order)
  <2>1. n \in NodeId /\ IsFiniteSet(waiting) /\ indegree[n] = Cardinality(waiting)
    BY <1>1, GraphTypes, FS_Subset DEF IInv, SortInv
  <2>2. Range(queue) = {}
    BY <1>1 DEF Range
  <2>3. n \in Range(order) <=> waiting = {}
    BY <1>1, <2>1, <2>2 DEF IInv, SortInv
  <2>4. Cardinality(waiting) \in Nat /\ (Cardinality(waiting) = 0 <=> waiting = {})
    <3> HIDE DEF waiting
    <3> QED
      BY <2>1, FS_CardinalityType, FS_EmptySet
  <2> QED
    BY <2>1, <2>3, <2>4
<1>4. \A S \in SUBSET NodesOf(workflow) :
         (\A n \in S : Parents(workflow, n) \cap S # {}) => S \subseteq U
  BY CyclicPartNotVisited
<1> QED
  BY <1>2, <1>3, <1>4

(* The nodes named by CycleDetectedError are exactly those from which the  *)
(* parents never run out: the cycles and everything downstream of them.    *)
THEOREM OffendersAlwaysCyclicPart == Spec => []OffendersAreTheCyclicPart
<1>1. IInv => OffendersAreTheCyclicPart
  BY IInvImpliesOffenders
<1> QED
  BY <1>1, Invariance, PTL
=============================================================================
