----------------------- MODULE WorkflowExecutorProofs -----------------------
(***************************************************************************)
(* Proofs about WorkflowExecutor, for every set of workflows.              *)
(***************************************************************************)
EXTENDS WorkflowExecutor, FiniteSetTheorems, TLAPS

(***************************************************************************)
(* Facts about queues of nodes and about the graph of a workflow.          *)
(***************************************************************************)
(* The places of a list are finitely many, as many as it is long. *)
LEMMA Places ==
    ASSUME NEW k \in Nat
    PROVE  IsFiniteSet(1 .. k) /\ Cardinality(1 .. k) = k
<1>1. 1 \in Int /\ k \in Int
  OBVIOUS
<1>2. IsFiniteSet(1 .. k) /\ Cardinality(1 .. k) = IF 1 > k THEN 0 ELSE k - 1 + 1
  BY ONLY <1>1, FS_Interval
<1> QED
  BY <1>2

(***************************************************************************)
(* Lists of distinct nodes and the queue operations of the loops.          *)
(***************************************************************************)
(* popleft takes exactly the head away from the queue's elements. *)
LEMMA PopLeft ==
    ASSUME NEW S, NEW q \in Seq(S), q # <<>>, IsInjective(q)
    PROVE  /\ Head(q) \in S
           /\ Tail(q) \in Seq(S)
           /\ Head(q) \in Range(q)
           /\ Range(Tail(q)) = Range(q) \ {Head(q)}
           /\ IsInjective(Tail(q))
<1>1. Len(q) \in Nat /\ Len(q) >= 1 /\ DOMAIN q = 1 .. Len(q)
  OBVIOUS
<1>2. /\ Head(q) = q[1] /\ Tail(q) \in Seq(S)
      /\ DOMAIN Tail(q) = 1 .. Len(q) - 1
      /\ \A i \in DOMAIN Tail(q) : Tail(q)[i] = q[i + 1]
  BY <1>1
<1>3. Head(q) \in S /\ Head(q) \in Range(q)
  BY <1>1, <1>2 DEF Range
<1>4. Range(Tail(q)) \subseteq Range(q) \ {Head(q)}
  BY <1>1, <1>2 DEF Range, IsInjective
<1>5. ASSUME NEW x \in Range(q) \ {Head(q)}
      PROVE  x \in Range(Tail(q))
  <2>1. PICK i \in 1 .. Len(q) : x = q[i]
    BY <1>1 DEF Range
  <2>2. i - 1 \in DOMAIN Tail(q) /\ Tail(q)[i - 1] = x
    BY <1>1, <1>2, <2>1
  <2> QED
    BY <2>2 DEF Range
<1>6. IsInjective(Tail(q))
  BY <1>1, <1>2 DEF IsInjective
<1> QED
  BY <1>2, <1>3, <1>4, <1>5, <1>6

(* Appending new distinct elements keeps a queue free of repetitions. *)
LEMMA Extend ==
    ASSUME NEW S, NEW q \in Seq(S), NEW s \in Seq(S)
    PROVE  /\ q \o s \in Seq(S)
           /\ Range(q \o s) = Range(q) \cup Range(s)
           /\ (IsInjective(q) /\ IsInjective(s) /\ Range(q) \cap Range(s) = {})
                 => IsInjective(q \o s)
<1>1. /\ Len(q) \in Nat /\ DOMAIN q = 1 .. Len(q)
      /\ Len(s) \in Nat /\ DOMAIN s = 1 .. Len(s)
      /\ q \o s \in Seq(S) /\ DOMAIN (q \o s) = 1 .. Len(q) + Len(s)
      /\ \A i \in 1 .. Len(q) : (q \o s)[i] = q[i]
      /\ \A i \in 1 .. Len(s) : (q \o s)[Len(q) + i] = s[i]
  OBVIOUS
<1>2. \A i \in DOMAIN (q \o s) :
         \/ i \in DOMAIN q /\ (q \o s)[i] = q[i]
         \/ i - Len(q) \in DOMAIN s /\ (q \o s)[i] = s[i - Len(q)]
  BY <1>1
<1>3. Range(q \o s) \subseteq Range(q) \cup Range(s)
  BY <1>2 DEF Range
<1>4. Range(q) \subseteq Range(q \o s)
  BY <1>1 DEF Range
<1>5. Range(s) \subseteq Range(q \o s)
  <2> SUFFICES ASSUME NEW i \in DOMAIN s PROVE s[i] \in Range(q \o s)
    BY DEF Range
  <2>1. Len(q) + i \in DOMAIN (q \o s) /\ (q \o s)[Len(q) + i] = s[i]
    BY <1>1
  <2> QED
    BY <2>1 DEF Range
<1>6. ASSUME IsInjective(q), IsInjective(s), Range(q) \cap Range(s) = {}
      PROVE  IsInjective(q \o s)
  <2>1. \A i \in DOMAIN q, j \in DOMAIN s : q[i] # s[j]
    BY <1>6 DEF Range
  <2> QED
    BY <1>1, <1>2, <1>6, <2>1 DEF IsInjective
<1> QED
  BY <1>1, <1>3, <1>4, <1>5, <1>6

(* What the loops that list a finite set of nodes produce. *)
LEMMA ListsProperties ==
    ASSUME NEW S, NEW T \in SUBSET S, IsFiniteSet(T), NEW R,
           NEW s \in [1 .. Cardinality(T) -> T], Lists(s, T, R)
    PROVE  s \in Seq(S) /\ Range(s) = T /\ IsInjective(s)
<1>1. Cardinality(T) \in Nat
  BY FS_CardinalityType
<1>2. s \in Seq(S)
  BY <1>1
<1>3. DOMAIN s \subseteq Nat
  BY <1>1
<1>4. ASSUME NEW i \in DOMAIN s, NEW j \in DOMAIN s, s[i] = s[j]
      PROVE  i = j
  <2>1. i \in Nat /\ j \in Nat
    BY <1>3
  <2>2. ~(i < j) /\ ~(j < i)
    BY <1>4 DEF Lists
  <2> QED
    BY <2>1, <2>2
<1> QED
  BY <1>2, <1>4 DEF Lists, IsInjective

(***************************************************************************)
(* The nodes a workflow's graph speaks of.                                 *)
(***************************************************************************)
LEMMA GraphShape ==
    ASSUME NEW Id, NEW Conn, NEW w, NEW n,
           w.nodes \in Seq(Id), w.connections \in Seq(Conn),
           \A e \in Conn : e.source_node \in Id /\ e.target_node \in Id
    PROVE  /\ ConnsOf(w) \subseteq Nat /\ IsFiniteSet(ConnsOf(w))
           /\ \A c \in ConnsOf(w) : Source(w, c) \in Id /\ Target(w, c) \in Id
           /\ NodesOf(w) \subseteq Id /\ IsFiniteSet(NodesOf(w))
           /\ Parents(w, n) \subseteq Id /\ IsFiniteSet(Parents(w, n))
           /\ Children(w, n) \subseteq Id /\ IsFiniteSet(Children(w, n))
           /\ Roots(w) \subseteq Id /\ IsFiniteSet(Roots(w))
<1>1. ConnsOf(w) = 1 .. Len(w.connections) /\ Len(w.connections) \in Nat
  BY DEF ConnsOf
<1>2. IsFiniteSet(ConnsOf(w))
  BY <1>1, Places
<1>3. \A c \in ConnsOf(w) : Source(w, c) \in Id /\ Target(w, c) \in Id
  <2>1. \A c \in ConnsOf(w) : w.connections[c] \in Conn
    BY <1>1
  <2> QED
    BY <2>1 DEF Source, Target
<1>4. DOMAIN w.nodes = 1 .. Len(w.nodes) /\ Len(w.nodes) \in Nat
  OBVIOUS
<1>5. NodesOf(w) \subseteq Id
  BY <1>4 DEF NodesOf, Range
<1>6. IsFiniteSet(NodesOf(w))
  <2>0. IsFiniteSet(1 .. Len(w.nodes))
    BY ONLY <1>4, Places
  <2>1. IsFiniteSet(DOMAIN w.nodes)
    BY <1>4, <2>0
  <2>2. w.nodes \in Surjection(DOMAIN w.nodes, NodesOf(w))
    BY <1>4 DEF Surjection, NodesOf, Range
  <2> QED
    BY <2>1, <2>2, FS_Surjection
<1>7. IsFiniteSet(Children(w, n))
  <2>1. IsFiniteSet(Outgoing(w, n))
    BY <1>2, FS_Subset DEF Outgoing
  <2>2. [c \in Outgoing(w, n) |-> Target(w, c)]
           \in Surjection(Outgoing(w, n), Children(w, n))
    BY DEF Surjection, Children
  <2> QED
    BY <2>1, <2>2, FS_Surjection
<1>8. IsFiniteSet(Parents(w, n))
  <2>1. IsFiniteSet(Incoming(w, n))
    BY <1>2, FS_Subset DEF Incoming
  <2>2. [c \in Incoming(w, n) |-> Source(w, c)]
           \in Surjection(Incoming(w, n), Parents(w, n))
    BY DEF Surjection, Parents
  <2> QED
    BY <2>1, <2>2, FS_Surjection
<1>9. IsFiniteSet(Roots(w))
  BY <1>6, FS_Subset DEF Roots
<1> QED
  BY <1>1, <1>2, <1>3, <1>5, <1>6, <1>7, <1>8, <1>9
     DEF Parents, Children, Roots, Incoming, Outgoing

(* The graph operators of a workflow yield nodes and connections of it. *)
LEMMA GraphTypes ==
    ASSUME NEW w \in WorkflowType, NEW n
    PROVE  /\ ConnsOf(w) \subseteq Nat
           /\ \A c \in ConnsOf(w) : Source(w, c) \in NodeId /\ Target(w, c) \in NodeId
           /\ NodesOf(w) \subseteq NodeId
           /\ Parents(w, n) \subseteq NodeId
           /\ Children(w, n) \subseteq NodeId /\ IsFiniteSet(Children(w, n))
           /\ Roots(w) \subseteq NodeId /\ IsFiniteSet(Roots(w))
<1>1. w.nodes \in Seq(NodeId) /\ w.connections \in Seq(Connection)
  BY DEF WorkflowType
<1>2. \A e \in Connection : e.source_node \in NodeId /\ e.target_node \in NodeId
  BY DEF Connection
<1> QED
  BY <1>1, <1>2, GraphShape, ZenonT(60)

(***************************************************************************)
(* The inductive invariant.                                                *)
(***************************************************************************)
(* The graph has been accepted. *)
Running == phase \in {"loop", "node", "end"}

(* Where run() is decides which variables may have left their initial      *)
(* values.                                                                 *)
ControlInv ==
    /\ phase = "node" <=> current # None
    /\ phase \in {"begin", "raised"} =>
          ready_queue = <<>> /\ Ran = {} /\ failed_node_id = None
    /\ phase = "raised" => ~WellFormed(workflow)
    /\ Running => WellFormed(workflow)
    /\ phase = "node" => failed_node_id = None
    /\ phase # "end" => status = None
    /\ phase = "end" => status = FinalStatus /\ LoopEnds

(* pending is what its name says, and the nodes queued or started are      *)
(* exactly those with no parent left to wait for.                          *)
ReadinessInv ==
    Running =>
        /\ \A n \in NodeId : pending[n] = Parents(workflow, n) \ Completed
        /\ \A n \in NodeId :
              n \in Queued \cup Started <=>
                  n \in NodesOf(workflow) /\ Parents(workflow, n) \subseteq Completed

(* A connection has delivered once if its source completed, else not yet.  *)
DeliveryInv ==
    \A c \in ConnsOf(workflow) :
        deliveries[c] = IF Source(workflow, c) \in Completed THEN 1 ELSE 0

(* failed_node_id is the one node with a fatal record. *)
RecordInv ==
    /\ \A n \in Ran : n = failed_node_id <=>
          /\ run_data[n][1].status = "error"
          /\ n \notin workflow.continue_on_fail
    /\ failed_node_id # None => failed_node_id \in Ran

IInv ==
    /\ TypeOK
    /\ ControlInv
    /\ RunsOnce
    /\ ReadinessInv
    /\ DeliveryInv
    /\ RecordInv

(* The argument of run() has the type of a workflow. *)
LEMMA WorkflowHasType == TypeOK => workflow \in WorkflowType
  BY ConstantsAssumption DEF TypeOK

(* The invariant holds before the prologue. *)
LEMMA InitIInv == Init => IInv
<1> SUFFICES ASSUME Init PROVE IInv
  OBVIOUS
<1>1. Ran = {} /\ Completed = {} /\ Started = {} /\ Queued = {}
  BY DEF Init, Ran, Completed, Started, Queued, Range
<1>2. TypeOK
  <2>1. \A c \in ConnsOf(workflow) : 0 \in Nat
    OBVIOUS
  <2> QED
    BY <2>1 DEF Init, TypeOK
<1>3. ControlInv
  BY <1>1 DEF Init, ControlInv, Running
<1>4. RunsOnce
  BY <1>1 DEF Init, RunsOnce, IsInjective
<1>5. ReadinessInv
  BY DEF Init, ReadinessInv, Running
<1>6. DeliveryInv
  BY <1>1 DEF Init, DeliveryInv
<1>7. RecordInv
  BY <1>1 DEF Init, RecordInv
<1> QED
  BY <1>2, <1>3, <1>4, <1>5, <1>6, <1>7 DEF IInv

(* The prologue of run() establishes what the loop relies on. *)
LEMMA BeginIInv == IInv /\ Begin => IInv'
<1> SUFFICES ASSUME IInv, Begin PROVE IInv'
  OBVIOUS
<1> USE DEF IInv
<1>0. workflow \in WorkflowType
  BY WorkflowHasType
<1>1. PICK s \in [1 .. Cardinality(Roots(workflow)) -> Roots(workflow)] :
          /\ Lists(s, Roots(workflow), DeclarationOrder(workflow))
          /\ ready_queue' = s
  BY DEF Begin
<1>2. s \in Seq(NodeId) /\ Range(s) = Roots(workflow) /\ IsInjective(s)
  BY <1>0, <1>1, GraphTypes, ListsProperties
<1>3. /\ Ran = {} /\ Ran' = {} /\ Completed = {} /\ Completed' = {}
      /\ current' = None /\ Started' = {} /\ Queued' = Roots(workflow)
  BY <1>1, <1>2 DEF Begin, ControlInv, Ran, Completed, Started, Queued
<1>4. TypeOK'
  <2>1. ready_queue' \in Seq(NodeId)
    BY <1>1, <1>2
  <2>2. pending' \in [NodeId -> SUBSET NodeId]
    BY <1>0, GraphTypes DEF Begin, InitialPending
  <2>3. hooks' \in Seq(HookType)
    BY DEF Begin, TypeOK, HookType, HookCall
  <2> QED
    BY <2>1, <2>2, <2>3 DEF Begin, TypeOK
<1>5. ControlInv'
  BY DEF Begin, ControlInv, Running, FinalStatus, LoopEnds
<1>6. RunsOnce'
  BY <1>1, <1>2, <1>3 DEF Begin, RunsOnce, Ran
<1>7. ReadinessInv'
  <2>1. \A n \in NodeId : pending'[n] = Parents(workflow, n) \ Completed'
    BY <1>3 DEF Begin, InitialPending
  <2>2. \A n \in NodeId : n \in Roots(workflow) <=>
            n \in NodesOf(workflow) /\ Parents(workflow, n) = {}
    BY DEF Roots, Parents
  <2> QED
    BY <1>3, <2>1, <2>2 DEF Begin, ReadinessInv
<1>8. DeliveryInv' /\ RecordInv'
  BY <1>3 DEF Begin, DeliveryInv, RecordInv, ControlInv
<1> QED
  BY <1>4, <1>5, <1>6, <1>7, <1>8

(* A refused graph leaves an empty run behind. *)
LEMMA RefuseGraphIInv == IInv /\ RefuseGraph => IInv'
<1> SUFFICES ASSUME IInv, RefuseGraph PROVE IInv'
  OBVIOUS
<1>1. Ran' = Ran /\ Completed' = Completed /\ Started' = Started /\ Queued' = Queued
  BY DEF RefuseGraph, Ran, Completed, Started, Queued
<1>2. TypeOK'
  BY DEF RefuseGraph, IInv, TypeOK
<1>3. ControlInv'
  BY <1>1 DEF RefuseGraph, IInv, ControlInv, Running
<1> QED
  BY <1>1, <1>2, <1>3 DEF RefuseGraph, IInv, RunsOnce, ReadinessInv, Running,
                          DeliveryInv, RecordInv

(* Taking the head of the queue keeps queued and started nodes apart. *)
LEMMA StartNodeIInv == IInv /\ StartNode => IInv'
<1> SUFFICES ASSUME IInv, StartNode PROVE IInv'
  OBVIOUS
<1> USE DEF IInv
<1>1. /\ Head(ready_queue) \in NodeId /\ Tail(ready_queue) \in Seq(NodeId)
      /\ Head(ready_queue) \in Queued
      /\ Range(Tail(ready_queue)) = Queued \ {Head(ready_queue)}
      /\ IsInjective(Tail(ready_queue))
  BY PopLeft DEF StartNode, TypeOK, RunsOnce, Queued
<1>2. Head(ready_queue) # None
  BY <1>1, ConstantsAssumption
<1>3. /\ current = None /\ failed_node_id = None
      /\ Ran' = Ran /\ Completed' = Completed
      /\ Started = Ran /\ Started' = Ran \cup {Head(ready_queue)}
      /\ Queued' = Queued \ {Head(ready_queue)}
  BY <1>1, <1>2 DEF StartNode, ControlInv, LoopEnds, Ran, Completed, Started, Queued
<1>4. TypeOK'
  <2>1. hooks' \in Seq(HookType)
    BY <1>1 DEF StartNode, TypeOK, HookType, HookCall
  <2> QED
    BY <1>1, <2>1 DEF StartNode, TypeOK
<1>5. ControlInv'
  BY <1>2, <1>3 DEF StartNode, ControlInv, Running
<1>6. RunsOnce'
  BY <1>1, <1>3 DEF StartNode, RunsOnce
<1>7. ReadinessInv'
  <2>1. Queued' \cup Started' = Queued \cup Started
    BY <1>1, <1>3
  <2> QED
    BY <1>3, <2>1 DEF StartNode, ReadinessInv, Running
<1>8. DeliveryInv' /\ RecordInv'
  BY <1>3 DEF StartNode, DeliveryInv, RecordInv
<1> QED
  BY <1>4, <1>5, <1>6, <1>7, <1>8

(* Recording the current node, the only step that changes run_data. *)
LEMMA RecordCurrent ==
    ASSUME IInv, phase = "node", NEW rec \in NodeRunData, Record(current, rec)
    PROVE  /\ current \in NodeId /\ current \notin Ran /\ failed_node_id = None
           /\ run_data' \in [NodeId -> Seq(NodeRunData)]
           /\ run_data'[current] = <<rec>>
           /\ \A n \in NodeId \ {current} : run_data'[n] = run_data[n]
           /\ Ran' = Ran \cup {current}
           /\ Started = Ran \cup {current}
<1>1. current \in NodeId /\ current \notin Ran /\ failed_node_id = None
  BY DEF IInv, TypeOK, ControlInv, RunsOnce
<1>2. run_data[current] = <<>>
  BY <1>1 DEF Ran
<1>3. /\ run_data' \in [NodeId -> Seq(NodeRunData)]
      /\ run_data'[current] = <<rec>>
      /\ \A n \in NodeId \ {current} : run_data'[n] = run_data[n]
  BY <1>1, <1>2 DEF Record, IInv, TypeOK
<1>4. <<rec>> # <<>>
  OBVIOUS
<1>5. Ran' = Ran \cup {current}
  BY <1>1, <1>3, <1>4 DEF Ran
<1> QED
  BY <1>1, <1>3, <1>5, ConstantsAssumption DEF Started

(* FinishNode, for the record of a node that does not fail the run. *)
LEMMA FinishNodeIInv ==
    ASSUME IInv, phase = "node", NEW rec \in NodeRunData, FinishNode(rec),
           rec.status = "error" => current \in workflow.continue_on_fail
    PROVE  IInv'
<1> USE DEF IInv
<1>0. workflow \in WorkflowType
  BY WorkflowHasType
<1>1. /\ current \in NodeId /\ current \notin Ran /\ failed_node_id = None
      /\ run_data' \in [NodeId -> Seq(NodeRunData)]
      /\ run_data'[current] = <<rec>>
      /\ \A n \in NodeId \ {current} : run_data'[n] = run_data[n]
      /\ Ran' = Ran \cup {current}
      /\ Started = Ran \cup {current}
  BY RecordCurrent DEF FinishNode
<1>2. /\ failed_node_id' = None /\ current' = None /\ None \notin NodeId
      /\ workflow' = workflow
      /\ Completed = Ran /\ Completed' = Ran \cup {current}
      /\ Started' = Started
  BY <1>1, ConstantsAssumption DEF FinishNode, Completed, Started, Ran
<1>3. Running /\ Running'
  BY DEF FinishNode, Running
<1>4. PICK s \in [1 .. Cardinality(NewlyReady(current)) -> NewlyReady(current)] :
          /\ Lists(s, NewlyReady(current), MeetingOrder(workflow, current))
          /\ ready_queue' = ready_queue \o s
  BY DEF FinishNode, AdvanceReadiness
<1>5. s \in Seq(NodeId) /\ Range(s) = NewlyReady(current) /\ IsInjective(s)
  <2>1. NewlyReady(current) \subseteq NodeId /\ IsFiniteSet(NewlyReady(current))
    BY <1>0, GraphTypes, FS_Subset DEF NewlyReady
  <2> QED
    BY <1>4, <2>1, ListsProperties
<1>6. \A t \in NodeId : t \in NewlyReady(current) <=>
          /\ current \in Parents(workflow, t)
          /\ Parents(workflow, t) \subseteq Completed'
  <2>1. \A t \in NodeId : t \in Children(workflow, current) <=>
                             current \in Parents(workflow, t)
    BY DEF Children, Parents, Outgoing, Incoming
  <2>2. \A t \in NodeId : pending[t] = Parents(workflow, t) \ Completed
    BY <1>3 DEF ReadinessInv
  <2> QED
    BY <1>1, <1>2, <2>1, <2>2 DEF NewlyReady
<1>7. NewlyReady(current) \cap (Queued \cup Started) = {}
  BY <1>0, <1>1, <1>2, <1>3, <1>6, GraphTypes DEF ReadinessInv, NewlyReady
<1>8. /\ ready_queue' \in Seq(NodeId) /\ IsInjective(ready_queue')
      /\ Queued' = Queued \cup NewlyReady(current)
  BY <1>4, <1>5, <1>7, Extend DEF TypeOK, RunsOnce, Queued
<1>9. TypeOK'
  <2>1. pending' \in [NodeId -> SUBSET NodeId]
    BY DEF FinishNode, AdvanceReadiness, PendingWithout, TypeOK
  <2>2. deliveries' \in [ConnsOf(workflow) -> Nat]
    BY DEF FinishNode, Propagated, TypeOK
  <2>3. hooks' \in Seq(HookType)
    BY <1>1 DEF FinishNode, TypeOK, HookType, HookCall
  <2> QED
    BY <1>1, <1>2, <1>8, <2>1, <2>2, <2>3 DEF FinishNode, TypeOK
<1>10. ControlInv'
  BY <1>2, <1>3 DEF FinishNode, ControlInv, Running
<1>11. RunsOnce'
  <2>1. \A n \in NodeId : Len(run_data'[n]) <= 1
    <3>1. Len(<<rec>>) <= 1
      OBVIOUS
    <3> QED
      BY <1>1, <3>1 DEF RunsOnce
  <2>2. current' \notin Ran'
    BY <1>2 DEF Ran
  <2>3. Queued' \cap Started' = {}
    BY <1>2, <1>7, <1>8 DEF RunsOnce
  <2> QED
    BY <1>8, <2>1, <2>2, <2>3 DEF RunsOnce
<1>12. ReadinessInv'
  <2>1. \A n \in NodeId : pending'[n] = Parents(workflow, n) \ Completed'
    <3> SUFFICES ASSUME NEW n \in NodeId
                 PROVE  pending'[n] = Parents(workflow, n) \ Completed'
      OBVIOUS
    <3>1. pending[n] = Parents(workflow, n) \ Completed
      BY <1>3 DEF ReadinessInv
    <3>2. pending'[n] = IF n \in Children(workflow, current)
                        THEN pending[n] \ {current} ELSE pending[n]
      BY DEF FinishNode, AdvanceReadiness, PendingWithout
    <3>3. n \in Children(workflow, current) <=> current \in Parents(workflow, n)
      BY DEF Children, Parents, Outgoing, Incoming
    <3> QED
      BY <1>2, <3>1, <3>2, <3>3
  <2>2. ASSUME NEW n \in NodeId
        PROVE  n \in Queued' \cup Started' <=>
                  n \in NodesOf(workflow) /\ Parents(workflow, n) \subseteq Completed'
    <3>1. n \in Queued \cup Started <=>
             n \in NodesOf(workflow) /\ Parents(workflow, n) \subseteq Completed
      BY <1>3 DEF ReadinessInv
    <3>2. n \in NewlyReady(current) => n \in NodesOf(workflow)
      BY <1>3 DEF ControlInv, WellFormed, EndpointsKnown, NewlyReady, Children, Outgoing
    <3> QED
      BY <1>2, <1>6, <1>8, <3>1, <3>2
  <2> QED
    BY <1>2, <2>1, <2>2 DEF ReadinessInv
<1>13. DeliveryInv'
  <2> SUFFICES ASSUME NEW c \in ConnsOf(workflow)
               PROVE  deliveries'[c] = IF Source(workflow, c) \in Completed' THEN 1 ELSE 0
    BY <1>2 DEF DeliveryInv
  <2>1. deliveries'[c] = IF Source(workflow, c) = current
                         THEN deliveries[c] + 1 ELSE deliveries[c]
    BY DEF FinishNode, Propagated, Outgoing
  <2>2. deliveries[c] = IF Source(workflow, c) \in Completed THEN 1 ELSE 0
    BY DEF DeliveryInv
  <2> QED
    BY <1>1, <1>2, <2>1, <2>2
<1>14. RecordInv'
  <2>1. \A n \in Ran : n # current /\ run_data'[n] = run_data[n]
    BY <1>1 DEF Ran
  <2>2. run_data'[current][1] = rec
    BY <1>1
  <2> QED
    BY <1>1, <1>2, <2>1, <2>2 DEF RecordInv
<1> QED
  BY <1>9, <1>10, <1>11, <1>12, <1>13, <1>14

(* The fatal failure of a node keeps the invariant. *)
LEMMA NodeFailsRunIInv == IInv /\ NodeFailsRun => IInv'
<1> SUFFICES ASSUME IInv, NodeFailsRun PROVE IInv'
  OBVIOUS
<1> DEFINE rec == [status |-> "error", ports |-> {}]
<1> USE DEF IInv
<1>1. /\ current \in NodeId /\ current \notin Ran /\ failed_node_id = None
      /\ run_data' \in [NodeId -> Seq(NodeRunData)]
      /\ run_data'[current] = <<rec>>
      /\ \A n \in NodeId \ {current} : run_data'[n] = run_data[n]
      /\ Ran' = Ran \cup {current}
      /\ Started = Ran \cup {current}
  <2>1. rec \in NodeRunData
    BY DEF NodeRunData
  <2>2. phase = "node" /\ Record(current, rec)
    BY DEF NodeFailsRun
  <2> QED
    BY <2>1, <2>2, RecordCurrent
<1>2. /\ failed_node_id' = current /\ current' = None /\ current # None
      /\ None \notin NodeId
      /\ Completed = Ran /\ Completed' = Ran
      /\ Started' = Started /\ Queued' = Queued
  BY <1>1, ConstantsAssumption DEF NodeFailsRun, Completed, Started, Ran, Queued
<1>3. Running /\ Running'
  BY DEF NodeFailsRun, Running
<1>4. TypeOK'
  <2>1. hooks' \in Seq(HookType)
    BY <1>1 DEF NodeFailsRun, FailureHooks, TypeOK, HookType, HookCall
  <2> QED
    BY <1>1, <2>1 DEF NodeFailsRun, TypeOK
<1>5. ControlInv'
  BY <1>2, <1>3 DEF NodeFailsRun, ControlInv, Running
<1>6. RunsOnce'
  <2>1. Len(<<rec>>) <= 1
    OBVIOUS
  <2>2. \A n \in NodeId : Len(run_data'[n]) <= 1
    BY <1>1, <2>1 DEF RunsOnce
  <2>3. current' \notin Ran'
    BY <1>2 DEF Ran
  <2> QED
    BY <1>2, <2>2, <2>3 DEF NodeFailsRun, RunsOnce
<1>7. ReadinessInv' /\ DeliveryInv'
  BY <1>2, <1>3 DEF NodeFailsRun, ReadinessInv, DeliveryInv
<1>8. RecordInv'
  <2>1. \A n \in Ran : n # current /\ run_data'[n] = run_data[n]
    BY <1>1 DEF Ran
  <2>2. run_data'[current][1].status = "error"
    BY <1>1
  <2>3. workflow' = workflow /\ current \notin workflow.continue_on_fail
    BY DEF NodeFailsRun
  <2>4. \A n \in Ran : ~(run_data[n][1].status = "error"
                           /\ n \notin workflow.continue_on_fail)
    BY <1>1, <1>2 DEF RecordInv, Ran
  <2> QED
    BY <1>1, <1>2, <2>1, <2>2, <2>3, <2>4 DEF RecordInv
<1> QED
  BY <1>4, <1>5, <1>6, <1>7, <1>8

(* Building the execution keeps the invariant. *)
LEMMA BuildExecutionIInv == IInv /\ BuildExecution => IInv'
<1> SUFFICES ASSUME IInv, BuildExecution PROVE IInv'
  OBVIOUS
<1>1. /\ Ran' = Ran /\ Completed' = Completed /\ Started' = Started
      /\ Queued' = Queued /\ Running /\ Running'
  BY DEF BuildExecution, Ran, Completed, Started, Queued, Running
<1>2. TypeOK'
  <2>1. hooks' \in Seq(HookType)
    BY DEF BuildExecution, IInv, TypeOK, HookType, HookCall
  <2> QED
    BY <2>1 DEF BuildExecution, IInv, TypeOK, FinalStatus
<1>3. ControlInv'
  BY <1>1 DEF BuildExecution, IInv, ControlInv, Running, FinalStatus, LoopEnds
<1> QED
  BY <1>1, <1>2, <1>3 DEF BuildExecution, IInv, RunsOnce, ReadinessInv,
                          DeliveryInv, RecordInv

(* Every action that ends in FinishNode records a non-fatal run. *)
LEMMA FinishingActions ==
    ASSUME IInv,
           NodeDisabled \/ NodePinned \/ NodeSucceeds \/ NodeFailsAndContinues
    PROVE  \E rec \in NodeRunData :
              /\ phase = "node"
              /\ rec.status = "error" => current \in workflow.continue_on_fail
              /\ FinishNode(rec)
<1>1. \A ports \in SUBSET OutIndex : \A st \in {"success", "error", "disabled"} :
         [status |-> st, ports |-> ports] \in NodeRunData
  BY DEF NodeRunData
<1>2. {0} \subseteq OutIndex
  BY ConstantsAssumption
<1>3. CASE NodeDisabled
  <2>1. DisabledRunData(current) \in NodeRunData
    BY <1>1, <1>2 DEF DisabledRunData
  <2>2. DisabledRunData(current).status # "error"
    BY DEF DisabledRunData
  <2> QED
    BY <1>3, <2>1, <2>2 DEF NodeDisabled
<1>4. CASE NodePinned
  <2>1. PICK ports \in SUBSET {0} : FinishNode([status |-> "success", ports |-> ports])
    BY <1>4 DEF NodePinned
  <2>2. [status |-> "success", ports |-> ports] \in NodeRunData
    BY <1>1, <1>2
  <2> QED
    BY <1>4, <2>1, <2>2 DEF NodePinned
<1>5. CASE NodeSucceeds
  <2>1. PICK ports \in SUBSET OutIndex :
            FinishNode([status |-> "success", ports |-> ports])
    BY <1>5 DEF NodeSucceeds
  <2>2. [status |-> "success", ports |-> ports] \in NodeRunData
    BY <1>1
  <2> QED
    BY <1>5, <2>1, <2>2 DEF NodeSucceeds
<1>6. CASE NodeFailsAndContinues
  <2>1. [status |-> "error", ports |-> {0}] \in NodeRunData
    BY <1>1, <1>2
  <2> QED
    BY <1>6, <2>1 DEF NodeFailsAndContinues
<1> QED
  BY <1>3, <1>4, <1>5, <1>6

(* Every step of run() keeps the invariant. *)
LEMMA NextIInv == IInv /\ [Next]_vars => IInv'
<1> SUFFICES ASSUME IInv, [Next]_vars PROVE IInv'
  OBVIOUS
<1>1. CASE Begin
  BY <1>1, BeginIInv
<1>2. CASE RefuseGraph
  BY <1>2, RefuseGraphIInv
<1>3. CASE StartNode
  BY <1>3, StartNodeIInv
<1>4. CASE NodeDisabled \/ NodePinned \/ NodeSucceeds \/ NodeFailsAndContinues
  <2>1. PICK rec \in NodeRunData :
              /\ phase = "node"
              /\ rec.status = "error" => current \in workflow.continue_on_fail
              /\ FinishNode(rec)
    BY <1>4, FinishingActions
  <2> QED
    BY <2>1, FinishNodeIInv
<1>5. CASE NodeFailsRun
  BY <1>5, NodeFailsRunIInv
<1>6. CASE BuildExecution
  BY <1>6, BuildExecutionIInv
<1>7. CASE UNCHANGED vars
  BY <1>7 DEF vars, IInv, TypeOK, ControlInv, Running, FinalStatus, LoopEnds, RunsOnce,
              ReadinessInv, DeliveryInv, RecordInv, Ran, Completed, Started, Queued
<1> QED
  BY <1>1, <1>2, <1>3, <1>4, <1>5, <1>6, <1>7 DEF Next

(* IInv is an invariant of every run. *)
THEOREM Invariance == Spec => []IInv
<1>1. Init => IInv
  BY InitIInv
<1>2. IInv /\ [Next]_vars => IInv'
  BY NextIInv
<1> QED
  BY <1>1, <1>2, PTL DEF Spec
-----------------------------------------------------------------------------
(***************************************************************************)
(* What follows from the invariant.                                        *)
(***************************************************************************)
LEMMA QueuedOrStartedIsReady ==
    ASSUME IInv, NEW n \in Queued \cup Started
    PROVE  n \in NodeId /\ Running /\ Parents(workflow, n) \subseteq Completed
<1>1. n \in NodeId
  BY DEF IInv, TypeOK, Queued, Started, Ran, Range
<1>2. Running
  <2> SUFFICES ASSUME phase \in {"begin", "raised"} PROVE FALSE
    BY DEF IInv, TypeOK, Running
  <2>1. ready_queue = <<>> /\ Ran = {} /\ current = None
    BY DEF IInv, ControlInv
  <2>2. Range(ready_queue) = {}
    BY <2>1 DEF Range
  <2> QED
    BY <2>1, <2>2 DEF Queued, Started
<1> QED
  BY <1>1, <1>2 DEF IInv, ReadinessInv

(* When the loop has ended without a failure nothing is left waiting: a    *)
(* set of nodes that have not run would have a member with no parent in    *)
(* the set, and that member would have been queued.                        *)
LEMMA DrainedMeansAllRan ==
    ASSUME IInv, Running, ready_queue = <<>>, current = None, failed_node_id = None
    PROVE  Ran = NodesOf(workflow)
<1>1. Queued = {} /\ Started = Ran /\ Completed = Ran
  <2>1. None \notin Ran
    BY ConstantsAssumption DEF Ran
  <2> QED
    BY <2>1 DEF Queued, Started, Completed, Range
<1>2. WellFormed(workflow)
  BY DEF IInv, ControlInv
<1>3. Ran \subseteq NodesOf(workflow)
  BY <1>1 DEF IInv, ReadinessInv, Ran
<1>4. ASSUME NodesOf(workflow) \ Ran # {} PROVE FALSE
  <2>1. PICK n \in NodesOf(workflow) \ Ran :
            Parents(workflow, n) \cap (NodesOf(workflow) \ Ran) = {}
    BY <1>2, <1>4 DEF WellFormed, Acyclic
  <2>2. Parents(workflow, n) \subseteq NodesOf(workflow)
    BY <1>2 DEF WellFormed, EndpointsKnown, Parents, Incoming
  <2>3. Parents(workflow, n) \subseteq Completed
    BY <1>1, <2>1, <2>2
  <2>4. n \in NodeId
    BY WorkflowHasType, GraphTypes DEF IInv
  <2> QED
    BY <1>1, <2>1, <2>3, <2>4 DEF IInv, ReadinessInv
<1> QED
  BY <1>3, <1>4

(* The invariant implies the safety properties of the model. *)
LEMMA IInvImpliesSafety ==
    IInv => ParentsFirst /\ InputsComplete /\ OutcomeIsTruthful
<1> SUFFICES ASSUME IInv PROVE ParentsFirst /\ InputsComplete /\ OutcomeIsTruthful
  OBVIOUS
<1>1. ParentsFirst
  BY QueuedOrStartedIsReady DEF ParentsFirst
<1>2. InputsComplete
  <2> SUFFICES ASSUME NEW n \in Started, NEW c \in Incoming(workflow, n)
               PROVE  deliveries[c] = 1
    BY DEF InputsComplete
  <2>1. Source(workflow, c) \in Completed
    BY QueuedOrStartedIsReady DEF Parents
  <2> QED
    BY <2>1 DEF IInv, DeliveryInv, Incoming
<1>3. ASSUME status = "success"
      PROVE  /\ NodesOf(workflow) \ workflow.disabled \subseteq Ran
             /\ \A n \in Ran : run_data[n][1].status = "error"
                                 => n \in workflow.continue_on_fail
  <2>1. phase = "end" /\ failed_node_id = None /\ ready_queue = <<>> /\ current = None
    <3>1. phase = "end"
      BY <1>3, ConstantsAssumption DEF IInv, ControlInv, TypeOK
    <3> QED
      BY <1>3, <3>1 DEF IInv, ControlInv, FinalStatus, LoopEnds
  <2>2. None \notin Ran
    BY ConstantsAssumption DEF Ran
  <2> QED
    BY <2>1, <2>2, DrainedMeansAllRan DEF IInv, RecordInv, Running
<1>4. ASSUME status = "error"
      PROVE  /\ {n \in Ran : /\ run_data[n][1].status = "error"
                             /\ n \notin workflow.continue_on_fail} = {failed_node_id}
             /\ \A n \in Ran : failed_node_id \notin Parents(workflow, n)
             /\ \A c \in Outgoing(workflow, failed_node_id) : deliveries[c] = 0
  <2>1. failed_node_id # None /\ failed_node_id \in Ran
    <3>1. phase = "end"
      BY <1>4, ConstantsAssumption DEF IInv, ControlInv, TypeOK
    <3> QED
      BY <1>4, <3>1 DEF IInv, ControlInv, FinalStatus, RecordInv
  <2>2. failed_node_id \notin Completed
    BY DEF Completed
  <2>3. \A n \in Ran : failed_node_id \notin Parents(workflow, n)
    BY <1>1, <2>2 DEF ParentsFirst, Started
  <2>4. \A c \in Outgoing(workflow, failed_node_id) : deliveries[c] = 0
    BY <2>2 DEF IInv, DeliveryInv, Outgoing
  <2> QED
    BY <2>1, <2>3, <2>4 DEF IInv, RecordInv
<1> QED
  BY <1>1, <1>2, <1>3, <1>4 DEF OutcomeIsTruthful

(* Type correctness of the executor's state. *)
THEOREM TypeCorrect == Spec => []TypeOK
  BY Invariance, PTL DEF IInv

(* No node is ever queued, started or recorded before all its parents have *)
(* completed, whatever the workflow given to run().                        *)
THEOREM ParentsAlwaysFirst == Spec => []ParentsFirst
<1>1. IInv => ParentsFirst
  BY IInvImpliesSafety
<1> QED
  BY <1>1, Invariance, PTL

(* No node is queued or run twice, whatever parallel connections there are.*)
THEOREM EveryNodeRunsOnce == Spec => []RunsOnce
  BY Invariance, PTL DEF IInv

(* A node that starts has received each of its connections exactly once.   *)
THEOREM InputsAlwaysComplete == Spec => []InputsComplete
<1>1. IInv => InputsComplete
  BY IInvImpliesSafety
<1> QED
  BY <1>1, Invariance, PTL

(* An execution that says "success" has a record of every node that is not *)
(* disabled, and one that says "error" has exactly one fatal record and    *)
(* nothing that depended on it.                                            *)
THEOREM OutcomeAlwaysTruthful == Spec => []OutcomeIsTruthful
<1>1. IInv => OutcomeIsTruthful
  BY IInvImpliesSafety
<1> QED
  BY <1>1, Invariance, PTL

(* Once made, a record stays, and none is made after the fatal one. *)
THEOREM RecordsStayFinal == Spec => RecordsAreFinal
<1> DEFINE Final == \A n \in NodeId :
                      run_data'[n] # run_data[n]
                        => run_data[n] = <<>> /\ failed_node_id = None
<1>1. IInv /\ [Next]_vars => [Final]_vars
  <2> SUFFICES ASSUME IInv, Next PROVE Final
    OBVIOUS
  <2>1. CASE Begin \/ RefuseGraph \/ StartNode \/ BuildExecution
    BY <2>1 DEF Begin, RefuseGraph, StartNode, BuildExecution
  <2>2. ASSUME phase = "node", NEW rec \in NodeRunData, Record(current, rec)
        PROVE  Final
    BY <2>2, RecordCurrent DEF Ran
  <2>3. CASE NodeDisabled \/ NodePinned \/ NodeSucceeds \/ NodeFailsAndContinues
    BY <2>2, <2>3, FinishingActions DEF FinishNode
  <2>4. CASE NodeFailsRun
    <3>1. [status |-> "error", ports |-> {}] \in NodeRunData
      BY DEF NodeRunData
    <3> QED
      BY <2>2, <2>4, <3>1 DEF NodeFailsRun
  <2> QED
    BY <2>1, <2>3, <2>4 DEF Next
<1> QED
  BY <1>1, Invariance, PTL DEF Spec, RecordsAreFinal

-----------------------------------------------------------------------------
(***************************************************************************)
(* The callbacks.                                                          *)
(***************************************************************************)
(* How the callbacks of any list s with the failed node f follow each      *)
(* other; on_node_end, as the code has it, also after on_node_error.       *)
Bracketed(s, f) ==
    \A i \in DOMAIN s :
        /\ (s[i].event = "execution_start") <=> (i = 1)
        /\ s[i].event \in {"node_start", "execution_end"} =>
               s[i - 1].event \in {"execution_start", "node_end"}
        /\ s[i].event = "node_start" => \A j \in 1 .. i - 1 : s[j].event # "node_error"
        /\ s[i].event \in {"node_error", "node_end"} =>
               /\ s[i - 1].event \in {"node_start", "node_error"}
               /\ s[i - 1].node = s[i].node
        /\ s[i].event = "node_error" => s[i].node = f /\ s[i - 1].event = "node_start"
        /\ s[i].event = "execution_end" => i = Len(s)

(* No callback of this event was made. *)
NoneIs(s, event) == \A i \in DOMAIN s : s[i].event # event

(* What the last callback was, by where run() is. *)
HookInv ==
    /\ Bracketed(hooks, failed_node_id)
    /\ phase \in {"begin", "raised"} => hooks = <<>>
    /\ phase = "loop" => /\ hooks # <<>>
                         /\ hooks[Len(hooks)].event \in {"execution_start", "node_end"}
    /\ phase = "node" => hooks # <<>> /\ hooks[Len(hooks)] = HookCall("node_start", current)
    /\ phase # "end" => NoneIs(hooks, "execution_end")
    /\ failed_node_id = None => NoneIs(hooks, "node_error")

(* The list with one more callback. *)
LEMMA OneMoreHook ==
    ASSUME NEW s \in Seq(HookType), NEW h \in HookType
    PROVE  /\ Append(s, h) \in Seq(HookType) /\ Len(s) \in Nat
           /\ Len(Append(s, h)) = Len(s) + 1 /\ Append(s, h) # <<>>
           /\ DOMAIN s = 1 .. Len(s) /\ DOMAIN Append(s, h) = 1 .. Len(s) + 1
           /\ Append(s, h)[Len(s) + 1] = h
           /\ \A i \in DOMAIN s : Append(s, h)[i] = s[i]
           /\ s = <<>> <=> Len(s) = 0
           /\ \A event : NoneIs(s, event) /\ h.event # event => NoneIs(Append(s, h), event)
<1>1. /\ Append(s, h) \in Seq(HookType) /\ Len(s) \in Nat
      /\ Len(Append(s, h)) = Len(s) + 1 /\ Append(s, h) # <<>>
      /\ DOMAIN s = 1 .. Len(s) /\ DOMAIN Append(s, h) = 1 .. Len(s) + 1
      /\ Append(s, h)[Len(s) + 1] = h
      /\ \A i \in DOMAIN s : Append(s, h)[i] = s[i]
      /\ s = <<>> <=> Len(s) = 0
  OBVIOUS
<1>2. \A i \in DOMAIN Append(s, h) : i \in DOMAIN s \/ i = Len(s) + 1
  BY <1>1
<1> QED
  BY <1>1, <1>2 DEF NoneIs

(* A callback that fits the one before it leaves the list bracketed. *)
LEMMA HookFits ==
    ASSUME NEW s \in Seq(HookType), NEW f, NEW g, Bracketed(s, f),
           f = g \/ NoneIs(s, "node_error"),
           NoneIs(s, "execution_end"),
           NEW h \in HookType,
           h.event = "execution_start" <=> s = <<>>,
           h.event \in {"node_start", "execution_end"} =>
               s[Len(s)].event \in {"execution_start", "node_end"},
           h.event \in {"node_error", "node_end"} =>
               /\ s[Len(s)].event \in {"node_start", "node_error"}
               /\ s[Len(s)].node = h.node,
           h.event = "node_start" => NoneIs(s, "node_error"),
           h.event = "node_error" => h.node = g /\ s[Len(s)].event = "node_start"
    PROVE  Bracketed(Append(s, h), g)
<1> DEFINE t == Append(s, h)
<1>1. /\ Len(s) \in Nat /\ Len(t) = Len(s) + 1
      /\ DOMAIN s = 1 .. Len(s) /\ DOMAIN t = 1 .. Len(s) + 1
      /\ t[Len(s) + 1] = h
      /\ \A i \in DOMAIN s : t[i] = s[i]
      /\ s = <<>> <=> Len(s) = 0
  BY OneMoreHook
<1> HIDE DEF t
<1> SUFFICES ASSUME NEW i \in DOMAIN t
             PROVE  /\ (t[i].event = "execution_start") <=> (i = 1)
                    /\ t[i].event \in {"node_start", "execution_end"} =>
                           t[i - 1].event \in {"execution_start", "node_end"}
                    /\ t[i].event = "node_start" =>
                           \A j \in 1 .. i - 1 : t[j].event # "node_error"
                    /\ t[i].event \in {"node_error", "node_end"} =>
                           /\ t[i - 1].event \in {"node_start", "node_error"}
                           /\ t[i - 1].node = t[i].node
                    /\ t[i].event = "node_error" => t[i].node = g /\ t[i - 1].event = "node_start"
                    /\ t[i].event = "execution_end" => i = Len(t)
  BY DEF Bracketed, t
<1>3. CASE i \in DOMAIN s
  <2>1. i # 1 => i - 1 \in DOMAIN s
    BY <1>1, <1>3
  <2>2. t[i] = s[i] /\ (i # 1 => t[i - 1] = s[i - 1])
    BY <1>1, <1>3, <2>1
  <2>3. /\ (s[i].event = "execution_start") <=> (i = 1)
        /\ s[i].event \in {"node_start", "execution_end"} =>
               s[i - 1].event \in {"execution_start", "node_end"}
        /\ s[i].event \in {"node_error", "node_end"} =>
               /\ s[i - 1].event \in {"node_start", "node_error"}
               /\ s[i - 1].node = s[i].node
        /\ s[i].event = "node_error" => s[i].node = f /\ f = g /\ s[i - 1].event = "node_start"
        /\ s[i].event = "node_start" => \A j \in 1 .. i - 1 : s[j].event # "node_error"
        /\ s[i].event # "execution_end"
    BY <1>3 DEF Bracketed, NoneIs
  <2>4. \A j \in 1 .. i - 1 : t[j] = s[j]
    BY <1>1, <1>3
  <2> QED
    BY <1>3, <2>2, <2>3, <2>4
<1>4. CASE i = Len(s) + 1
  <2>1. t[i] = h /\ i = Len(t)
    BY <1>1, <1>4
  <2>2. (h.event = "execution_start") <=> (i = 1)
    BY <1>1, <1>4
  <2>3. h.event # "execution_start" => t[i - 1] = s[Len(s)]
    <3>1. s # <<>> => Len(s) \in DOMAIN s
      BY <1>1
    <3>2. i - 1 = Len(s)
      BY <1>1, <1>4
    <3> QED
      BY <1>1, <3>1, <3>2
  <2>4. h.event = "node_start" => \A j \in 1 .. i - 1 : t[j].event # "node_error"
    BY <1>1, <1>4 DEF NoneIs
  <2> QED
    BY <2>1, <2>2, <2>3, <2>4
<1> QED
  BY <1>1, <1>3, <1>4

(* Every step of run() makes the callbacks that fit. *)
LEMMA NextHookInv == IInv /\ HookInv /\ [Next]_vars => HookInv'
<1> SUFFICES ASSUME IInv, HookInv, [Next]_vars PROVE HookInv'
  OBVIOUS
<1>0. hooks \in Seq(HookType) /\ None \notin NodeId
  BY ConstantsAssumption DEF IInv, TypeOK
<1>a. \A event \in {"execution_start", "execution_end", "node_start", "node_end", "node_error"} :
         \A n \in NodeId \cup {None} :
            /\ HookCall(event, n) \in HookType
            /\ HookCall(event, n).event = event /\ HookCall(event, n).node = n
  BY DEF HookCall, HookType
<1>1. CASE Begin
  <2> DEFINE h == HookCall("execution_start", None)
  <2>1. /\ hooks = <<>> /\ hooks' = Append(hooks, h) /\ phase' = "loop"
        /\ failed_node_id' = failed_node_id
    BY <1>1 DEF Begin, HookInv
  <2>2. h \in HookType /\ h.event = "execution_start"
    BY <1>a
  <2>3. NoneIs(hooks, "execution_end") /\ NoneIs(hooks, "node_error")
    BY <2>1 DEF NoneIs
  <2> HIDE DEF h
  <2>4. Bracketed(hooks', failed_node_id')
    BY <1>0, <2>1, <2>2, <2>3, HookFits DEF HookInv
  <2> QED
    BY <1>0, <2>1, <2>2, <2>3, <2>4, OneMoreHook, ZenonT(60) DEF HookInv
<1>2. CASE RefuseGraph
  BY <1>2 DEF RefuseGraph, HookInv
<1>3. CASE StartNode
  <2> DEFINE h == HookCall("node_start", Head(ready_queue))
  <2>1. /\ phase = "loop" /\ hooks' = Append(hooks, h) /\ phase' = "node"
        /\ failed_node_id' = failed_node_id /\ current' = Head(ready_queue)
        /\ failed_node_id = None
    BY <1>3 DEF StartNode, LoopEnds
  <2>2. Head(ready_queue) \in NodeId
    BY <1>3 DEF StartNode, IInv, TypeOK
  <2>3. h \in HookType /\ h.event = "node_start"
    BY <1>a, <2>2
  <2>4. h = HookCall("node_start", current')
    BY <2>1
  <2> HIDE DEF h
  <2>5. Bracketed(hooks', failed_node_id')
    BY <1>0, <2>1, <2>3, HookFits DEF HookInv
  <2>6. hooks' # <<>> /\ hooks'[Len(hooks')] = h
    BY <1>0, <2>1, <2>3, OneMoreHook
  <2> QED
    BY <1>0, <2>1, <2>3, <2>4, <2>5, <2>6, OneMoreHook DEF HookInv
<1>4. CASE NodeDisabled \/ NodePinned \/ NodeSucceeds \/ NodeFailsAndContinues
  <2> DEFINE h == HookCall("node_end", current)
  <2>1. PICK rec \in NodeRunData : phase = "node" /\ FinishNode(rec)
    BY <1>4, FinishingActions
  <2>2. /\ hooks' = Append(hooks, h) /\ phase' = "loop" /\ failed_node_id' = failed_node_id
        /\ failed_node_id = None /\ current \in NodeId
    BY <2>1 DEF FinishNode, IInv, ControlInv, TypeOK
  <2>3. h \in HookType /\ h.event = "node_end" /\ h.node = current
    BY <1>a, <2>2
  <2>4. hooks[Len(hooks)].event = "node_start" /\ hooks[Len(hooks)].node = current
    BY <1>a, <2>1, <2>2 DEF HookInv
  <2> HIDE DEF h
  <2>5. Bracketed(hooks', failed_node_id')
    BY <1>0, <2>1, <2>2, <2>3, <2>4, HookFits DEF HookInv
  <2>6. hooks' # <<>> /\ hooks'[Len(hooks')] = h
    BY <1>0, <2>2, <2>3, OneMoreHook
  <2> QED
    BY <1>0, <2>1, <2>2, <2>3, <2>5, <2>6, OneMoreHook DEF HookInv
<1>5. CASE NodeFailsRun
  <2> DEFINE e == HookCall("node_error", current)
             h == HookCall("node_end", current)
             s == Append(hooks, e)
  <2>1. /\ phase = "node" /\ phase' = "loop" /\ failed_node_id' = current
        /\ failed_node_id = None /\ current \in NodeId /\ current # None
    BY <1>0, <1>5 DEF NodeFailsRun, IInv, ControlInv, TypeOK
  <2>2. /\ e \in HookType /\ e.event = "node_error" /\ e.node = current
        /\ h \in HookType /\ h.event = "node_end" /\ h.node = current
    BY <1>a, <2>1
  <2>3. hooks' = Append(s, h)
    <3>1. hooks' = hooks \o <<e, h>>
      BY <1>5 DEF NodeFailsRun, FailureHooks
    <3> QED
      BY <1>0, <2>2, <3>1
  <2>4. /\ hooks # <<>>
        /\ hooks[Len(hooks)].event = "node_start" /\ hooks[Len(hooks)].node = current
    BY <1>a, <2>1 DEF HookInv
  <2> HIDE DEF e, h
  <2>5. s \in Seq(HookType) /\ s # <<>> /\ s[Len(s)] = e /\ NoneIs(s, "execution_end")
    BY <1>0, <2>1, <2>2, OneMoreHook DEF HookInv
  <2>6. Bracketed(s, current)
    BY <1>0, <2>1, <2>2, <2>4, HookFits DEF HookInv
  <2> HIDE DEF s
  <2>7. Bracketed(hooks', failed_node_id')
    BY <2>1, <2>2, <2>3, <2>5, <2>6, HookFits
  <2>8. hooks' # <<>> /\ hooks'[Len(hooks')] = h /\ NoneIs(hooks', "execution_end")
    BY <2>2, <2>3, <2>5, OneMoreHook
  <2> QED
    BY <2>1, <2>2, <2>7, <2>8 DEF HookInv
<1>6. CASE BuildExecution
  <2> DEFINE h == HookCall("execution_end", None)
  <2>1. /\ phase = "loop" /\ hooks' = Append(hooks, h) /\ phase' = "end"
        /\ failed_node_id' = failed_node_id
    BY <1>6 DEF BuildExecution
  <2>2. h \in HookType /\ h.event = "execution_end"
    BY <1>a
  <2> HIDE DEF h
  <2>3. Bracketed(hooks', failed_node_id')
    BY <1>0, <2>1, <2>2, HookFits DEF HookInv
  <2> QED
    BY <1>0, <2>1, <2>2, <2>3, OneMoreHook DEF HookInv
<1>7. CASE UNCHANGED vars
  BY <1>7 DEF vars, HookInv
<1> QED
  BY <1>1, <1>2, <1>3, <1>4, <1>5, <1>6, <1>7 DEF Next

(* The callbacks of every run are bracketed: the start of the execution    *)
(* first, its end last, each node's start closed by its own end before the *)
(* next one, the error callback only for the node that failed the run, and *)
(* no node started after it.                                               *)
THEOREM HooksAlwaysBracket == Spec => []HooksBracketTheRun
<1>1. Init => HookInv
  <2> SUFFICES ASSUME Init PROVE HookInv
    OBVIOUS
  <2>1. hooks = <<>> /\ phase = "begin" /\ DOMAIN hooks = {}
    BY DEF Init
  <2> QED
    BY <2>1 DEF HookInv, Bracketed, NoneIs
<1>2. IInv /\ HookInv => HooksBracketTheRun
  <2> SUFFICES ASSUME IInv, HookInv PROVE HooksBracketTheRun
    OBVIOUS
  <2>1. hooks \in Seq(HookType)
    BY DEF IInv, TypeOK
  <2>2. ASSUME NEW i \in DOMAIN hooks, hooks[i].event = "node_error"
        PROVE  hooks[i - 1] = HookCall("node_start", hooks[i].node)
    <3>1. i # 1 /\ hooks[i - 1].event = "node_start" /\ hooks[i - 1].node = hooks[i].node
      BY <2>2 DEF HookInv, Bracketed
    <3>2. hooks[i - 1] \in HookType
      BY <2>1, <3>1
    <3> QED
      BY <3>1, <3>2 DEF HookType, HookCall
  <2> QED
    BY <2>2 DEF HookInv, Bracketed, HooksBracketTheRun
<1> QED
  BY <1>1, <1>2, NextHookInv, Invariance, PTL DEF Spec

-----------------------------------------------------------------------------
(* The abstract specification reads the same graph. *)
LEMMA SameGraph ==
    ASSUME NEW w, NEW n
    PROVE  /\ Abstract!NodesOf(w) = NodesOf(w)
           /\ Abstract!Parents(w, n) = Parents(w, n)
           /\ Abstract!WellFormed(w) <=> WellFormed(w)
<1>1. Abstract!NodesOf(w) = NodesOf(w)
  BY DEF NodesOf, Abstract!NodesOf, Range, Abstract!Range
<1>2. \A x : Abstract!Parents(w, x) = Parents(w, x)
  BY DEF Parents, Abstract!Parents, Incoming, Abstract!Incoming, ConnsOf,
         Abstract!ConnsOf, Source, Abstract!Source, Target, Abstract!Target
<1>3. Abstract!Acyclic(w) <=> Acyclic(w)
  BY <1>1, <1>2 DEF Acyclic, Abstract!Acyclic
<1>4. Abstract!NoDuplicateIds(w) <=> NoDuplicateIds(w)
  BY DEF NoDuplicateIds, Abstract!NoDuplicateIds, IsInjective, Abstract!IsInjective
<1>5. Abstract!EndpointsKnown(w) <=> EndpointsKnown(w)
  BY <1>1 DEF EndpointsKnown, Abstract!EndpointsKnown, ConnsOf, Abstract!ConnsOf,
              Source, Abstract!Source, Target, Abstract!Target
<1> QED
  BY <1>1, <1>2, <1>3, <1>4, <1>5 DEF WellFormed, Abstract!WellFormed

(* Every run of the executor is a run of the abstract specification. *)
THEOREM Refinement == Spec => ImplementsDagRun
<1>1. Init => Abstract!Init
  <2> SUFFICES ASSUME Init PROVE Abstract!Init
    OBVIOUS
  <2>1. Completed = {}
    BY DEF Init, Completed, Ran
  <2> QED
    BY <2>1 DEF Init, Abstract!Init
<1>2. IInv /\ IInv' /\ [Next]_vars => [Abstract!Next]_(Abstract!vars)
  <2> SUFFICES ASSUME IInv, IInv', [Next]_vars
               PROVE  Abstract!Next \/ UNCHANGED Abstract!vars
    BY DEF Abstract!vars
  <2>1. CASE Begin \/ StartNode
    BY <2>1 DEF Begin, StartNode, Completed, Ran, Abstract!vars, IInv, ControlInv
  <2>2. CASE RefuseGraph
    <3>1. Abstract!Refuse
      BY <2>2, SameGraph DEF RefuseGraph, Abstract!Refuse, Completed, Ran, IInv, ControlInv
    <3> QED
      BY <3>1 DEF Abstract!Next
  <2>3. CASE BuildExecution
    <3>1. failed_node_id = None => Completed = NodesOf(workflow)
      BY <2>3, DrainedMeansAllRan, ConstantsAssumption
         DEF BuildExecution, LoopEnds, IInv, ControlInv, Running, Completed, Ran
    <3>2. Abstract!Conclude
      BY <2>3, <3>1, SameGraph, ConstantsAssumption
         DEF BuildExecution, FinalStatus, Abstract!Conclude, Completed, Ran, IInv, ControlInv
    <3> QED
      BY <3>2 DEF Abstract!Next
  <2>4. ASSUME phase = "node"
        PROVE  current \in NodesOf(workflow) /\ Abstract!MayRun(current)
    <3>1. current \in Started /\ current \notin Completed /\ failed_node_id = None
      BY <2>4 DEF IInv, ControlInv, RunsOnce, Started, Completed
    <3>2. current \in NodesOf(workflow) /\ Parents(workflow, current) \subseteq Completed
      BY <2>4, <3>1, QueuedOrStartedIsReady DEF IInv, ReadinessInv
    <3> QED
      BY <2>4, <3>1, <3>2, SameGraph DEF Abstract!MayRun, IInv, ControlInv
  <2>5. CASE NodeDisabled \/ NodePinned \/ NodeSucceeds \/ NodeFailsAndContinues
    <3>1. PICK rec \in NodeRunData : phase = "node" /\ FinishNode(rec)
      BY <2>5, FinishingActions
    <3>2. /\ Ran' = Ran \cup {current} /\ failed_node_id = None
          /\ None \notin Ran \cup {current}
      BY <3>1, RecordCurrent, ConstantsAssumption DEF FinishNode, Ran
    <3>3. Abstract!Complete(current)
      BY <2>4, <3>1, <3>2 DEF FinishNode, Abstract!Complete, Completed, IInv, ControlInv
    <3> QED
      BY <2>4, <3>1, <3>3, SameGraph DEF Abstract!Next
  <2>6. CASE NodeFailsRun
    <3>1. [status |-> "error", ports |-> {}] \in NodeRunData
      BY DEF NodeRunData
    <3>2. /\ Ran' = Ran \cup {current} /\ failed_node_id = None
          /\ current \notin Ran /\ None \notin Ran \cup {current}
      BY <2>6, <3>1, RecordCurrent, ConstantsAssumption DEF NodeFailsRun, Ran
    <3>3. Abstract!Fail(current)
      BY <2>4, <2>6, <3>2 DEF NodeFailsRun, Abstract!Fail, Completed, IInv, ControlInv
    <3> QED
      BY <2>4, <2>6, <3>3, SameGraph DEF Abstract!Next, NodeFailsRun
  <2>7. CASE UNCHANGED vars
    BY <2>7 DEF vars, Completed, Ran, Abstract!vars
  <2> QED
    BY <2>1, <2>2, <2>3, <2>5, <2>6, <2>7 DEF Next
<1> QED
  BY <1>1, <1>2, Invariance, PTL DEF Spec, ImplementsDagRun, Abstract!Spec
=============================================================================
