-------------------------- MODULE WorkflowExecutor --------------------------
(***************************************************************************)
(* WorkflowExecutor.run of src/weftlyflow/engine/executor.py, with the     *)
(* RunState of engine/runtime.py it fills in.                              *)
(*                                                                         *)
(* Items are abstracted to what decides where they flow: a node's output   *)
(* is the set of output indices that carry at least one item, and an input *)
(* bucket is known by how many times each connection has been extended     *)
(* into it.                                                                *)
(***************************************************************************)
EXTENDS WorkflowGraph

CONSTANTS NodeId,       \* the ids a workflow may use for its nodes
          Workflows,    \* the workflows a run may be given
          OutIndex,     \* the output indices a node may fill
          None          \* Python's None

(* A workflow as the executor reads it; the three sets hold the nodes      *)
(* whose disabled, pin_data and continue_on_fail attributes are set.       *)
Connection == [source_node : NodeId, source_index : OutIndex,
               target_node : NodeId, target_port : {"main", "other"}]
WorkflowType == [nodes : Seq(NodeId), connections : Seq(Connection),
                 disabled : SUBSET NodeId, pinned : SUBSET NodeId,
                 continue_on_fail : SUBSET NodeId]

ASSUME ConstantsAssumption ==
    /\ None \notin NodeId \cup {"success", "error"}
    /\ 0 \in OutIndex
    /\ Workflows \subseteq WorkflowType

VARIABLES
    workflow,        \* the argument of run()
    seeded,          \* initial_items is not the empty list
    phase,           \* where run() is: "begin", "loop", "node", "end", "raised"
    ready_queue,     \* the deque of ready node ids
    pending,         \* pending[n]: the parents n still waits for
    deliveries,      \* deliveries[c]: extends of c's target bucket so far
    current,         \* the node whose _run_one is awaited, or None
    run_data,        \* RunState.run_data.per_node
    failed_node_id,  \* RunState.failed_node_id
    status,          \* Execution.status once built, else None
    hooks            \* the lifecycle callbacks made so far, oldest first

vars == <<workflow, seeded, phase, ready_queue, pending, deliveries, current,
          run_data, failed_node_id, status, hooks>>

HookCall(event, node) == [event |-> event, node |-> node]

NodeRunData == [status : {"success", "error", "disabled"}, ports : SUBSET OutIndex]

HookType == [event : {"execution_start", "execution_end", "node_start",
                      "node_end", "node_error"},
             node : NodeId \cup {None}]

(* The state of run() has the shape the code gives it; a NodeRunData has   *)
(* one of the three statuses _run_one produces.                            *)
TypeOK ==
    /\ workflow \in Workflows
    /\ seeded \in BOOLEAN
    /\ phase \in {"begin", "loop", "node", "end", "raised"}
    /\ ready_queue \in Seq(NodeId)
    /\ pending \in [NodeId -> SUBSET NodeId]
    /\ deliveries \in [ConnsOf(workflow) -> Nat]
    /\ current \in NodeId \cup {None}
    /\ run_data \in [NodeId -> Seq(NodeRunData)]
    /\ failed_node_id \in NodeId \cup {None}
    /\ status \in {"success", "error", None}
    /\ hooks \in Seq(HookType)
-----------------------------------------------------------------------------
Init ==
    /\ workflow \in Workflows
    /\ seeded \in BOOLEAN
    /\ phase = "begin"
    /\ ready_queue = <<>>
    /\ pending = [n \in NodeId |-> {}]
    /\ deliveries = [c \in ConnsOf(workflow) |-> 0]
    /\ current = None
    /\ run_data = [n \in NodeId |-> <<>>]
    /\ failed_node_id = None
    /\ status = None
    /\ hooks = <<>>

(* _compute_initial_pending *)
InitialPending(w) == [n \in NodeId |-> Parents(w, n)]

(* The prologue of run(): build the graph, seed the roots, fill the queue  *)
(* in topological order (roots come first, in declaration order), call     *)
(* on_execution_start.                                                     *)
Begin ==
    /\ phase = "begin"
    /\ WellFormed(workflow)
    /\ \E s \in [1 .. Cardinality(Roots(workflow)) -> Roots(workflow)] :
          /\ Lists(s, Roots(workflow), DeclarationOrder(workflow))
          /\ ready_queue' = s
    /\ pending' = InitialPending(workflow)
    /\ hooks' = Append(hooks, HookCall("execution_start", None))
    /\ phase' = "loop"
    /\ UNCHANGED <<workflow, seeded, deliveries, current, run_data,
                   failed_node_id, status>>

(* Mutant: a workflow in which no node is a root is refused, even the      *)
(* empty one.                                                              *)
RefuseRootless ==
    /\ phase = "begin"
    /\ ~WellFormed(workflow) \/ Roots(workflow) = {}
    /\ phase' = "raised"
    /\ UNCHANGED <<workflow, seeded, ready_queue, pending, deliveries, current,
                   run_data, failed_node_id, status, hooks>>

(* WorkflowGraph() raises and the exception leaves run(): no execution.    *)
RefuseGraph ==
    /\ phase = "begin"
    /\ ~WellFormed(workflow)
    /\ phase' = "raised"
    /\ UNCHANGED <<workflow, seeded, ready_queue, pending, deliveries, current,
                   run_data, failed_node_id, status, hooks>>

(* Mutant: the loop condition forgets failed_node_id. *)
LoopEndsWhenDrained == ready_queue = <<>>

(* Mutant: the loop waits for more nodes when the queue is empty. *)
LoopEndsOnFailure == failed_node_id # None

(* The condition of the while loop, negated *)
LoopEnds == ready_queue = <<>> \/ failed_node_id # None

(* The head of an iteration: popleft, then on_node_start. *)
StartNode ==
    /\ phase = "loop"
    /\ ~LoopEnds
    /\ ready_queue # <<>>
    /\ current' = Head(ready_queue)
    /\ ready_queue' = Tail(ready_queue)
    /\ hooks' = Append(hooks, HookCall("node_start", Head(ready_queue)))
    /\ phase' = "node"
    /\ UNCHANGED <<workflow, seeded, pending, deliveries, run_data,
                   failed_node_id, status>>

(* ctx.get_input("main") is not empty *)
HasInput(n) ==
    \/ n \in Roots(workflow) /\ seeded
    \/ \E c \in Incoming(workflow, n) :
          /\ workflow.connections[c].target_port = "main"
          /\ deliveries[c] > 0
          /\ \E i \in DOMAIN run_data[Source(workflow, c)] :
                workflow.connections[c].source_index
                    \in run_data[Source(workflow, c)][i].ports

(* Mutant: one extend per child instead of one per connection. *)
PropagatedOncePerChild(n) ==
    [c \in ConnsOf(workflow) |->
        IF /\ c \in Outgoing(workflow, n)
           /\ \A e \in Outgoing(workflow, n) :
                 Target(workflow, e) = Target(workflow, c) => c <= e
        THEN deliveries[c] + 1 ELSE deliveries[c]]

(* _propagate_outputs: one extend per outgoing connection of n *)
Propagated(n) ==
    [c \in ConnsOf(workflow) |->
        IF c \in Outgoing(workflow, n) THEN deliveries[c] + 1 ELSE deliveries[c]]

(* Mutant: the finished parent is not discarded. *)
PendingUnchanged(n) == pending

(* _advance_readiness: n is discarded from its children's pending sets ... *)
PendingWithout(n) ==
    [t \in NodeId |-> IF t \in Children(workflow, n) THEN pending[t] \ {n}
                                                     ELSE pending[t]]
(* Mutant: a child is queued as soon as one of its parents is done. *)
NewlyReadyOnAnyParent(n) == {t \in Children(workflow, n) : pending[t] # {}}

(* ... and the children whose set this empties are queued, each once. *)
NewlyReady(n) ==
    {t \in Children(workflow, n) : pending[t] # {} /\ pending[t] \ {n} = {}}

(* Mutant: without "if not remaining: continue", one entry per connection. *)
AdvanceReadinessPerConnection(n) ==
    LET E == {c \in Outgoing(workflow, n) : pending[Target(workflow, c)] \ {n} = {}}
    IN  /\ pending' = PendingWithout(n)
        /\ \E e \in [1 .. Cardinality(E) -> E] :
              /\ \A i, j \in DOMAIN e : i < j => e[i] < e[j]
              /\ ready_queue' = ready_queue \o [i \in DOMAIN e |-> Target(workflow, e[i])]

AdvanceReadiness(n) ==
    /\ pending' = PendingWithout(n)
    /\ \E s \in [1 .. Cardinality(NewlyReady(n)) -> NewlyReady(n)] :
          /\ Lists(s, NewlyReady(n), MeetingOrder(workflow, n))
          /\ ready_queue' = ready_queue \o s

(* RunState.record *)
Record(n, rec) == run_data' = [run_data EXCEPT ![n] = Append(@, rec)]

(* The tail of an iteration whose node did not fail the run: record,       *)
(* on_node_end, propagate, advance.                                        *)
FinishNode(rec) ==
    /\ Record(current, rec)
    /\ hooks' = Append(hooks, HookCall("node_end", current))
    /\ deliveries' = Propagated(current)
    /\ AdvanceReadiness(current)
    /\ current' = None
    /\ phase' = "loop"
    /\ UNCHANGED <<workflow, seeded, failed_node_id, status>>

(* Mutant: a status of its own for the node that is skipped. *)
SkippedRunData(n) == [status |-> "skipped", ports |-> {}]

(* _disabled_run_data: main input is passed through on output 0 *)
DisabledRunData(n) == [status |-> "disabled", ports |-> IF HasInput(n) THEN {0} ELSE {}]

NodeDisabled ==
    /\ phase = "node"
    /\ current \in workflow.disabled
    /\ FinishNode(DisabledRunData(current))

(* pin_data: the pinned list, which may be empty, replaces the node's run *)
NodePinned ==
    /\ phase = "node"
    /\ current \in workflow.pinned \ workflow.disabled
    /\ \E ports \in SUBSET {0} :
          FinishNode([status |-> "success", ports |-> ports])

(* implementation.execute() is awaited *)
Executes(n) == n \notin workflow.disabled \cup workflow.pinned

NodeSucceeds ==
    /\ phase = "node"
    /\ Executes(current)
    /\ \E ports \in SUBSET OutIndex :
          FinishNode([status |-> "success", ports |-> ports])

(* _handle_node_exception with continue_on_fail: an error item on output 0 *)
NodeFailsAndContinues ==
    /\ phase = "node"
    /\ Executes(current)
    /\ current \in workflow.continue_on_fail
    /\ FinishNode([status |-> "error", ports |-> {0}])

(* Mutant: on_node_error is left to the loop, after on_node_end. *)
LateErrorHook(n) == <<HookCall("node_end", n), HookCall("node_error", n)>>

(* on_node_error is called where the exception is handled, on_node_end in  *)
(* the loop, after the record.                                             *)
FailureHooks(n) == <<HookCall("node_error", n), HookCall("node_end", n)>>

(* _handle_node_exception without it: mark_failed, record, and neither     *)
(* propagation nor readiness.                                              *)
NodeFailsRun ==
    /\ phase = "node"
    /\ Executes(current)
    /\ current \notin workflow.continue_on_fail
    /\ failed_node_id' = current
    /\ Record(current, [status |-> "error", ports |-> {}])
    /\ hooks' = hooks \o FailureHooks(current)
    /\ current' = None
    /\ phase' = "loop"
    /\ UNCHANGED <<workflow, seeded, ready_queue, pending, deliveries, status>>

(* RunState.build_execution *)
FinalStatus == IF failed_node_id # None THEN "error" ELSE "success"

(* Past the loop: build_execution, on_execution_end, return. *)
BuildExecution ==
    /\ phase = "loop"
    /\ LoopEnds
    /\ status' = FinalStatus
    /\ hooks' = Append(hooks, HookCall("execution_end", None))
    /\ phase' = "end"
    /\ UNCHANGED <<workflow, seeded, ready_queue, pending, deliveries, current,
                   run_data, failed_node_id>>

Next ==
    \/ Begin
    \/ RefuseGraph
    \/ StartNode
    \/ NodeDisabled
    \/ NodePinned
    \/ NodeSucceeds
    \/ NodeFailsAndContinues
    \/ NodeFailsRun
    \/ BuildExecution

Spec == Init /\ [][Next]_vars

(* run() is one coroutine: it goes on whenever it can, and every node's    *)
(* execute() is taken to return or raise.                                  *)
FairSpec == Spec /\ WF_vars(Next)
-----------------------------------------------------------------------------
(* The nodes whose run has been recorded, and those of them whose outputs  *)
(* went on to their children.                                              *)
Ran       == {n \in NodeId : run_data[n] # <<>>}
Completed == Ran \ {failed_node_id}

Queued  == Range(ready_queue)
Started == Ran \cup ({current} \ {None})

(* A node is queued, started or recorded only when every one of its        *)
(* parents has been recorded and none of them is the node that failed the  *)
(* run: pending, emptied edge by edge in _advance_readiness, really is the *)
(* set of parents still to come, for parallel connections as well.         *)
ParentsFirst ==
    \A n \in Queued \cup Started : Parents(workflow, n) \subseteq Completed

(* No node runs twice: it is queued at most once, never again once started,*)
(* and leaves one NodeRunData, although a child with several connections   *)
(* from one parent is met several times by _advance_readiness.             *)
RunsOnce ==
    /\ IsInjective(ready_queue)
    /\ Queued \cap Started = {}
    /\ current \notin Ran
    /\ \A n \in NodeId : Len(run_data[n]) <= 1

(* When a node starts, every connection into it has contributed its items  *)
(* to the input bucket exactly once: none is missing, because it waited    *)
(* for the parent, and none is doubled, by parallel connections or by a    *)
(* parent propagated twice.                                                *)
InputsComplete ==
    \A n \in Started : \A c \in Incoming(workflow, n) : deliveries[c] = 1

(* The verdict of build_execution is the truth about run_data.  "success": *)
(* every node that is not disabled has a record and an error among them    *)
(* was allowed to continue.  "error": exactly one node has a fatal record, *)
(* and neither it nor anything that still waited for it passed items on.   *)
OutcomeIsTruthful ==
    /\ status = "success" =>
         /\ NodesOf(workflow) \ workflow.disabled \subseteq Ran
         /\ \A n \in Ran : run_data[n][1].status = "error"
                             => n \in workflow.continue_on_fail
    /\ status = "error" =>
         /\ {n \in Ran : /\ run_data[n][1].status = "error"
                         /\ n \notin workflow.continue_on_fail} = {failed_node_id}
         /\ \A n \in Ran : failed_node_id \notin Parents(workflow, n)
         /\ \A c \in Outgoing(workflow, failed_node_id) : deliveries[c] = 0

(* The callbacks bracket the run: on_execution_start before anything else, *)
(* a node's on_node_start closed by its own on_node_end before the next    *)
(* node starts, on_node_error right after the on_node_start of the node    *)
(* that failed the run, no node started after it, on_execution_end last.   *)
(* Whether on_node_end follows on_node_error is left open.                 *)
HooksBracketTheRun ==
    \A i \in DOMAIN hooks :
        /\ (hooks[i].event = "execution_start") <=> (i = 1)
        /\ hooks[i].event = "node_start" =>
               /\ hooks[i - 1].event \in {"execution_start", "node_end"}
               /\ \A j \in 1 .. i - 1 : hooks[j].event # "node_error"
        /\ hooks[i].event = "node_error" =>
               /\ hooks[i - 1] = HookCall("node_start", hooks[i].node)
               /\ hooks[i].node = failed_node_id
        /\ hooks[i].event = "node_end" =>
               /\ hooks[i - 1].event \in {"node_start", "node_error"}
               /\ hooks[i - 1].node = hooks[i].node
        /\ hooks[i].event = "execution_end" =>
               /\ hooks[i - 1].event \in {"execution_start", "node_end", "node_error"}
               /\ i = Len(hooks)

(* Every run ends: run() returns an Execution or the graph is refused.  In *)
(* particular no set of nodes is left waiting for each other.              *)
Terminates == <>(phase \in {"end", "raised"})

(* A record is never taken back or overwritten, and nothing is recorded    *)
(* once a node has failed the run.                                         *)
RecordsAreFinal ==
    [][\A n \in NodeId :
         run_data'[n] # run_data[n] => run_data[n] = <<>> /\ failed_node_id = None]_vars

(* The run implements the abstract one: its verdict is given in one step   *)
(* with the status, and the node that failed the run is not done.          *)
Abstract ==
    INSTANCE DagRun WITH
        done    <- Completed,
        failed  <- failed_node_id,
        verdict <- IF phase = "raised" THEN "raised"
                   ELSE IF status = None THEN "none" ELSE status

ImplementsDagRun == Abstract!Spec
=============================================================================
