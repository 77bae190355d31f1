# TLA+ models of Weftlyflow

Weftlyflow is a workflow-automation server: users draw workflows of nodes, and
triggers (webhooks, schedules, a manual call) start executions of them. This
directory models the parts of it that decide *what runs, when, how often, and
what is remembered of it*: the execution engine with its nested runs and their
static data, the way a queued execution reaches the database, the leader lock,
the activation of triggers; and the nodes themselves, as far as they compute or
agree with their own declarations: the nodes that join, route and rewrite items,
and the 84 integration nodes with their 87 credential types. TLC checks the
models on small instances; TLAPS proves the safety results for every value of
the constants. Paths below are relative to `src/weftlyflow/` of the repository
unless they start with `docs/` or `frontend/`.

## 1. Inventory

| Component | State | Operations | Talks to |
| --- | --- | --- | --- |
| Workflow graph `engine/graph.py` | node index, edges, topological order | constructor, neighbourhood queries | built by the executor for each run |
| Executor `engine/executor.py`, `engine/runtime.py` | ready queue, pending parents, input buckets, run data, failed node | `run`, `_run_one`, `_handle_node_exception` | nodes, hooks, sub-workflow runner |
| Hooks `engine/hooks.py` | none of their own | start/end of run and node, node error | called by the executor |
| Sub-workflows `engine/subworkflow.py` | none | `run`: load, execute, collect terminal items | executor, recursively |
| Queue `worker/queue.py` | Celery's broker, or asyncio tasks | `enqueue` | triggers and webhooks in, worker out |
| Task and guard `worker/tasks.py`, `worker/idempotency.py`, `worker/execution.py` | one Redis key per execution | claim, run, save, release | Redis, database, engine |
| Execution repository and store `db/repositories/execution_repo.py`, `db/execution_storage.py` | two rows and, for `fs`, a file | `save`, `get`, `list` | called by the task and the API |
| Leader lock `triggers/leader.py` | one Redis key, `_held` per instance | `acquire`, `refresh`, `release`, `is_leader` | asked by the schedule callback |
| Trigger manager `triggers/manager.py` | none of its own | `activate`, `deactivate`, `warm_up`, `_fire` | both tables, registry, scheduler, queue, lock |
| Webhook registry `webhooks/registry.py` | entries by (path, method) | `register`, `unregister`, `load`, `match` | trigger manager, ingress |
| Scheduler `triggers/scheduler.py` | jobs by id | `add_job`, `remove_job` | trigger manager |
| Workflow endpoints `server/routers/workflows.py` | the workflows table | create, PUT, DELETE, activate, deactivate | trigger manager |
| Static data: `nodes/ai/memory_store.py`, `nodes/ai/vector_memory/store.py`, `nodes/core/split_in_batches/` | chat histories, rolling summaries, vector records, a cursor, all in a copy that belongs to the run | append, trim, clear, upsert, query | the nodes of one run |
| Data nodes: merge, switch, compare_datasets, set, transform, rename_keys, text_splitter | none | `execute(ctx, items)` | executor |
| Integration nodes `nodes/integrations/` | none; the stored parameters and credential of a node | `spec()`, `build_request`, `execute` | a remote service, the credential type |
| Credential types `credentials/types/`, `server/routers/credentials.py` | one row per credential | create, `test()`, `inject()` | nodes, the credential editor |
| Authentication, SSO, OAuth state | token rows, one-shot nonces and states | issue, rotate, consume | database, Redis |
| Binary store, expressions, code sandbox | blobs, none, a child process | pure or one row at a time | nodes |

What is hard in it:

* **Engine.** Readiness is kept edge by edge; several connections between the
  same two nodes, disabled, pinned and continue-on-fail nodes, and a failure in
  the middle of the run meet in one loop.
* **Dispatch.** Celery delivers at least once, Redis may fail, workers die, the
  rows are written by read-then-insert, the payload file outside the
  transaction.
* **Leader lock.** Belief (`_held`) and fact (the key) live in different
  processes; GET and what follows it are not atomic.
* **Triggers.** Two tables, an in-memory route table and a scheduler must say
  the same, across awaits, failing activations, collisions and restarts.
* **Nested runs.** A workflow calls another one or itself inside a node; each run
  has static data of its own, and a child that fails still returns.
* **Integration nodes.** A form, a request builder, an `execute()` and a
  credential type are written apart, 84 times, and nothing holds them together;
  the stored parameters outlive the operation they were filled in for; a run
  that fails half-way has already sent something.

Some of the code modelled here is written for a deployment the API does not yet
wire: `server/app.py` constructs `InlineExecutionQueue`, `InMemoryScheduler` and
`InMemoryLeaderLock`. The Celery queue, the Redis guard and the Redis lock are
modelled as their modules define them.

`PROJECT.json` lists every component with what is modelled of it, and under
`hazards` each hazard at its line with the properties aimed at it.

## 2. Modules

| Module | Models |
| --- | --- |
| `WorkflowGraph` | operators: nodes, connections, parents, children, roots, acyclicity, well-formedness |
| `TopologicalSort` | the constructor of `WorkflowGraph`, one action per phase and per visited node |
| `WorkflowExecutor` | `run()`: prologue, the five ways a node's turn can end, epilogue |
| `DagRun` | the abstract run: what a reader of the docs would expect of an execution |
| `ExecutionDispatch` | enqueue, delivery, claim, load, run, the four steps of `save` + commit, release, acknowledgement, faults |
| `LeaderLock` | `RedisLeaderLock`, one action per Redis command and per failing command, time in ticks |
| `TriggerActivation` | PUT, DELETE, activate, deactivate, restart; one action per statement of the manager |
| `WorkflowRuns` | runs that call each other, and what their nodes do to static data |
| `ItemNodes` | merge, switch, compare_datasets: one action per iteration of their loops |
| `FieldNodes` | set, transform, rename_keys on dotted paths (`nodes/utils/paths.py`), one action per entry, removal or mapping |
| `TextSplitter` | `_merge` and `_seed_with_overlap`, one action per piece |
| `DataNodes` | the three together, one node running |
| `NodeTables` | constructors for the declarations of nodes and credential types |
| `NodesCommerce`, `NodesMessaging`, `NodesMarketing`, `NodesCrm`, `NodesProject`, `NodesDeveloper`, `NodesStorage`, `NodesModels` | for each node its form (`XForm`), its request builders (`XRequest`) and how it calls its service (`XCall`) |
| `CredentialTypes` | for each type its fields, the required ones, what `inject()` and `test()` use |
| `IntegrationNode` | the life of one such node: edited, given a credential, tested, run over items |
| `*Proofs` | the proofs |
| `MC*` | instances for TLC |

`WorkflowExecutor` and `TopologicalSort` share `WorkflowGraph`. The executor
takes the constructor's verdict as `WellFormed` and its roots in declaration
order, as `TopologicalSort` shows (`VerdictIsRight`, `BuildAdjacency`).
`ExecutionDispatch` takes one run of the engine as one step; `WorkflowRuns` takes
the order in which a run executes its nodes from `WorkflowExecutor` and looks at
what happens between runs. `IntegrationNode` is parameterised by the tables, and
`MCIntegrationNode` puts all of them together.

### Abstractions

* **Items.** An output is the set of indices that carry at least one item; an
  input bucket is how often each connection was extended into it. That is all
  readiness, propagation and the disabled pass-through look at.
* **Nodes.** `execute()` may return items on any set of outputs or raise.
* **Runs.** In `ExecutionDispatch` the times and the run data of a run are its
  number, so a row says whose they are; the status is a column of its own, because
  two runs may end alike. SQLAlchemy's UPDATE writes only the columns that differ
  from the ones `session.get` loaded (`FlushMeta`, `FlushData`), so a row may come
  to hold columns of two runs. The other columns are the same for every run of an
  execution.
* **Claims.** A key whose task is over is `"stale"`; Redis cannot tell, but the
  TTL assumption can: with `TtlOutlivesTask` only such keys expire. `claims` turns
  `"doubtful"` for good when a Redis call fails or a key expires under its task.
* **Overlaps.** Nothing keeps two requests for one workflow apart, and the model
  does not either. `overlapped` records the workflows that were activated or
  deactivated while a request for them ran, since the process started; it guards
  no step.
* **Routes.** Path and method are one key. A trigger node is a webhook, one with
  a method outside `SUPPORTED_METHODS`, a schedule, or one that does not
  validate.
* **Transactions** are READ COMMITTED; a statement that would touch a row or
  unique key of an open transaction waits, and an INSERT that waits may be given
  up (a lock timeout, SQLite's busy error).
* **Parameters** are given or empty. A given one may still be refused, as a value
  that does not convert or an expression that resolves to nothing for this item
  (`RefuseValue`). A second condition in `display_options` (a price shown for a
  limit order only; alpaca, binance, coinbase, reddit) is left out, and the field
  counts as shown for its operation. The operation of a node is the same for all items of a run. A
  builder asks for parameters (`must`), reads others (`may`), and may have clauses
  of which one parameter is needed; where the clause hangs on a value (a limit
  order needs a price), the builder has several cases and may refuse or build.
* **Answers** are 2xx, 2xx with a body that reports a failure, 3xx, 4xx/5xx, or
  none. Some operations want the body to confirm the success (`Confirmed`: the
  ingestion of mixpanel, the upload session of onedrive, which is also where empty
  content is refused). Encodings, addresses and bodies are left out. A request is a
  call of the HTTP client; that `httpx.DigestAuth` (mongodb_atlas) repeats a
  challenged GET is inside the client.
* **What a form shows** is what `spec()` declares with `display_options`. The web
  editor does not read them (`frontend/src/components/NodeParameterForm.vue`
  draws every parameter), nor does the server; so the model lets any declared
  parameter be stored together with any operation.
* **Static data.** Sessions, namespaces and node ids are abstracted to one of
  each, since no operation relates two keys. A node applies its operation item
  by item; one operation stands for one item. A node that fails after some items
  has changed the data of a run that either goes on (`continue_on_fail`, then it
  is the same state as success) or is dropped.
* **Items of the data nodes** are a key and a value. The input of a loop is chosen as
  the loop reads it, so that every state is judged as if the input ended there. The
  relation between values a switch uses is a parameter (in the run a number matches
  its text). A payload is the set of its leaves, each at a path; paths may lead
  through one another, a write through a scalar replaces it by a dict, a deletion
  may leave an empty dict, an empty segment raises. A list is a leaf: no path leads
  into one. A text is the list of the lengths of its pieces; the windows
  `_hard_slice` makes are pieces too, and that they share characters with each other
  is not seen.
* **Celery, Redis and the database** are modelled from how the code uses them and
  are marked external in the map. A lost Celery worker's message is delivered
  again; when only its pool process dies Celery acknowledges the message
  (`PoolLoss`), because the app does not set `task_reject_on_worker_lost`.

Each model follows the control flow of its source statement by statement; the
`map` of `PROJECT.json` gives the lines. Definitions commented `Mutant:` are
deliberate bugs that no specification uses; each shows that one property can
fail.

## 3. Runs

| Run | Question | Bounds |
| --- | --- | --- |
| `executor` | does every run end, with every node run once, in order, on complete inputs, with a truthful status, as `DagRun` says? | all lists of up to 3 connections over 3 nodes, or 2 nodes and an unknown id; a diamond of 4 nodes, 5 connections and 2 outputs with every mix of flags |
| `topological_sort` | verdict, order, roots, offenders | the same small graphs, and 10 possible connections over 4 nodes |
| `dispatch` | does the claim do its work as long as Redis does; do the rows belong together when it does not; is every execution saved? | 2 workers, 1 execution (of a deleted workflow or not), either store, 2 duplicates, exceptions or lost workers in any mix, any Redis failure, early expiry |
| `leader` | at most one leader until a command fails; is leadership regained, does a split brain end? | 3 instances, TTL 3, refresh period 2, 3 failing commands |
| `triggers` | do tables, registry and scheduler agree about a workflow whose own requests did not overlap, is an activation or a teardown complete, is a route in service safe from others? | 2 workflows with up to 2 triggers (distinct routes, a schedule and an invalid one; or the same route, one route twice, an unsupported method), 2 requests in flight, for one workflow or two, 5 edits, requests and restarts |
| `integration_nodes` | do form, builder, node and credential type agree; do requests follow the items; does a run end? | all 84 nodes, 3 edits, 0 or 2 items, up to 2 chunks |
| `workflow_runs` | do the memories, the summary and the vector list keep what they should in nested runs; does every run end? | 4 workflows of 2 to 4 nodes in 2 projects, 3 runs deep, windows 1 and 2, 2 ids, vectors of 2 dimensions |
| `data_nodes` | do the data nodes compute what they should? | 2 inputs of up to 3 items, 3 keys and 2 values; up to 2 cases over 4 values and 3 ports, one of them unknown; up to 3 entries, removals or mappings over 5 paths, a malformed one and a blank, on 4 payloads; up to 7 pieces of length 1 to 4, every overlap |

The bounds are the smallest in which the cases meet: two workers and two
duplicates so that one can save between the two reads of the other and a third
message still arrives after both; a diamond so that a join has two parents that finish at different times and two connections from one of them;
two requests so that teardown and registration, of different workflows and of the
same one, interleave at every statement, and five events so that something was
activated before and a restart or a third request can follow. Three edits are two operations filled in one after
the other and a field cleared, or a credential attached, tested and attached
again; two items are one that succeeds before one that fails. Three runs deep a
workflow calls itself through another. What is bounded is proved without the bound in
section 5 wherever that was possible.

`CHECK_DEADLOCK FALSE` is set where the system comes to rest: a run that has
ended, a queue that is empty, no faults left.

### Disagreements

Each of these runs checks one statement of a document or comment, and TLC finds
an execution of the code that contradicts it (`findings` quotes the lines).

* `dispatch_worker_lost`: a lost worker's claim outlives it, and the redelivered
  task is skipped. At-least-once delivery is at-most-once execution.
* `triggers_bad_method`: the row of a webhook with an unsupported method cannot
  be removed, and the API does not start again.
* `triggers_overlapping`: a deactivation that listed the rows before an activation
  of the same workflow committed deletes the new row and leaves its route in the
  registry. `webhooks/registry.py:9` promises a consistent table. (The same property
  also fails without overlap, when two workflows want one route: see the last item
  below.)
* `static_data`: what the nodes leave in static data is dropped with the run.

Others were met while modelling and have no run of their own. They are behaviours
of the models, and the properties are stated so that none of them takes the code's
side: each says nothing about the case where text and code disagree.

* `triggers/leader.py:5` promises "at-most-one semantics"; an instance whose
  refreshes fail goes on believing it leads after the key has expired
  (`RefreshGetFails`). `NoSplitBrain` is checked until a command fails,
  `SplitBrainHeals` afterwards.
* `domain/workflow.py:151` says `active` is "True when triggers/webhooks are
  live"; PUT stores the flag of its body and leaves the triggers as they are.
* `db/repositories/execution_repo.py` writes the two tables "together", but after a
  Redis failure or an early expiry two workers may save at once, and since an UPDATE
  leaves out columns that are as they were loaded, the row may keep the status of
  one run beside the times of another. `RowsAgree` asks for the status while the
  claims are sound.
* `domain/workflow.py:73` says of a disabled node "no run-data emitted"; the executor
  records a run of it with status "disabled" (`engine/executor.py:198`, `:323`).
  `OutcomeIsTruthful` asks for records of the other nodes only.
* `nodes/core/merge_node/node.py:8` says combine_by_key is like a SQL inner join; items
  that lack the key have the key None and join each other. `JoinsMatchTheKeys` is about
  items that have the key.
* `nodes/core/compare_datasets/node.py:4-7` routes "items" by where their key exists; of
  several items of one input with the same key only the last is routed and the others
  appear on no port. `RoutingIsExact` says which keys appear on which port, and speaks
  of single items only where a key occurs once in each input.
* transform in mode "replace" is to emit only the computed fields; with no named
  entry it returns the whole item (`nodes/core/transform_node/node.py:94`).
  `FieldsGetTheirValues` says nothing of this case.
* `nodes/core/transform_node/node.py:118` pairs the names of the named entries
  with the values of all entries: an entry without a name in front shifts the
  values. `FieldsGetTheirValues` asks for the right values where blank entries
  come last.
* `nodes/ai/text_splitter/splitter.py:12`, `:35` and `:142` bound every chunk by
  `chunk_size`, and the overlap is "up to `chunk_overlap` chars"; the code repeats at
  least the last piece of a chunk, however long, and the next chunk may be too long.
  `ChunksCoverTheText` asks for both bounds where every piece fits into the overlap
  and leaves room for it, and always without overlap.
* `domain/node_spec.py:74` says a default is "Value used if the user didn't set
  one", line 75 that `required` is "Enforced by the server on save"; the server
  does neither, and the editor displays a default without storing it.
* `engine/subworkflow.py:113` returns the items of the nodes with no outgoing
  connection "on the `main` port", so a node whose connections all leave from
  other ports (if, switch, split_in_batches) counts as terminal although its items
  have gone on.
* `domain/workflow.py:146` has duplicate edges be "a validation error caught in
  `engine.graph`"; the graph accepts them. `VerdictIsRight` says why a workflow is
  refused only for workflows without duplicates; parallel connections between
  different ports are none.
* `engine/hooks.py:57` says `on_node_end` is invoked "after a node returns
  (success, disabled, or continue-on-fail error)"; `run()` also calls it for the
  node whose exception fails the run (`NodeFailsRun`). `HooksBracketTheRun` leaves
  open whether it is called there.
* `worker/idempotency.py:4` has the guard keep an execution "from persisting
  twice"; a duplicate that is delivered after the release runs and saves again
  (`Release`, then `ClaimWon`). `LaterRunsWin` is what remains true.
* `db/entities/webhook.py:4` says a taken route is "rejected at the registry layer
  before hitting the database constraint"; it is met as a database error first
  (`RegisterCollides`), and the routes registered before it leak.

## 4. Fairness

* `WorkflowExecutor`: weak fairness of the whole run. It is one coroutine; it is
  assumed that a node's `execute()` ends. The executor itself imposes no timeout.
* `ExecutionDispatch`: weak fairness of a worker's own steps, and of the delivery
  of each execution's messages. Duplicates, exceptions, lost workers and expiry
  are never forced.
* `LeaderLock`: time passes (strong fairness of `Tick`, which unfinished calls
  disable again and again), a live instance goes on calling `refresh()`, and
  calls that were begun are finished. `Timely` is the assumption that the
  background task keeps its period (10 s of a TTL of 30 s,
  `triggers/constants.py`); without it no lock with an expiry can be exclusive.
* `IntegrationNode`: weak fairness of the steps of a run. Every HTTP client of the
  nodes is created with a timeout, so a call is answered or fails; nothing makes
  a user edit, test or start anything.
* `WorkflowRuns`: weak fairness of the steps of the runs in progress; a node is
  assumed to end, as for the executor, and the interpreter's recursion limit
  (`MaxDepth`) turns a call too deep into an exception of the calling node.
* `TriggerActivation` and `DataNodes` state no liveness.

## 5. Proofs

All theorems hold for every value of the constants that satisfies the module's
`ASSUME`: any workflow, any number of workers, executions, instances and faults.

**Executor** (`WorkflowExecutorProofs`). `ParentsFirst` and `InputsComplete` are
not inductive: they say nothing of `pending` or of a node not yet queued. The
invariant `IInv` adds that `pending[n]` is exactly the parents that have not
completed, that the nodes queued or started are exactly those with none
(`ReadinessInv`), that a connection has delivered once if its source completed
and else not at all (`DeliveryInv`), that the failed node is the one with a fatal
record (`RecordInv`), and how the phases relate (`ControlInv`). The theorem
`OutcomeAlwaysTruthful` needs more: when the queue is empty and nothing failed,
the nodes not completed each have a parent not completed, and in an acyclic graph
only the empty set is like that. `Refinement` maps the completed
nodes, the failed node and the status to `DagRun`.

`HooksAlwaysBracket` needs how the last call of a hook relates to the phase of the
run (`HookInv`): the next call then fits the last one, and the calls before it stay
as they are.

**Topological sort** (`TopologicalSortProofs`). The loop invariant: the indegree
of a node is the number of its parents not yet in the order, and the queue holds
the nodes outside it with indegree zero. At the end the nodes with a positive
indegree are then the largest set in which everyone has a parent, which gives the
verdict and the offenders.

**Dispatch** (`ExecutionDispatchProofs`). All theorems hold for every value of the
constants, so whether Redis may fail or not. That both rows exist or none, that the
times and the data are of one run and that a row has its payload follows from an
invariant about who has already written what. `OneRunnerPerExecution`,
`ClaimsAreBacked`, `LaterRunsWin` and the status in `RowsAgree` speak of the time
until `claims` turns doubtful. For it the invariant says that whoever is in the task
body owns the key, that whoever saves has made the latest run, and that the status it
has loaded is still the one in the row: without the last an UPDATE that leaves the
status out would not be known to leave the right one.

**Leader lock** (`LeaderLockProofs`). `OneLeader` assumes timely refreshes and
concludes `NoSplitBrain`: at most one leader until a command fails. The
invariant: a believer, and an instance about to prolong or
to delete the key, owns it; and the remaining TTL plus the age of the leader's
last call is at least the whole TTL.

**Integration nodes** (`IntegrationNodeProofs`). `TypeCorrect` and
`RequestsAlwaysFollowItems` hold for every table, so also for a node that is added
tomorrow. `RequestsFollowItems` does not say where a run is within an item; the
invariant `IInv` adds that nothing is sent or returned before the loop
(`BeforeCalls`), and that in the loop chunks are left only of an unfinished item of
a chunked operation, with no request beyond the current item (`InProgress`).
`CompleteFormIsAlwaysAccepted`, `TestedCredentialIsAlwaysAccepted` and
`HiddenFieldsNeverHaveEffect` take the history out of the question: if the
declarations of a node agree, operation by operation and type by type
(`AgreementAssumption`, which says nothing of edits, tests or runs), then no
sequence of edits, changed operations, cleared fields, exchanged and tested
credentials leads to a run that fails for a missing parameter although its form is
filled in, refuses a tested credential, or sends a hidden field. TLC evaluates the
assumption on the tables of all 84 nodes and 87 types, so the results hold of these
nodes for any number of edits and items. The invariant `Reasons` says that a
failed run has the reason it gives in what is stored, that what it used unseen is
unseen now, and that a credential that has passed has the fields its test looks at.

**Triggers** (`TriggerActivationProofs`). `LiveStateFollowsRows`,
`TeardownAlwaysCompletes`, `ActivationAlwaysCompletes` and
`ServedRoutesAreAlwaysKept` assume nothing of how requests interleave. Each property
says in its own words for which workflow it holds: one whose requests have not
overlapped since the process started, however much those of other workflows did.
That is what makes them hard: the invariant has to follow an orderly workflow through
the disorder of the others. The four properties
speak of moments when no request for the workflow is in flight or of single commits,
and none is inductive. The invariant `IInv` follows each request through its statements: what a
teardown has listed and deleted is exactly what there is of its workflow
(`RowsInv`), the loop over the trigger nodes has begun everything it is past
(`LoopInv`, `PastInv`), each of these for a workflow that has not overlapped; a row
is wanted by some version of its workflow
(`WantedInv`), keys are unique with the uncommitted rows counted (`KeysInv`), and,
as long as routes are distinct, what is in service is all rows, committed or not,
but those a teardown is past (`LiveInv`). `TypeAndKeys` is about all workflows: however
requests interleave, the unique constraint is never broken.

**Runs and static data** (`WorkflowRunsProofs`). `HistoryIsAlwaysTheLatest`,
`NothingEverEscapesTheSummary` and `VectorStoreIsAlwaysAMap` hold for every set of workflows
that call each other to any depth, any windows, caps, ids, vectors and integer score (the
proof uses only that scores are totally ordered; the run takes the dot product). The invariant
states each property place by place: the history agrees with the end of what was
said (`Recent`), the tail continues what was handed out, and the records have ids of
their own, which are those of the map (`Represents`: without distinct ids the first
record found would not be the only one, and an upsert or a delete would leave a
stale one behind). It also says that the rows never change, which is why every run
begins empty. `WindowKeepsTheEnd`, `CutLosesNothing`, `UpsertRepresents` and
`DeleteRepresents` are the facts about the stores' own operations. That a query
finds the nearest rests on the ranks: a record's rank is one more than the number of
records before it, so distinct records have distinct ranks, the ranks are exactly
the places of the result (`RanksAreThePlaces`, by counting), and a record at a lower
place comes before one at a higher place (`RankedIsSorted`).

**Data nodes** (`DataNodesProofs`). `MergeIsAJoin`, `RoutingIsAlwaysExact`,
`FieldsAlwaysGetTheirValues` and `ChunksAlwaysCoverTheText` hold for any keys,
payloads, cases, relation between values, fields, `chunk_size` and overlap, and inputs
of any length. Since the loops read their input item by item, what they compute
for every input is an invariant and needs no induction over data. merge: the index
lists the places of each key in increasing order (`MergeInv`; without the order the
result would be right as a set only). switch: the first matching case exists and is
the one found (`TargetIs`). compare_datasets: a dict built from the items has each key
once and holds its last item (`DictOf`), and the ports hold the keys already looked
at; where a key occurs once the last item is the only one (`OnlyIsLast`). set: after
each assignment the payload is exactly the leaves no later path overlaps, which one
more entry turns into the leaves for one entry more (`PlacedGrows`), and a removal
takes away values below its path and no others (`SetInv`). transform: how many names
were read is how many entries, as long as none is blank, so that the names stay
beside their own values (`CountInv`, `TransformInv`). rename_keys: every leaf can be
traced to a place of the original or below the target of a mapping read before, so
that a move to a new place overwrites nothing (`Traced`, `MappingMoves`,
`RenameInv`). text_splitter: the current chunk may follow the last one closed, and the
length the code keeps is its length (`TextInv`; without that conjunct nothing bounds
a chunk).

**Only model-checked:**

* `Terminates`, `EveryExecutionIsSaved`, `LeadershipIsRegained`, `SplitBrainHeals`,
  `RunEnds`, `RunsEnd`: liveness under fairness is out of the prover's reach.

Every other property of a passing run is stated by a theorem.

## 6. Not modelled

* The expression language, the code sandbox, the guards and the string-handling
  core nodes: pure functions of text, or operating-system limits.
* Encodings, addresses, bodies and answers of the integration nodes; the remote
  vector stores and the language-model agents; external secret providers and the
  encryption of credentials.
* Configuration, logging, metrics, database mappers and migrations: declarations.
* Sessions, single sign-on and OAuth state: library calls around one-row
  transactions; the two places where a request reads before it writes are a few
  statements of one handler.
* Webhook ingress and polling; the read path of the execution store; the schedule
  callback.
* The web client beyond the edits of a node.

Retry policies and timeouts of nodes and workflows are fields that the executor
does not read.

## 7. Plan

1. Tables for the remote vector stores (chroma, pinecone, qdrant, pgvector), which
   have the skeleton of the integration nodes; the tool loop of `agent_react`.
2. The execution store's read path, a change of backend, and which run a file
   belongs to after a failed second run.
3. Schedules firing in several API processes: the callback, the in-memory lock
   against the Redis one, webhook ingress against a deactivation.
4. Lost updates of the workflow row between activation and PUT.
