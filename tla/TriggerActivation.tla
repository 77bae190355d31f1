------------------------- MODULE TriggerActivation -------------------------
(***************************************************************************)
(* Activating and deactivating the triggers of a workflow: the endpoints   *)
(* of server/routers/workflows.py, the ActiveTriggerManager they call      *)
(* (triggers/manager.py), the in-process webhook table                     *)
(* (webhooks/registry.py) and the scheduler's jobs, kept beside the rows   *)
(* of the webhooks and trigger_schedules tables.                           *)
(*                                                                         *)
(* One API process serves several requests; they interleave at every       *)
(* await, that is between database statements.  A statement sees what is   *)
(* committed and what its own transaction did (READ COMMITTED).  Methods   *)
(* are folded into the path: a key is what must be unique.                 *)
(***************************************************************************)
EXTENDS Naturals, Sequences, FiniteSets, SequencesExt

CONSTANTS
  Workflow,      \* workflow ids
  Request,       \* places for requests in flight
  Situations,    \* what users may want: each maps a workflow to the trigger
                 \* lists it may be given
  MaxEvents      \* bound: edits, requests and crashes of the API process

ASSUME ConstantsAssumption == MaxEvents \in Nat
ASSUME SituationsAssumption ==
  \A s \in Situations : \A w \in Workflow : \A d \in s[w] : d \in Seq(ToSet(d))

VARIABLES
  offered,       \* the situation this is
  definition,    \* definition[w]: the trigger nodes of the stored workflow
  active,        \* the stored flag
  present,       \* the workflows not deleted
  rows,          \* committed rows of webhooks and trigger_schedules
  registry,      \* the entries of WebhookRegistry
  jobs,          \* the job ids of the scheduler
  req,           \* req[r]: the state of a request's coroutine
  txn,           \* txn[r]: the manager's session in that request
  overlapped,    \* the workflows that, since the process started, have been
                 \* activated or deactivated while a request for them ran
  up,            \* the last start of the API process came through warm_up
  events         \* how many edits, requests and crashes there have been

stored == <<offered, definition, active, present>>
process == <<overlapped, up, events>>
vars == <<stored, rows, registry, jobs, req, txn, process>>

Idle == [pc |-> "idle"]
NoTxn == [inserted |-> {}, deleted |-> {}, broken |-> FALSE]

WebhookRows(R) == {x \in R : x.kind = "webhook"}
JobId(x) == <<x.workflow, x.node>>
Jobs(R) == {JobId(x) : x \in {y \in R : y.kind = "schedule"}}

\* What a statement of request r sees.
Visible(r) == (rows \ txn[r].deleted) \cup txn[r].inserted
Pending == UNION {txn[r].inserted : r \in Request}

Init ==
  /\ offered \in Situations
  /\ definition \in [Workflow -> UNION {offered[w] : w \in Workflow}]
  /\ \A w \in Workflow : definition[w] \in offered[w]
  /\ active = [w \in Workflow |-> FALSE] /\ present = Workflow
  /\ rows = {} /\ registry = {} /\ jobs = {}
  /\ req = [r \in Request |-> Idle] /\ txn = [r \in Request |-> NoTxn]
  /\ overlapped = {} /\ up = TRUE /\ events = 0

\* Something comes from outside.
Happens == events < MaxEvents /\ events' = events + 1

Busy(w) == \E r \in Request : req[r].pc # "idle" /\ req[r].workflow = w

-----------------------------------------------------------------------------
(* The endpoints that do not touch the triggers.                            *)

\* update_workflow: the definition and the flag are replaced.
PutWorkflow(w) ==
  /\ up /\ w \in present /\ Happens
  /\ \E d \in offered[w], flag \in BOOLEAN :
       /\ definition' = [definition EXCEPT ![w] = d]
       /\ active' = [active EXCEPT ![w] = flag]
  /\ UNCHANGED <<offered, present, rows, registry, jobs, req, txn, overlapped, up>>

\* delete_workflow: only the row of the workflow goes.
DeleteWorkflow(w) ==
  /\ up /\ w \in present /\ Happens
  /\ present' = present \ {w}
  /\ UNCHANGED <<offered, definition, active, rows, registry, jobs, req, txn, overlapped, up>>

\* activate_workflow and deactivate_workflow read the workflow; both begin
\* with manager.deactivate.  Nothing keeps a second request for the same
\* workflow out.
Receive(r) ==
  /\ up /\ req[r].pc = "idle" /\ Happens
  /\ \E w \in present, op \in {"activate", "deactivate"} :
       /\ overlapped' = overlapped \cup {v \in {w} : Busy(v)}
       /\ req' = [req EXCEPT ![r] =
            [pc |-> "list", workflow |-> w, op |-> op, read |-> definition[w],
             kind |-> "webhook", listed |-> {}, todo |-> <<>>, errors |-> FALSE,
             next |-> IF op = "activate" THEN "register" ELSE "flag"]]
  /\ UNCHANGED <<stored, rows, registry, jobs, txn, up>>

-----------------------------------------------------------------------------
(* ActiveTriggerManager.deactivate: list, unregister, delete; the webhooks  *)
(* first, then the schedules; commit.                                       *)

\* list_for_workflow
ListRows(r) ==
  /\ req[r].pc = "list"
  /\ req' = [req EXCEPT
       ![r].listed = {x \in Visible(r) : /\ x.workflow = req[r].workflow
                                         /\ x.kind = req[r].kind},
       ![r].pc = "drop"]
  /\ UNCHANGED <<stored, rows, registry, jobs, txn, process>>

\* WebhookRegistry.unregister goes by the key, whoever's entry it is.
Unregistered(X) == {e \in registry : \A x \in WebhookRows(X) : x.key # e.key}

\* No row has a method outside SUPPORTED_METHODS.
Supported(X) == \A x \in X : x.supported

\* What was listed is taken out of the registry or the scheduler.
DropLive(r) ==
  /\ req[r].pc = "drop" /\ Supported(req[r].listed)
  /\ registry' = Unregistered(req[r].listed)
  /\ jobs' = jobs \ Jobs(req[r].listed)
  /\ req' = [req EXCEPT ![r].pc = "delete"]
  /\ UNCHANGED <<stored, rows, txn, process>>

\* unregister() raises at the first unsupported row, wherever it stands in the
\* list; so does the endpoint: 500, and nothing is deleted.
DropLiveRaises(r) ==
  /\ req[r].pc = "drop" /\ ~Supported(req[r].listed)
  /\ \E X \in SUBSET {x \in req[r].listed : x.supported} :
       registry' = Unregistered(X)
  /\ req' = [req EXCEPT ![r] = Idle] /\ txn' = [txn EXCEPT ![r] = NoTxn]
  /\ UNCHANGED <<stored, rows, jobs, process>>

\* Mutant: deactivate forgets the schedules.
DeleteRowsWebhooksOnly(r) ==
  LET doomed == {x \in Visible(r) : /\ x.workflow = req[r].workflow
                                    /\ x.kind = req[r].kind}
  IN /\ req[r].pc = "delete"
     /\ \A q \in Request \ {r} : txn[q].deleted \cap doomed = {}
     /\ txn' = [txn EXCEPT ![r].deleted = @ \cup doomed]
     /\ req' = [req EXCEPT ![r].pc = "commit"]
     /\ UNCHANGED <<stored, rows, registry, jobs, process>>

\* delete_for_workflow: DELETE ... WHERE workflow_id, which waits for another
\* transaction that deletes the same rows.
DeleteRows(r) ==
  LET doomed == {x \in Visible(r) : /\ x.workflow = req[r].workflow
                                    /\ x.kind = req[r].kind}
  IN /\ req[r].pc = "delete"
     /\ \A q \in Request \ {r} : txn[q].deleted \cap doomed = {}
     /\ txn' = [txn EXCEPT ![r].deleted = @ \cup doomed]
     /\ req' = [req EXCEPT ![r].kind = "schedule",
                           ![r].pc = IF req[r].kind = "webhook" THEN "list"
                                                                ELSE "commit"]
     /\ UNCHANGED <<stored, rows, registry, jobs, process>>

\* Commit; the request goes on, or answers 400 after a failed activation.
CommitTeardown(r) ==
  /\ req[r].pc = "commit"
  /\ rows' = (rows \ txn[r].deleted) \cup txn[r].inserted
  /\ txn' = [txn EXCEPT ![r] = NoTxn]
  /\ req' = [req EXCEPT ![r] =
       IF req[r].next = "reject" THEN Idle
       ELSE [req[r] EXCEPT !.pc = req[r].next, !.todo = req[r].read]]
  /\ UNCHANGED <<stored, registry, jobs, process>>

-----------------------------------------------------------------------------
(* ActiveTriggerManager.activate: one trigger node after the other, an      *)
(* exception is noted and the loop goes on; commit.                         *)

\* The next trigger is done with; failed says whether it raised.
Advance(r, failed) ==
  req' = [req EXCEPT ![r].todo = Tail(@), ![r].errors = @ \/ failed]

\* The trigger node at the head of the loop.
Current(r) == Head(req[r].todo)
Registering(r, kinds) ==
  req[r].pc = "register" /\ req[r].todo # <<>> /\ Current(r).kind \in kinds

\* A webhook trigger, with a method in SUPPORTED_METHODS or not.
Webhooks == {"webhook", "unsupported"}

\* A webhook row with this key exists, or is being written or deleted by a
\* transaction that has not ended.
KeyTaken(r, t) == \E x \in WebhookRows(Visible(r)) : x.key = t.key
KeyLocked(r, t) ==
  \E q \in Request \ {r} :
    \E x \in WebhookRows(txn[q].inserted \cup txn[q].deleted) : x.key = t.key

\* The schedule's parameters do not validate, before the session is used.
\* Or an earlier flush of this session failed: it refuses every further one.
RegisterRefused(r) ==
  /\ \/ Registering(r, {"invalid"})
     \/ Registering(r, Webhooks \cup {"schedule"}) /\ txn[r].broken
  /\ Advance(r, TRUE)
  /\ UNCHANGED <<stored, rows, registry, jobs, txn, process>>

\* Mutant: the entry in the way of a taken route is unregistered as a clean-up.
RegisterCollidesEvicting(r) ==
  /\ Registering(r, Webhooks) /\ ~txn[r].broken
  /\ KeyTaken(r, Current(r))
  /\ txn' = [txn EXCEPT ![r] = [NoTxn EXCEPT !.broken = TRUE]]
  /\ registry' = {e \in registry : e.key # Current(r).key}
  /\ Advance(r, TRUE)
  /\ UNCHANGED <<stored, rows, jobs, process>>

\* The INSERT violates uq_webhooks_path_method, or is given up while it waits
\* for another transaction: the session's transaction is rolled back.
RegisterCollides(r) ==
  /\ Registering(r, Webhooks) /\ ~txn[r].broken
  /\ KeyTaken(r, Current(r)) \/ KeyLocked(r, Current(r))
  /\ txn' = [txn EXCEPT ![r] = [NoTxn EXCEPT !.broken = TRUE]]
  /\ Advance(r, TRUE)
  /\ UNCHANGED <<stored, rows, registry, jobs, process>>

\* new_webhook_id(): an id nobody uses.
FreshId ==
  CHOOSE n \in 1 .. Cardinality(rows \cup registry \cup Pending) + 1 :
    \A x \in rows \cup registry \cup Pending : x.id # n

NewRow(r) ==
  [id |-> FreshId, workflow |-> req[r].workflow, node |-> Current(r).node,
   kind |-> IF Current(r).kind = "schedule" THEN "schedule" ELSE "webhook",
   key |-> Current(r).key, supported |-> Current(r).kind # "unsupported"]

\* register() raises UnsupportedMethodError or WebhookConflictError.
Refuses(x) == ~x.supported \/ \E e \in registry : e.key = x.key

Registered(x) == IF Refuses(x) THEN registry ELSE registry \cup {x}

\* _register_webhook: flush the row, then register; when the latter raises
\* the row stays in the transaction.
RegisterWebhook(r) ==
  /\ Registering(r, Webhooks) /\ ~txn[r].broken
  /\ ~KeyTaken(r, Current(r)) /\ ~KeyLocked(r, Current(r))
  /\ txn' = [txn EXCEPT ![r].inserted = @ \cup {NewRow(r)}]
  /\ registry' = Registered(NewRow(r))
  /\ Advance(r, Refuses(NewRow(r)))
  /\ UNCHANGED <<stored, rows, jobs, process>>

\* _register_schedule: validate, flush the row, add the job.
RegisterSchedule(r) ==
  /\ Registering(r, {"schedule"}) /\ ~txn[r].broken
  /\ txn' = [txn EXCEPT ![r].inserted = @ \cup {NewRow(r)}]
  /\ jobs' = jobs \cup {JobId(NewRow(r))}
  /\ Advance(r, FALSE)
  /\ UNCHANGED <<stored, rows, registry, process>>

\* The commit of a session whose flush failed raises, and so does the
\* endpoint: 500, with nothing cleaned up.
CommitRaises(r) ==
  /\ req[r].pc = "register" /\ req[r].todo = <<>> /\ txn[r].broken
  /\ req' = [req EXCEPT ![r] = Idle]
  /\ txn' = [txn EXCEPT ![r] = NoTxn]
  /\ UNCHANGED <<stored, rows, registry, jobs, process>>

\* Mutant: the errors of the result are not looked at.
AfterActivateAlways(q) == [q EXCEPT !.pc = "flag"]

\* The endpoint: with errors, deactivate once more and answer 400.
AfterActivate(q) ==
  IF q.errors THEN [q EXCEPT !.pc = "list", !.kind = "webhook", !.next = "reject"]
              ELSE [q EXCEPT !.pc = "flag"]

CommitActivate(r) ==
  /\ req[r].pc = "register" /\ req[r].todo = <<>> /\ ~txn[r].broken
  /\ rows' = rows \cup txn[r].inserted
  /\ txn' = [txn EXCEPT ![r] = NoTxn]
  /\ req' = [req EXCEPT ![r] = AfterActivate(req[r])]
  /\ UNCHANGED <<stored, registry, jobs, process>>

\* repo.update with the workflow as it was read, then the request's commit.
SetFlag(r) ==
  LET w == req[r].workflow
  IN /\ req[r].pc = "flag" /\ w \in present
     /\ definition' = [definition EXCEPT ![w] = req[r].read]
     /\ active' = [active EXCEPT ![w] = req[r].op = "activate"]
     /\ req' = [req EXCEPT ![r] = Idle]
     /\ UNCHANGED <<offered, present, rows, registry, jobs, txn, process>>

\* repo.update raises LookupError: the workflow was deleted meanwhile.
SetFlagMissing(r) ==
  /\ req[r].pc = "flag" /\ req[r].workflow \notin present
  /\ req' = [req EXCEPT ![r] = Idle]
  /\ UNCHANGED <<stored, rows, registry, jobs, txn, process>>

-----------------------------------------------------------------------------
\* Mutant: only the webhooks are reloaded.
WarmJobsNone == {}

\* The schedule part of warm_up
WarmJobs == Jobs(rows)

\* The process dies; requests and open transactions are gone.  The next one
\* starts with warm_up, before it serves anything; load() raises at an
\* unsupported row, and then the process does not come up.
Restart ==
  /\ Happens /\ overlapped' = {}
  /\ req' = [r \in Request |-> Idle] /\ txn' = [r \in Request |-> NoTxn]
  /\ up' = Supported(rows)
  /\ registry' = IF up' THEN WebhookRows(rows) ELSE {}
  /\ jobs' = IF up' THEN WarmJobs ELSE {}
  /\ UNCHANGED <<stored, rows>>

Teardown(r) ==
  ListRows(r) \/ DropLive(r) \/ DropLiveRaises(r) \/ DeleteRows(r) \/ CommitTeardown(r)

Register(r) ==
  \/ RegisterRefused(r) \/ RegisterCollides(r) \/ RegisterWebhook(r)
  \/ RegisterSchedule(r) \/ CommitRaises(r) \/ CommitActivate(r)

Next ==
  \/ \E w \in Workflow : PutWorkflow(w) \/ DeleteWorkflow(w)
  \/ \E r \in Request : \/ Receive(r) \/ Teardown(r) \/ Register(r)
                        \/ SetFlag(r) \/ SetFlagMissing(r)
  \/ Restart

Spec == Init /\ [][Next]_vars

-----------------------------------------------------------------------------
(* Properties.                                                              *)

Quiet == \A r \in Request : req[r].pc = "idle"

\* Nothing of w can fire, now or after a restart.
Silent(w) ==
  /\ \A x \in rows \cup registry : x.workflow # w
  /\ \A j \in jobs : j[1] # w

\* No two workflows and no two trigger nodes of one version of a workflow want
\* the same route, and none has a method that WebhookRegistry does not take.
Wanted(w) == UNION {ToSet(d) : d \in offered[w]}
SameRoute(t1, t2) == t1.kind = "webhook" /\ t2.kind = "webhook" /\ t1.key = t2.key
RoutesAreDistinct ==
  /\ \A w \in Workflow : \A t \in Wanted(w) : t.kind # "unsupported"
  /\ \A w1, w2 \in Workflow : \A t1 \in Wanted(w1), t2 \in Wanted(w2) :
       SameRoute(t1, t2) => w1 = w2
  /\ \A w \in Workflow : \A d \in offered[w] : \A i, j \in DOMAIN d :
       SameRoute(d[i], d[j]) => i = j

\* Of(w, S): the rows or entries of w.
Of(w, S) == {x \in S : x.workflow = w}

\* What the process serves of a workflow is what the tables say, whenever no
\* request for it is in flight and its requests have come one after the other: a
\* crash between any two statements, an activation that is rolled back, a
\* definition changed since, or requests for other workflows, even overlapping
\* ones, leave neither an entry or a job without its row nor a row without its
\* entry or job.
LiveStateMatchesRows ==
  up /\ RoutesAreDistinct =>
    \A w \in Workflow \ overlapped : ~Busy(w) =>
      /\ Of(w, registry) = Of(w, WebhookRows(rows))
      /\ {j \in jobs : j[1] = w} = Jobs(Of(w, rows))

\* manager.deactivate leaves nothing of the workflow behind, in memory or in
\* the tables, unless its requests have overlapped: also where it undoes an
\* activation that failed half-way.
TeardownIsComplete ==
  [][\A r \in Request, w \in Workflow \ overlapped :
       CommitTeardown(r) /\ req[r].workflow = w /\ RoutesAreDistinct => Silent(w)']_vars

\* Nobody takes away what is registered for w: its own requests have not
\* overlapped, and those of others have not either, or want other routes.
Orderly(w) == w \notin overlapped /\ (RoutesAreDistinct \/ overlapped = {})

Live(r, t) ==
  \/ t.kind = "webhook" /\ \E x \in rows \cap registry :
       x.workflow = req[r].workflow /\ x.key = t.key
  \/ t.kind = "schedule" /\ <<req[r].workflow, t.node>> \in jobs \cap Jobs(rows)
\* An activation that goes on to be reported as a success has, when its rows are
\* committed, for every trigger node the request read the row, and the entry or
\* the job, also where the routes of workflows collide.
ActivationIsComplete ==
  [][\A r \in Request :
       CommitActivate(r) /\ req'[r].pc = "flag" /\ Orderly(req[r].workflow)
         => \A t \in ToSet(req[r].read) : Live(r, t)']_vars

\* A route that is in the tables is taken away only by a request for its own
\* workflow (or rebuilt by a restart), although unregister() asks for no owner:
\* an activation that collides with it fails without harming it.  It takes both
\* overlapping requests and workflows that want the same route to break this.
ServedRoutesAreKept ==
  [][\A e \in registry \cap rows :
       e \notin registry' /\ (RoutesAreDistinct \/ overlapped = {}) =>
         \/ Restart
         \/ \E r \in Request : /\ DropLive(r) \/ DropLiveRaises(r)
                               /\ req[r].workflow = e.workflow]_vars

\* webhooks/registry.py: register and unregister "keep the table consistent
\* when the trigger manager activates or deactivates a workflow", with
\* "consistency within one process": between requests, the table holds the
\* rows.
TableStaysConsistent == Quiet /\ up => registry = WebhookRows(rows)

\* webhooks/registry.py: warm-up on boot "replays every row in the webhooks
\* table", on every API instance; so whatever was activated before, a process
\* that is started again comes up.
WarmUpSucceeds == up
=============================================================================
