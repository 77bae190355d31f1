------------------------- MODULE ExecutionDispatch -------------------------
(***************************************************************************)
(* How a queued execution reaches the database: the API hands an           *)
(* ExecutionRequest to Celery (worker/queue.py), a worker process takes    *)
(* the message and runs execute_workflow (worker/tasks.py) behind a Redis  *)
(* claim (worker/idempotency.py); run_execution_async                      *)
(* (worker/execution.py) loads the workflow, runs the engine and saves the *)
(* result as two rows and a payload (db/repositories/execution_repo.py,    *)
(* db/execution_storage.py).                                               *)
(*                                                                         *)
(* A run of the engine is one step here (WorkflowExecutor models it).  Of  *)
(* what it produced, the timestamps and the run data differ from run to    *)
(* run and stand for the run itself; the status may be that of another     *)
(* run too.  The remaining columns come from the request and from the      *)
(* workflow, which is not edited here, and are the same in every run.  The *)
(* broker, the expiry of Redis keys and the loss of a worker are the       *)
(* environment's.                                                          *)
(***************************************************************************)
EXTENDS Naturals, Sequences

CONSTANTS
  Worker,            \* worker processes; the claim's owner is "worker:<pid>"
  Execution,         \* execution ids, new for every request
  RedisMayFail,      \* any call of Redis may raise
  TtlOutlivesTask,   \* the claim's hour is longer than the task time limit
  PoolLoss,          \* a pool process may die while its Celery worker lives
  MaxFaults          \* bound: duplicated messages, exceptions raised in the
                     \* task body and worker processes lost, together

ASSUME ConstantsAssumption ==
  /\ Execution # {}
  /\ RedisMayFail \in BOOLEAN
  /\ TtlOutlivesTask \in BOOLEAN /\ PoolLoss \in BOOLEAN
  /\ MaxFaults \in Nat
  /\ Worker \cap {"free", "stale"} = {}

VARIABLES
  queued,      \* the executions enqueued so far
  broker,      \* broker[e]: messages for e waiting for delivery
  claim,       \* the Redis key of e: its owner, "free", or "stale" when the
               \* task that set it is over
  pc,          \* where worker w is in execute_workflow
  task,        \* the execution whose message worker w holds unacknowledged
  attempt,     \* the run worker w is about to save
  sawMeta,     \* the status session.get loaded, "none" when it found no row
  sawData,     \* whether session.get found the execution_data row
  runs,        \* runs[e]: the statuses of the engine's runs of e, in order
  metaRow,     \* the run whose times the executions row holds, 0: no row
  status,      \* the row's status column, "none" without a row
  dataRow,     \* the run whose data the execution_data row holds (db store)
               \* or that inserted the row (fs store), 0 for no row
  file,        \* the run in the payload file (fs store), 0 for no file
  missing,     \* the executions whose workflow no longer exists
  store,       \* settings.execution_data_backend: "db" or "fs"
  claims,      \* "sound" until a Redis call fails or a key expires under a
               \* running task, then "doubtful": a claim may mean nothing
  duplicates, failures, crashes

network == <<queued, broker, duplicates>>
locals == <<pc, task, attempt, sawMeta, sawData>>
settings == <<missing, store>>
database == <<metaRow, status, dataRow, file, settings>>
faults == <<failures, crashes>>
redis == <<claim, claims>>
vars == <<network, redis, locals, runs, database, faults>>

\* Between winning the claim and having given it back.
TaskBody == {"load", "run", "readMeta", "write", "readData", "commit", "release"}
Saving == {"readMeta", "write", "readData", "commit"}
Running(w, e) == pc[w] \in TaskBody /\ task[w] = e
Status == {"success", "error"}

Init ==
  /\ queued = {} /\ broker = [e \in Execution |-> 0]
  /\ claim = [e \in Execution |-> "free"]
  /\ pc = [w \in Worker |-> "idle"]
  /\ task = [w \in Worker |-> CHOOSE e \in Execution : TRUE]  \* none yet
  /\ attempt = [w \in Worker |-> 0]
  /\ sawMeta = [w \in Worker |-> "none"] /\ sawData = [w \in Worker |-> FALSE]
  /\ runs = [e \in Execution |-> << >>]
  /\ metaRow = [e \in Execution |-> 0] /\ dataRow = [e \in Execution |-> 0]
  /\ status = [e \in Execution |-> "none"]
  /\ file = [e \in Execution |-> 0]
  /\ store \in {"db", "fs"} /\ missing \in SUBSET Execution
  /\ claims = "sound"
  /\ duplicates = 0 /\ failures = 0 /\ crashes = 0

FaultAllowed == duplicates + failures + crashes < MaxFaults

\* Worker w proceeds to l with nothing but its program counter changed.
Goto(w, l) == pc' = [pc EXCEPT ![w] = l]

-----------------------------------------------------------------------------
(* The queue.  The broker is outside the repository: a message is delivered *)
(* to an idle worker (prefetch 1, acknowledged late) and may arrive again.  *)

\* CeleryExecutionQueue.enqueue: every request has a fresh execution id.
Enqueue(e) ==
  /\ e \notin queued
  /\ queued' = queued \cup {e}
  /\ broker' = [broker EXCEPT ![e] = @ + 1]
  /\ UNCHANGED <<duplicates, redis, locals, runs, database, faults>>

Duplicate(e) ==
  /\ e \in queued /\ FaultAllowed
  /\ broker' = [broker EXCEPT ![e] = @ + 1]
  /\ duplicates' = duplicates + 1
  /\ UNCHANGED <<queued, redis, locals, runs, database, faults>>

Deliver(w, e) ==
  /\ pc[w] = "idle" /\ broker[e] > 0
  /\ broker' = [broker EXCEPT ![e] = @ - 1]
  /\ task' = [task EXCEPT ![w] = e]
  /\ Goto(w, "claim")
  /\ UNCHANGED <<queued, duplicates, redis, attempt, sawMeta, sawData, runs,
                 database, faults>>

-----------------------------------------------------------------------------
(* execute_workflow: claim, run, release.                                   *)

\* IdempotencyGuard.claim: SET NX succeeds iff there is no key.
WinsClaim(w) ==
  /\ pc[w] = "claim"
  /\ claim[task[w]] = "free"

ClaimWon(w) ==
  /\ WinsClaim(w)
  /\ claim' = [claim EXCEPT ![task[w]] = w]
  /\ Goto(w, "load")
  /\ UNCHANGED <<network, claims, task, attempt, sawMeta, sawData, runs, database, faults>>

\* Mutant: the claim is taken inside the try block, so that a worker that
\* lost it still runs the finally clause.
ClaimLostReleasing(w) ==
  /\ pc[w] = "claim" /\ claim[task[w]] # "free"
  /\ Goto(w, "release")
  /\ UNCHANGED <<network, redis, task, attempt, sawMeta, sawData, runs, database,
                 faults>>

\* The key exists: the task returns "skipped", and its message is
\* acknowledged like that of any task that returns.
ClaimLost(w) ==
  /\ pc[w] = "claim" /\ claim[task[w]] # "free"
  /\ Goto(w, "ack")
  /\ UNCHANGED <<network, redis, task, attempt, sawMeta, sawData, runs, database,
                 faults>>

\* Mutant: an unreachable Redis counts as a lost claim.
ClaimFailsClosed(w) ==
  /\ pc[w] = "claim" /\ RedisMayFail
  /\ claims' = "doubtful"
  /\ Goto(w, "ack")
  /\ UNCHANGED <<network, claim, task, attempt, sawMeta, sawData, runs, database,
                 faults>>

\* The call raises: claim() answers True.  A reply lost on the way back
\* leaves the key set.
ClaimUnavailable(w) ==
  /\ pc[w] = "claim" /\ RedisMayFail
  /\ claims' = "doubtful"
  /\ \/ claim' = claim
     \/ /\ claim[task[w]] = "free"
        /\ claim' = [claim EXCEPT ![task[w]] = w]
  /\ Goto(w, "load")
  /\ UNCHANGED <<network, task, attempt, sawMeta, sawData, runs, database, faults>>

\* run_execution_async: no such workflow, the task returns "missing_workflow".
WorkflowMissing(w) ==
  /\ pc[w] = "load" /\ task[w] \in missing
  /\ Goto(w, "release")
  /\ UNCHANGED <<network, redis, task, attempt, sawMeta, sawData, runs, database,
                 faults>>

WorkflowLoaded(w) ==
  /\ pc[w] = "load" /\ task[w] \notin missing
  /\ Goto(w, "run")
  /\ UNCHANGED <<network, redis, task, attempt, sawMeta, sawData, runs, database,
                 faults>>

\* Mutant: the claim is given back as soon as the engine is done, before the
\* result is saved.
RunWorkflowReleasing(w) ==
  /\ pc[w] = "run"
  /\ \E s \in Status : runs' = [runs EXCEPT ![task[w]] = Append(@, s)]
  /\ attempt' = [attempt EXCEPT ![w] = Len(runs[task[w]]) + 1]
  /\ claim' = [claim EXCEPT ![task[w]] = "free"]
  /\ Goto(w, "readMeta")
  /\ UNCHANGED <<network, claims, task, sawMeta, sawData, database, faults>>

\* executor.run: one more run of this execution id, which ends as it may.
RunWorkflow(w) ==
  /\ pc[w] = "run"
  /\ \E s \in Status : runs' = [runs EXCEPT ![task[w]] = Append(@, s)]
  /\ attempt' = [attempt EXCEPT ![w] = Len(runs[task[w]]) + 1]
  /\ Goto(w, "readMeta")
  /\ UNCHANGED <<network, redis, task, sawMeta, sawData, database, faults>>

-----------------------------------------------------------------------------
(* ExecutionRepository.save, then session.commit.  The session does not     *)
(* autoflush, so nothing reaches the database before the last step.         *)

ReadMeta(w) ==
  /\ pc[w] = "readMeta"
  /\ sawMeta' = [sawMeta EXCEPT ![w] = status[task[w]]]
  /\ Goto(w, "write")
  /\ UNCHANGED <<network, redis, task, attempt, sawData, runs, database, faults>>

\* Mutant: the temporary file is never renamed into place.
WritePayloadWithoutReplace(w) ==
  /\ pc[w] = "write"
  /\ Goto(w, "readData")
  /\ UNCHANGED <<network, redis, task, attempt, sawMeta, sawData, runs, database,
                 faults>>

\* data_store.write: nothing for the db store; the fs store replaces the
\* file, outside the transaction.
WritePayload(w) ==
  /\ pc[w] = "write"
  /\ file' = IF store = "fs" THEN [file EXCEPT ![task[w]] = attempt[w]] ELSE file
  /\ Goto(w, "readData")
  /\ UNCHANGED <<network, redis, task, attempt, sawMeta, sawData, runs, metaRow,
                 status, dataRow, settings, faults>>

ReadData(w) ==
  /\ pc[w] = "readData"
  /\ sawData' = [sawData EXCEPT ![w] = dataRow[task[w]] # 0]
  /\ Goto(w, "commit")
  /\ UNCHANGED <<network, redis, task, attempt, sawMeta, runs, database, faults>>

\* A row that session.get did not find is an INSERT; its primary key
\* collides when someone else has inserted the row since.
InsertCollides(w) ==
  \/ sawMeta[w] = "none" /\ metaRow[task[w]] # 0
  \/ ~sawData[w] /\ dataRow[task[w]] # 0

\* The executions row when run r of e is saved by a worker that loaded status
\* seen: an INSERT, or an UPDATE of the columns that differ from what was
\* loaded.
FlushMeta(e, r, seen) ==
  /\ metaRow' = [metaRow EXCEPT ![e] = r]
  /\ status' = IF runs[e][r] = seen THEN status
               ELSE [status EXCEPT ![e] = runs[e][r]]

\* The execution_data row likewise: with the fs store its columns are the same
\* for every run.
FlushData(e, r, found) ==
  dataRow' = IF found /\ store = "fs" THEN dataRow
             ELSE [dataRow EXCEPT ![e] = r]

Commit(w) ==
  /\ pc[w] = "commit" /\ ~InsertCollides(w)
  /\ FlushMeta(task[w], attempt[w], sawMeta[w])
  /\ FlushData(task[w], attempt[w], sawData[w])
  /\ Goto(w, "release")
  /\ UNCHANGED <<network, redis, task, attempt, sawMeta, sawData, runs, file,
                 settings, faults>>

\* Mutant: the two rows are flushed in transactions of their own.
MetaRowSurvivesCollision(w) ==
  /\ pc[w] = "commit" /\ InsertCollides(w)
  /\ FlushMeta(task[w], attempt[w], sawMeta[w])
  /\ Goto(w, "release")
  /\ UNCHANGED <<network, redis, task, attempt, sawMeta, sawData, runs, dataRow,
                 file, settings, faults>>

\* The flush raises IntegrityError: both rows are rolled back and the task
\* fails.
CommitCollides(w) ==
  /\ pc[w] = "commit" /\ InsertCollides(w)
  /\ Goto(w, "release")
  /\ UNCHANGED <<network, redis, task, attempt, sawMeta, sawData, runs, database,
                 faults>>

\* Mutant: the release is not in a finally clause.
BodyRaisesWithoutRelease(w) ==
  /\ pc[w] \in TaskBody \ {"release"} /\ FaultAllowed
  /\ failures' = failures + 1
  /\ Goto(w, "ack")
  /\ UNCHANGED <<network, redis, task, attempt, sawMeta, sawData, runs, database,
                 crashes>>

\* An exception in the task body: the database or the node registry fails, a
\* graph is refused, the soft time limit strikes.  The session rolls back,
\* the finally clause releases the claim; the task asks for no retry.
BodyRaises(w) ==
  /\ pc[w] \in TaskBody \ {"release"} /\ FaultAllowed
  /\ failures' = failures + 1
  /\ Goto(w, "release")
  /\ UNCHANGED <<network, redis, task, attempt, sawMeta, sawData, runs, database,
                 crashes>>

-----------------------------------------------------------------------------
(* The end of the task.                                                     *)

\* IdempotencyGuard.release: an unconditional DELETE, whoever owns the key.
Release(w) ==
  /\ pc[w] = "release"
  /\ claim' = [claim EXCEPT ![task[w]] = "free"]
  /\ Goto(w, "ack")
  /\ UNCHANGED <<network, claims, task, attempt, sawMeta, sawData, runs, database, faults>>

\* Worker w no longer stands behind the keys it has set.
Abandoned(w) ==
  [e \in Execution |-> IF claim[e] = w THEN "stale" ELSE claim[e]]

\* The DELETE raises and is only logged; the key may be gone all the same.
ReleaseUnavailable(w) ==
  /\ pc[w] = "release" /\ RedisMayFail
  /\ claims' = "doubtful"
  /\ \/ claim' = Abandoned(w)
     \/ claim' = [claim EXCEPT ![task[w]] = "free"]
  /\ Goto(w, "ack")
  /\ UNCHANGED <<network, task, attempt, sawMeta, sawData, runs, database, faults>>

\* Celery acknowledges a task that returned and a task that raised alike.
Ack(w) ==
  /\ pc[w] = "ack"
  /\ Goto(w, "idle")
  /\ UNCHANGED <<network, redis, task, attempt, sawMeta, sawData, runs, database,
                 faults>>

\* The worker is lost in the middle of a task.  Its message was not yet
\* acknowledged and goes back to the queue (acks_late); when only the pool
\* process died, Celery acknowledges it instead, since the app does not set
\* task_reject_on_worker_lost.  Nobody deletes the key.
LoseWorker(w) ==
  /\ pc[w] # "idle" /\ FaultAllowed
  /\ crashes' = crashes + 1
  /\ \/ broker' = [broker EXCEPT ![task[w]] = @ + 1]
     \/ PoolLoss /\ broker' = broker
  /\ claim' = Abandoned(w)
  /\ Goto(w, "idle")
  /\ UNCHANGED <<queued, duplicates, claims, task, attempt, sawMeta, sawData, runs,
                 database, failures>>

\* The TTL of the key of e runs out.
Expire(e) ==
  /\ claim[e] # "free"
  /\ TtlOutlivesTask => claim[e] = "stale"
  /\ claim' = [claim EXCEPT ![e] = "free"]
  /\ claims' = IF claim[e] = "stale" THEN claims ELSE "doubtful"
  /\ UNCHANGED <<network, locals, runs, database, faults>>

-----------------------------------------------------------------------------
\* The steps of the code in worker w, without the faults.
TaskStep(w) ==
  \/ ClaimWon(w) \/ ClaimLost(w) \/ ClaimUnavailable(w)
  \/ WorkflowMissing(w) \/ WorkflowLoaded(w) \/ RunWorkflow(w)
  \/ ReadMeta(w) \/ WritePayload(w) \/ ReadData(w)
  \/ Commit(w) \/ CommitCollides(w)
  \/ Release(w) \/ ReleaseUnavailable(w) \/ Ack(w)

Next ==
  \/ \E e \in Execution : Enqueue(e) \/ Duplicate(e) \/ Expire(e)
  \/ \E w \in Worker, e \in Execution : Deliver(w, e)
  \/ \E w \in Worker : TaskStep(w) \/ BodyRaises(w) \/ LoseWorker(w)

\* A live worker goes on with its task, and a message that waits while some
\* worker is idle is delivered.
Fairness ==
  /\ \A w \in Worker : WF_vars(TaskStep(w))
  /\ \A e \in Execution : WF_vars(\E w \in Worker : Deliver(w, e))

Spec == Init /\ [][Next]_vars /\ Fairness

-----------------------------------------------------------------------------
(* Properties.                                                              *)

\* The type of the state; in particular no message count goes negative.
TypeOK ==
  /\ queued \subseteq Execution /\ broker \in [Execution -> Nat]
  /\ claim \in [Execution -> Worker \cup {"free", "stale"}]
  /\ pc \in [Worker -> {"idle", "claim", "ack"} \cup TaskBody]
  /\ task \in [Worker -> Execution] /\ attempt \in [Worker -> Nat]
  /\ sawMeta \in [Worker -> Status \cup {"none"}]
  /\ sawData \in [Worker -> BOOLEAN]
  /\ runs \in [Execution -> Seq(Status)] /\ file \in [Execution -> Nat]
  /\ metaRow \in [Execution -> Nat] /\ dataRow \in [Execution -> Nat]
  /\ status \in [Execution -> Status \cup {"none"}]
  /\ store \in {"db", "fs"} /\ missing \in SUBSET Execution
  /\ claims \in {"sound", "doubtful"}
  /\ duplicates \in Nat /\ failures \in Nat /\ crashes \in Nat

\* What the SETNX in worker/idempotency.py is for: as long as Redis answers
\* and no key expires under its task, however often a message is delivered and
\* whichever workers are lost, no two workers are inside the task body of the
\* same execution.
OneRunnerPerExecution ==
  claims = "sound" =>
    \A w1, w2 \in Worker : \A e \in Execution :
      Running(w1, e) /\ Running(w2, e) => w1 = w2

\* Under the same condition a key in Redis has a running task behind it,
\* unless a worker was lost: the finally clause of execute_workflow gives the
\* claim back on every way out, so that a later message for the execution is
\* not skipped for nothing.
ClaimsAreBacked ==
  claims = "sound" =>
    \A e \in Execution :
      claim[e] # "free" => \/ claim[e] \in Worker /\ Running(claim[e], e)
                           \/ claim[e] = "stale" /\ crashes > 0

\* "The two tables are written together" (execution_repo.py): a saved
\* execution has both rows, and in the db store its times and its run data
\* are of the same run, also when Redis fails and several workers save it at
\* the same time.  The status of that run is in the row as long as the claims
\* hold; without them it may be left from an earlier run, since an UPDATE
\* leaves out a column that is as it was loaded.
RowsAgree ==
  \A e \in Execution :
    /\ metaRow[e] = 0 <=> dataRow[e] = 0
    /\ store = "db" => dataRow[e] = metaRow[e]
    /\ claims = "sound" /\ metaRow[e] # 0 => status[e] = runs[e][metaRow[e]]

\* Wherever the payload lives, a committed execution can be read back: the
\* fs store has put the file in place before the row refers to it.
RowsHaveTheirPayload ==
  \A e \in Execution : store = "fs" /\ dataRow[e] # 0 => file[e] # 0

\* As long as the claims hold, a saved execution is never overwritten by an
\* older run of it: save() is an upsert without a version, only the claim
\* keeps a slow worker from undoing the result of a later run.
LaterRunsWin ==
  [][claims' = "sound" => \A e \in Execution : metaRow'[e] >= metaRow[e]]_vars

\* Every queued execution whose workflow exists is eventually saved, unless
\* a task raised or a worker was lost: a message that finds the key skips
\* only what somebody else completes, a Redis outage does not block runs
\* (idempotency.py), and of two inserts one succeeds.
EveryExecutionIsSaved ==
  \A e \in Execution :
    e \in queued \ missing ~> metaRow[e] # 0 \/ failures > 0 \/ crashes > 0

\* docs/walkthrough/backend/triggers-worker-webhooks.md: acks_late gives
\* "at-least-once semantics"; config/settings.py: at the hard time limit "the
\* worker process is killed and the task is requeued".  So a queued execution
\* is saved although a worker is lost.
AtLeastOnce ==
  \A e \in Execution :
    e \in queued \ missing ~> metaRow[e] # 0 \/ failures > 0
=============================================================================
