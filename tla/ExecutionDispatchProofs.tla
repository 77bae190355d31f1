---------------------- MODULE ExecutionDispatchProofs ----------------------
(***************************************************************************)
(* What holds of ExecutionDispatch for every number of workers, executions *)
(* and faults.  Three inductive invariants: the type; StoreInv, which      *)
(* holds whatever Redis does; and ClaimInv, which says what the claims     *)
(* give as long as no call fails and no key expires under a running task.  *)
(***************************************************************************)
EXTENDS ExecutionDispatch, TLAPS

USE DEF TaskBody, Saving, Status

-----------------------------------------------------------------------------
(* The type.                                                                *)

\* Initial states have the declared type.
LEMMA InitTypeOK == Init => TypeOK
  BY ConstantsAssumption DEF Init, TypeOK

\* A worker about to save holds one of the runs of its execution.
SavesARun ==
  \A w \in Worker : pc[w] \in Saving => attempt[w] \in 1 .. Len(runs[task[w]])

\* Every step keeps the type.
LEMMA NextTypeOK == TypeOK /\ SavesARun /\ [Next]_vars => TypeOK'
<1> SUFFICES ASSUME TypeOK, SavesARun, [Next]_vars PROVE TypeOK'
  OBVIOUS
<1>1. CASE \E e \in Execution : Enqueue(e)
    BY <1>1, ConstantsAssumption, SMTT(30) DEF Enqueue, Goto, network, locals, redis, database, settings, faults, TypeOK
<1>2. CASE \E e \in Execution : Duplicate(e)
    BY <1>2, ConstantsAssumption, SMTT(30) DEF Duplicate, FaultAllowed, Goto, network, locals, redis, database, settings, faults, TypeOK
<1>3. CASE \E e \in Execution : Expire(e)
  <2>1. PICK e \in Execution : Expire(e)
    BY <1>3
  <2>2. QED
    BY <2>1, ConstantsAssumption, SMTT(30)
    DEF Expire, Goto, network, locals, redis, database, settings, faults, TypeOK
<1>4. CASE \E w \in Worker, e \in Execution : Deliver(w, e)
  <2>1. PICK w \in Worker, e \in Execution : Deliver(w, e)
    BY <1>4
  <2>2. broker[e] - 1 \in Nat
    BY <2>1 DEF Deliver, TypeOK
  <2>3. broker' \in [Execution -> Nat]
    BY <2>1, <2>2 DEF Deliver, TypeOK
  <2>4. task' \in [Worker -> Execution]
    BY <2>1 DEF Deliver, TypeOK
  <2>5. pc' \in [Worker -> {"idle", "claim", "ack"} \cup TaskBody]
    BY <2>1 DEF Deliver, Goto, TypeOK
  <2>6. QED
    BY <2>1, <2>3, <2>4, <2>5
    DEF Deliver, redis, database, settings, faults, TypeOK
<1>5. CASE \E w \in Worker : ClaimWon(w)
    BY <1>5, ConstantsAssumption, SMTT(30) DEF ClaimWon, WinsClaim, Goto, network, locals, redis, database, settings, faults, TypeOK
<1>6. CASE \E w \in Worker : ClaimLost(w)
    BY <1>6, ConstantsAssumption, SMTT(30) DEF ClaimLost, Goto, network, locals, redis, database, settings, faults, TypeOK
<1>7. CASE \E w \in Worker : ClaimUnavailable(w)
  <2>1. PICK w \in Worker : ClaimUnavailable(w)
    BY <1>7
  <2>2. task[w] \in Execution /\ claim[task[w]] \in Worker \cup {"free", "stale"}
    BY <2>1 DEF TypeOK
  <2>3. claim' \in [Execution -> Worker \cup {"free", "stale"}]
    BY <2>1, <2>2 DEF ClaimUnavailable, TypeOK
  <2>5. QED
    BY <2>1, <2>3 DEF ClaimUnavailable, Goto, network, locals, redis, database,
                      settings, faults, TypeOK
<1>8. CASE \E w \in Worker : WorkflowMissing(w)
    BY <1>8, ConstantsAssumption, SMTT(30) DEF WorkflowMissing, Goto, network, locals, redis, database, settings, faults, TypeOK
<1>9. CASE \E w \in Worker : WorkflowLoaded(w)
    BY <1>9, ConstantsAssumption, SMTT(30) DEF WorkflowLoaded, Goto, network, locals, redis, database, settings, faults, TypeOK
<1>10. CASE \E w \in Worker : RunWorkflow(w)
  <2>1. PICK w \in Worker, s \in Status :
          /\ RunWorkflow(w)
          /\ runs' = [runs EXCEPT ![task[w]] = Append(@, s)]
    BY <1>10 DEF RunWorkflow
  <2>2. Append(runs[task[w]], s) \in Seq(Status) /\ Len(runs[task[w]]) + 1 \in Nat
    BY <2>1 DEF TypeOK
  <2>3. runs' \in [Execution -> Seq(Status)] /\ attempt' \in [Worker -> Nat]
    BY <2>1, <2>2 DEF RunWorkflow, TypeOK
  <2>4. QED
    BY <2>1, <2>3 DEF RunWorkflow, Goto, network, locals, redis, database,
                      settings, faults, TypeOK
<1>11. CASE \E w \in Worker : ReadMeta(w)
    BY <1>11, ConstantsAssumption, SMTT(30) DEF ReadMeta, Goto, network, locals, redis, database, settings, faults, TypeOK
<1>12. CASE \E w \in Worker : WritePayload(w)
    BY <1>12, ConstantsAssumption, SMTT(30) DEF WritePayload, Goto, network, locals, redis, database, settings, faults, TypeOK
<1>13. CASE \E w \in Worker : ReadData(w)
  <2>1. PICK w \in Worker : ReadData(w)
    BY <1>13
  <2>2. QED
    BY <2>1, ConstantsAssumption, SMTT(30)
    DEF ReadData, Goto, network, locals, redis, database, settings, faults, TypeOK
<1>14. CASE \E w \in Worker : Commit(w)
  <2>1. PICK w \in Worker : Commit(w)
    BY <1>14
  <2>2. \A r \in 1 .. Len(runs[task[w]]) : runs[task[w]][r] \in Status
    BY DEF TypeOK
  <2>3. attempt[w] \in 1 .. Len(runs[task[w]])
    BY <2>1 DEF SavesARun, TypeOK, Commit
  <2>4. QED
    BY <2>1, <2>2, <2>3 DEF Commit, FlushMeta, FlushData, Goto, network, locals,
                      redis, database, settings, faults, TypeOK
<1>15. CASE \E w \in Worker : CommitCollides(w)
    BY <1>15, ConstantsAssumption, SMTT(30) DEF CommitCollides, Goto, network, locals, redis, database, settings, faults, TypeOK
<1>16. CASE \E w \in Worker : Release(w)
    BY <1>16, ConstantsAssumption, SMTT(30) DEF Release, Goto, network, locals, redis, database, settings, faults, TypeOK
<1>17. CASE \E w \in Worker : ReleaseUnavailable(w)
  <2>1. PICK w \in Worker : ReleaseUnavailable(w)
    BY <1>17
  <2>2. task[w] \in Execution /\ claim[task[w]] \in Worker \cup {"free", "stale"}
    BY <2>1 DEF TypeOK
  <2>3. claim' \in [Execution -> Worker \cup {"free", "stale"}]
    BY <2>1, <2>2 DEF ReleaseUnavailable, Abandoned, TypeOK
  <2>5. QED
    BY <2>1, <2>3 DEF ReleaseUnavailable, Goto, network, locals, redis, database,
                      settings, faults, TypeOK
<1>18. CASE \E w \in Worker : Ack(w)
    BY <1>18, ConstantsAssumption, SMTT(30) DEF Ack, Goto, network, locals, redis, database, settings, faults, TypeOK
<1>19. CASE \E w \in Worker : BodyRaises(w)
    BY <1>19, ConstantsAssumption, SMTT(30) DEF BodyRaises, Goto, network, locals, redis, database, settings, faults, TypeOK
<1>20. CASE \E w \in Worker : LoseWorker(w)
  <2>1. PICK w \in Worker : LoseWorker(w)
    BY <1>20
  <2>2. task[w] \in Execution /\ claim[task[w]] \in Worker \cup {"free", "stale"}
    BY <2>1 DEF TypeOK
  <2>3. claim' \in [Execution -> Worker \cup {"free", "stale"}]
    BY <2>1, <2>2 DEF LoseWorker, Abandoned, TypeOK
  <2>4. broker' \in [Execution -> Nat]
    <3>1. broker' = [broker EXCEPT ![task[w]] = broker[task[w]] + 1] \/ broker' = broker
      BY <2>1, Zenon DEF LoseWorker
    <3>2. broker \in [Execution -> Nat] /\ broker[task[w]] + 1 \in Nat
      BY <2>2 DEF TypeOK
    <3>3. QED
      BY <3>1, <3>2
  <2>5. QED
    BY <2>1, <2>3, <2>4 DEF LoseWorker, Goto, network, locals, redis, database,
                      settings, faults, TypeOK
<1>21. CASE UNCHANGED vars
    BY <1>21, ConstantsAssumption, SMTT(30) DEF vars, Goto, network, locals, redis, database, settings, faults, TypeOK
<1>22. QED
    BY <1>1, <1>2, <1>3, <1>4, <1>5, <1>6, <1>7, <1>8, <1>9, <1>10, <1>11, <1>12, <1>13, <1>14, <1>15, <1>16, <1>17, <1>18, <1>19, <1>20, <1>21 DEF Next, TaskStep

\* A worker about to save holds a run that the engine has made: no step takes
\* a run away.
LEMMA NextSavesARun == TypeOK /\ SavesARun /\ [Next]_vars => SavesARun'
<1> SUFFICES ASSUME TypeOK, SavesARun, [Next]_vars PROVE SavesARun'
  OBVIOUS
<1> USE DEF SavesARun
<1>1. CASE \E e \in Execution : Enqueue(e)
    BY <1>1, ConstantsAssumption, SMTT(30) DEF Enqueue, Goto, network, locals, redis, database, settings, faults, TypeOK
<1>2. CASE \E e \in Execution : Duplicate(e)
    BY <1>2, ConstantsAssumption, SMTT(30) DEF Duplicate, FaultAllowed, Goto, network, locals, redis, database, settings, faults, TypeOK
<1>3. CASE \E e \in Execution : Expire(e)
  <2>1. PICK e \in Execution : Expire(e)
    BY <1>3
  <2>2. QED
    BY <2>1, ConstantsAssumption, SMTT(30)
    DEF Expire, Goto, network, locals, redis, database, settings, faults, TypeOK
<1>4. CASE \E w \in Worker, e \in Execution : Deliver(w, e)
  <2>1. PICK w \in Worker, e \in Execution : Deliver(w, e)
    BY <1>4
  <2>2. pc'[w] = "claim"
    BY <2>1 DEF Deliver, Goto, TypeOK
  <2>3. \A v \in Worker \ {w} : pc'[v] = pc[v] /\ task'[v] = task[v]
    BY <2>1 DEF Deliver, Goto, TypeOK
  <2>4. attempt' = attempt /\ runs' = runs
    BY <2>1 DEF Deliver
  <2>5. QED
    BY <2>2, <2>3, <2>4 DEF SavesARun, Saving
<1>5. CASE \E w \in Worker : ClaimWon(w)
    BY <1>5, ConstantsAssumption, SMTT(30) DEF ClaimWon, WinsClaim, Goto, network, locals, redis, database, settings, faults, TypeOK
<1>6. CASE \E w \in Worker : ClaimLost(w)
    BY <1>6, ConstantsAssumption, SMTT(30) DEF ClaimLost, Goto, network, locals, redis, database, settings, faults, TypeOK
<1>7. CASE \E w \in Worker : ClaimUnavailable(w)
  <2>1. PICK w \in Worker : ClaimUnavailable(w)
    BY <1>7
  <2>2. QED
    BY <2>1, ConstantsAssumption, SMTT(30)
    DEF ClaimUnavailable, Goto, network, locals, redis, database, settings, faults, TypeOK
<1>8. CASE \E w \in Worker : WorkflowMissing(w)
    BY <1>8, ConstantsAssumption, SMTT(30) DEF WorkflowMissing, Goto, network, locals, redis, database, settings, faults, TypeOK
<1>9. CASE \E w \in Worker : WorkflowLoaded(w)
    BY <1>9, ConstantsAssumption, SMTT(30) DEF WorkflowLoaded, Goto, network, locals, redis, database, settings, faults, TypeOK
<1>10. CASE \E w \in Worker : RunWorkflow(w)
  <2>1. PICK w \in Worker, s \in Status :
          /\ RunWorkflow(w)
          /\ runs' = [runs EXCEPT ![task[w]] = Append(@, s)]
    BY <1>10 DEF RunWorkflow
  <2>2. /\ Len(Append(runs[task[w]], s)) = Len(runs[task[w]]) + 1
        /\ \A i \in 1 .. Len(runs[task[w]]) :
             Append(runs[task[w]], s)[i] = runs[task[w]][i]
    BY <2>1 DEF TypeOK
  <2>3. \A e \in Execution : Len(runs'[e]) \in Nat /\ Len(runs'[e]) >= Len(runs[e])
    BY <2>1, <2>2 DEF TypeOK
  <2>4. Len(runs'[task[w]]) = Len(runs[task[w]]) + 1
    BY <2>1, <2>2 DEF TypeOK
  <2>5. QED
    BY <2>1, <2>3, <2>4 DEF RunWorkflow, Goto, TypeOK
<1>11. CASE \E w \in Worker : ReadMeta(w)
    BY <1>11, ConstantsAssumption, SMTT(30) DEF ReadMeta, Goto, network, locals, redis, database, settings, faults, TypeOK
<1>12. CASE \E w \in Worker : WritePayload(w)
    BY <1>12, ConstantsAssumption, SMTT(30) DEF WritePayload, Goto, network, locals, redis, database, settings, faults, TypeOK
<1>13. CASE \E w \in Worker : ReadData(w)
  <2>1. PICK w \in Worker : ReadData(w)
    BY <1>13
  <2>2. QED
    BY <2>1, ConstantsAssumption, SMTT(30)
    DEF ReadData, Goto, network, locals, redis, database, settings, faults, TypeOK
<1>14. CASE \E w \in Worker : Commit(w)
    BY <1>14 DEF Commit, Goto, network, locals, redis, database, settings, faults, TypeOK
<1>15. CASE \E w \in Worker : CommitCollides(w)
    BY <1>15, ConstantsAssumption, SMTT(30) DEF CommitCollides, Goto, network, locals, redis, database, settings, faults, TypeOK
<1>16. CASE \E w \in Worker : Release(w)
    BY <1>16, ConstantsAssumption, SMTT(30) DEF Release, Goto, network, locals, redis, database, settings, faults, TypeOK
<1>17. CASE \E w \in Worker : ReleaseUnavailable(w)
  <2>1. PICK w \in Worker : ReleaseUnavailable(w)
    BY <1>17
  <2>2. QED
    BY <2>1, ConstantsAssumption, SMTT(30)
    DEF ReleaseUnavailable, Abandoned, Goto, network, locals, redis, database, settings, faults, TypeOK
<1>18. CASE \E w \in Worker : Ack(w)
    BY <1>18, ConstantsAssumption, SMTT(30) DEF Ack, Goto, network, locals, redis, database, settings, faults, TypeOK
<1>19. CASE \E w \in Worker : BodyRaises(w)
    BY <1>19, ConstantsAssumption, SMTT(30) DEF BodyRaises, Goto, network, locals, redis, database, settings, faults, TypeOK
<1>20. CASE \E w \in Worker : LoseWorker(w)
  <2>1. PICK w \in Worker : LoseWorker(w)
    BY <1>20
  <2>2. QED
    BY <2>1, ConstantsAssumption, SMTT(30)
    DEF LoseWorker, Abandoned, Goto, network, locals, redis, database, settings, faults, TypeOK
<1>21. CASE UNCHANGED vars
    BY <1>21, ConstantsAssumption, SMTT(30) DEF vars, Goto, network, locals, redis, database, settings, faults, TypeOK
<1>22. QED
    BY <1>1, <1>2, <1>3, <1>4, <1>5, <1>6, <1>7, <1>8, <1>9, <1>10, <1>11, <1>12, <1>13, <1>14, <1>15, <1>16, <1>17, <1>18, <1>19, <1>20, <1>21 DEF Next, TaskStep

\* The state has its type: whatever is delivered twice, fails or is lost, no
\* message count goes negative and every row holds a run number.
THEOREM TypeCorrect == Spec => []TypeOK
<1>1. Init => SavesARun
  BY DEF Init, SavesARun
<1>2. QED
  BY <1>1, InitTypeOK, NextTypeOK, NextSavesARun, PTL DEF Spec

-----------------------------------------------------------------------------
(* The store: rows and payload.                                             *)

\* The two rows of an execution, as far as they agree whatever Redis does.
RowsPaired ==
  \A e \in Execution :
    /\ metaRow[e] = 0 <=> dataRow[e] = 0
    /\ metaRow[e] = 0 <=> status[e] = "none"
    /\ store = "db" => dataRow[e] = metaRow[e]

\* What session.get has found does not disappear, and a worker that is past
\* data_store.write has the file in place.
SeenIsThere ==
  \A w \in Worker :
    /\ pc[w] \in {"write", "readData", "commit"} /\ sawMeta[w] # "none"
         => metaRow[task[w]] # 0
    /\ pc[w] = "commit" /\ sawData[w] => dataRow[task[w]] # 0
    /\ store = "fs" /\ pc[w] \in {"readData", "commit"} => file[task[w]] # 0

StoreInv == SavesARun /\ RowsPaired /\ RowsHaveTheirPayload /\ SeenIsThere

\* Initially there are no rows and nothing to save.
LEMMA InitStoreInv == Init => StoreInv
  BY DEF Init, StoreInv, RowsPaired, RowsHaveTheirPayload, SavesARun, SeenIsThere

\* Every step keeps rows and payload together.
LEMMA NextStoreInv == TypeOK /\ StoreInv /\ [Next]_vars => StoreInv'
<1> SUFFICES ASSUME TypeOK, StoreInv, [Next]_vars
             PROVE  RowsPaired' /\ RowsHaveTheirPayload' /\ SeenIsThere'
  BY NextSavesARun DEF StoreInv
<1> USE DEF RowsPaired, RowsHaveTheirPayload, SeenIsThere
<1>0. RowsPaired /\ RowsHaveTheirPayload /\ SeenIsThere
  BY DEF StoreInv
<1>1. CASE \E e \in Execution : Enqueue(e)
    BY <1>1, ConstantsAssumption, <1>0, SMTT(30) DEF Enqueue, Goto, network, locals, redis, database, settings, faults, TypeOK
<1>2. CASE \E e \in Execution : Duplicate(e)
    BY <1>2, ConstantsAssumption, <1>0, SMTT(30) DEF Duplicate, FaultAllowed, Goto, network, locals, redis, database, settings, faults, TypeOK
<1>3. CASE \E e \in Execution : Expire(e)
  <2>1. PICK e \in Execution : Expire(e)
    BY <1>3
  <2>2. QED
    BY <2>1, ConstantsAssumption, <1>0, SMTT(30)
    DEF Expire, Goto, network, locals, redis, database, settings, faults, TypeOK
<1>4. CASE \E w \in Worker, e \in Execution : Deliver(w, e)
  <2>1. PICK w \in Worker, e \in Execution : Deliver(w, e)
    BY <1>4
  <2>2. pc'[w] = "claim"
    BY <2>1 DEF Deliver, Goto, TypeOK
  <2>3. \A v \in Worker \ {w} : pc'[v] = pc[v] /\ task'[v] = task[v]
    BY <2>1 DEF Deliver, Goto, TypeOK
  <2>4. UNCHANGED <<sawMeta, sawData, metaRow, status, dataRow, file, store>>
    BY <2>1 DEF Deliver, database, settings
  <2>5. QED
    BY <1>0, <2>2, <2>3, <2>4
<1>5. CASE \E w \in Worker : ClaimWon(w)
    BY <1>5, ConstantsAssumption, <1>0, SMTT(30) DEF ClaimWon, WinsClaim, Goto, network, locals, redis, database, settings, faults, TypeOK
<1>6. CASE \E w \in Worker : ClaimLost(w)
    BY <1>6, ConstantsAssumption, <1>0, SMTT(30) DEF ClaimLost, Goto, network, locals, redis, database, settings, faults, TypeOK
<1>7. CASE \E w \in Worker : ClaimUnavailable(w)
  <2>1. PICK w \in Worker : ClaimUnavailable(w)
    BY <1>7
  <2>2. QED
    BY <2>1, ConstantsAssumption, <1>0, SMTT(30)
    DEF ClaimUnavailable, Goto, network, locals, redis, database, settings, faults, TypeOK
<1>8. CASE \E w \in Worker : WorkflowMissing(w)
    BY <1>8, ConstantsAssumption, <1>0, SMTT(30) DEF WorkflowMissing, Goto, network, locals, redis, database, settings, faults, TypeOK
<1>9. CASE \E w \in Worker : WorkflowLoaded(w)
    BY <1>9, ConstantsAssumption, <1>0, SMTT(30) DEF WorkflowLoaded, Goto, network, locals, redis, database, settings, faults, TypeOK
<1>10. CASE \E w \in Worker : RunWorkflow(w)
    BY <1>10, ConstantsAssumption, <1>0, SMTT(30) DEF RunWorkflow, Goto, network, locals, redis, database, settings, faults, TypeOK
<1>11. CASE \E w \in Worker : ReadMeta(w)
    BY <1>11, ConstantsAssumption, <1>0, SMTT(30) DEF ReadMeta, Goto, network, locals, redis, database, settings, faults, TypeOK
<1>12. CASE \E w \in Worker : WritePayload(w)
  <2>1. PICK w \in Worker : WritePayload(w)
    BY <1>12
  <2>2. attempt[w] # 0 /\ task[w] \in Execution
    BY <2>1 DEF StoreInv, SavesARun, TypeOK, WritePayload
  <2>3. QED
    BY <1>0, <2>1, <2>2 DEF WritePayload, Goto, settings, TypeOK
<1>13. CASE \E w \in Worker : ReadData(w)
  <2>1. PICK w \in Worker : ReadData(w)
    BY <1>13
  <2>2. RowsPaired' /\ RowsHaveTheirPayload'
    BY <1>0, <2>1 DEF ReadData, database, settings
  <2>3. sawData'[w] => dataRow[task[w]] # 0
    BY <2>1 DEF ReadData, TypeOK
  <2>4. \A v \in Worker \ {w} : sawData'[v] = sawData[v] /\ pc'[v] = pc[v]
    BY <2>1 DEF ReadData, Goto, TypeOK
  <2>5. pc[w] = "readData" /\ pc'[w] = "commit"
    BY <2>1 DEF ReadData, Goto, TypeOK
  <2>6. UNCHANGED <<task, sawMeta, metaRow, dataRow, file, store>>
    BY <2>1 DEF ReadData, database, settings
  <2>7. SeenIsThere'
    BY <1>0, <2>3, <2>4, <2>5, <2>6
  <2>8. QED
    BY <2>2, <2>7
<1>14. CASE \E w \in Worker : Commit(w)
  <2>1. PICK w \in Worker : Commit(w)
    BY <1>14
  <2>2. attempt[w] \in 1 .. Len(runs[task[w]]) /\ task[w] \in Execution
    BY <2>1 DEF StoreInv, SavesARun, TypeOK, Commit
  <2>3. runs[task[w]][attempt[w]] \in Status /\ attempt[w] # 0
    BY <2>2 DEF TypeOK
  <2>4. sawMeta[w] # "none" => metaRow[task[w]] # 0
    BY <1>0, <2>1 DEF Commit
  <2>5. sawData[w] => dataRow[task[w]] # 0
    BY <1>0, <2>1 DEF Commit
  <2>6. RowsPaired'
    BY <1>0, <2>1, <2>2, <2>3, <2>4, <2>5
    DEF Commit, FlushMeta, FlushData, settings, TypeOK
  <2>7. RowsHaveTheirPayload'
    BY <1>0, <2>1, <2>2, <2>3, <2>5 DEF Commit, FlushData, settings, TypeOK
  <2>8. SeenIsThere'
    BY <1>0, <2>1, <2>2, <2>3, <2>5
    DEF Commit, FlushMeta, FlushData, Goto, settings, TypeOK
  <2>9. QED
    BY <2>6, <2>7, <2>8
<1>15. CASE \E w \in Worker : CommitCollides(w)
    BY <1>15, ConstantsAssumption, <1>0, SMTT(30) DEF CommitCollides, Goto, network, locals, redis, database, settings, faults, TypeOK
<1>16. CASE \E w \in Worker : Release(w)
    BY <1>16, ConstantsAssumption, <1>0, SMTT(30) DEF Release, Goto, network, locals, redis, database, settings, faults, TypeOK
<1>17. CASE \E w \in Worker : ReleaseUnavailable(w)
  <2>1. PICK w \in Worker : ReleaseUnavailable(w)
    BY <1>17
  <2>2. QED
    BY <2>1, ConstantsAssumption, <1>0, SMTT(30)
    DEF ReleaseUnavailable, Abandoned, Goto, network, locals, redis, database, settings, faults, TypeOK
<1>18. CASE \E w \in Worker : Ack(w)
    BY <1>18, ConstantsAssumption, <1>0, SMTT(30) DEF Ack, Goto, network, locals, redis, database, settings, faults, TypeOK
<1>19. CASE \E w \in Worker : BodyRaises(w)
    BY <1>19, ConstantsAssumption, <1>0, SMTT(30) DEF BodyRaises, Goto, network, locals, redis, database, settings, faults, TypeOK
<1>20. CASE \E w \in Worker : LoseWorker(w)
  <2>1. PICK w \in Worker : LoseWorker(w)
    BY <1>20
  <2>2. QED
    BY <2>1, ConstantsAssumption, <1>0, SMTT(30)
    DEF LoseWorker, Abandoned, Goto, network, locals, redis, database, settings, faults, TypeOK
<1>21. CASE UNCHANGED vars
    BY <1>21, <1>0, ConstantsAssumption DEF vars, Goto, network, locals, redis, database, settings, faults, TypeOK
<1>22. QED
    BY <1>1, <1>2, <1>3, <1>4, <1>5, <1>6, <1>7, <1>8, <1>9, <1>10, <1>11, <1>12, <1>13, <1>14, <1>15, <1>16, <1>17, <1>18, <1>19, <1>20, <1>21 DEF Next, TaskStep

\* A committed execution always has its payload file (fs store).
THEOREM RowsAlwaysHaveTheirPayload == Spec => []RowsHaveTheirPayload
<1>1. StoreInv => RowsHaveTheirPayload /\ SavesARun
  BY DEF StoreInv
<1>2. QED
  BY <1>1, InitTypeOK, NextTypeOK, InitStoreInv, NextStoreInv, PTL DEF Spec

-----------------------------------------------------------------------------
(* The claim.                                                               *)

\* Whoever is in the task body owns the key.
Claimed == \A w \in Worker : pc[w] \in TaskBody => claim[task[w]] = w

\* A key has a running task behind it, unless a worker was lost.
Backed ==
  \A e \in Execution :
    claim[e] # "free" => \/ claim[e] \in Worker /\ Running(claim[e], e)
                         \/ claim[e] = "stale" /\ crashes > 0

\* The rows hold runs that happened, and a worker that saves holds the latest.
HoldsLatestRun ==
  /\ \A e \in Execution : metaRow[e] <= Len(runs[e])
  /\ \A w \in Worker : pc[w] \in Saving => attempt[w] = Len(runs[task[w]])

\* The row has the status of its run, and a worker between session.get and
\* the commit has loaded it.
StatusIsCurrent ==
  /\ \A e \in Execution : metaRow[e] # 0 => status[e] = runs[e][metaRow[e]]
  /\ \A w \in Worker :
       pc[w] \in {"write", "readData", "commit"} => sawMeta[w] = status[task[w]]

ClaimInv == claims = "sound" => Claimed /\ Backed /\ HoldsLatestRun /\ StatusIsCurrent

\* Initially there is no key and nobody is in the task body.
LEMMA InitClaimInv == Init => ClaimInv
  BY ConstantsAssumption
  DEF Init, ClaimInv, Claimed, Backed, HoldsLatestRun, StatusIsCurrent, Running

\* As long as the claims hold, every step keeps keys, running tasks and rows
\* in step.
LEMMA NextClaimInv == TypeOK /\ StoreInv /\ ClaimInv /\ [Next]_vars => ClaimInv'
<1> SUFFICES ASSUME TypeOK, StoreInv, ClaimInv, [Next]_vars, claims' = "sound"
             PROVE  Claimed' /\ Backed' /\ HoldsLatestRun' /\ StatusIsCurrent'
  BY DEF ClaimInv
<1> USE DEF Claimed, Backed, HoldsLatestRun, StatusIsCurrent, Running
<1>0. claims' = "sound" => claims = "sound"
  BY DEF Next, TaskStep, Enqueue, Duplicate, Expire, Deliver, ClaimWon, ClaimLost,
         ClaimUnavailable, WorkflowMissing, WorkflowLoaded, RunWorkflow, ReadMeta,
         WritePayload, ReadData, Commit, CommitCollides, Release,
         ReleaseUnavailable, Ack, BodyRaises, LoseWorker, redis, vars
<1>a. Claimed /\ Backed /\ HoldsLatestRun /\ StatusIsCurrent
  BY <1>0 DEF ClaimInv
<1>b. \A e \in Execution : metaRow[e] \in Nat /\ Len(runs[e]) \in Nat
  BY DEF TypeOK
<1>1. CASE \E e \in Execution : Enqueue(e)
    BY <1>1, ConstantsAssumption, <1>a, <1>b, SMTT(30) DEF Enqueue, Goto, network, locals, redis, database, settings, faults, TypeOK
<1>2. CASE \E e \in Execution : Duplicate(e)
    BY <1>2, ConstantsAssumption, <1>a, <1>b, SMTT(30) DEF Duplicate, FaultAllowed, Goto, network, locals, redis, database, settings, faults, TypeOK
<1>3. CASE \E e \in Execution : Expire(e)
  <2>1. PICK e \in Execution : Expire(e)
    BY <1>3
  <2>2. QED
    BY <2>1, ConstantsAssumption, <1>a, <1>b, SMTT(30)
    DEF Expire, Goto, network, locals, redis, database, settings, faults, TypeOK
<1>4. CASE \E w \in Worker, e \in Execution : Deliver(w, e)
  <2>1. PICK w \in Worker, e \in Execution : Deliver(w, e)
    BY <1>4
  <2>2. QED
    BY <2>1, ConstantsAssumption, <1>a, <1>b, SMTT(30)
    DEF Deliver, Goto, network, locals, redis, database, settings, faults, TypeOK
<1>5. CASE \E w \in Worker : ClaimWon(w)
    BY <1>5, ConstantsAssumption, <1>a, <1>b, SMTT(30) DEF ClaimWon, WinsClaim, Goto, network, locals, redis, database, settings, faults, TypeOK
<1>6. CASE \E w \in Worker : ClaimLost(w)
    BY <1>6, ConstantsAssumption, <1>a, <1>b, SMTT(30) DEF ClaimLost, Goto, network, locals, redis, database, settings, faults, TypeOK
<1>7. CASE \E w \in Worker : ClaimUnavailable(w)
  <2>1. PICK w \in Worker : ClaimUnavailable(w)
    BY <1>7
  <2>2. QED
    BY <2>1, ConstantsAssumption, <1>a, <1>b, SMTT(30)
    DEF ClaimUnavailable, Goto, network, locals, redis, database, settings, faults, TypeOK
<1>8. CASE \E w \in Worker : WorkflowMissing(w)
    BY <1>8, ConstantsAssumption, <1>a, <1>b, SMTT(30) DEF WorkflowMissing, Goto, network, locals, redis, database, settings, faults, TypeOK
<1>9. CASE \E w \in Worker : WorkflowLoaded(w)
    BY <1>9, ConstantsAssumption, <1>a, <1>b, SMTT(30) DEF WorkflowLoaded, Goto, network, locals, redis, database, settings, faults, TypeOK
<1>10. CASE \E w \in Worker : RunWorkflow(w)
  <2>1. PICK w \in Worker, s \in Status :
          /\ RunWorkflow(w)
          /\ runs' = [runs EXCEPT ![task[w]] = Append(@, s)]
    BY <1>10 DEF RunWorkflow
  <2>2. /\ Len(Append(runs[task[w]], s)) = Len(runs[task[w]]) + 1
        /\ \A i \in 1 .. Len(runs[task[w]]) :
             Append(runs[task[w]], s)[i] = runs[task[w]][i]
    BY <2>1 DEF TypeOK
  <2>3. task[w] \in Execution /\ task' = task
    BY <2>1 DEF RunWorkflow, TypeOK
  <2>4. \A e \in Execution : Len(runs'[e]) \in Nat /\ Len(runs'[e]) >= Len(runs[e])
    BY <1>b, <2>1, <2>2, <2>3 DEF TypeOK
  <2>5. Len(runs'[task[w]]) = Len(runs[task[w]]) + 1
    BY <2>1, <2>2, <2>3 DEF TypeOK
  <2>6. \A e \in Execution : \A i \in 1 .. Len(runs[e]) : runs'[e][i] = runs[e][i]
    BY <2>1, <2>2, <2>3 DEF TypeOK
  <2>7. \A v \in Worker \ {w} : pc[v] \in Saving => task[v] # task[w]
    BY <1>a, <2>1 DEF RunWorkflow
  <2>8. HoldsLatestRun'
    <3>1. \A e \in Execution : metaRow'[e] <= Len(runs'[e])
      BY <1>a, <1>b, <2>1, <2>4 DEF RunWorkflow, database
    <3>2. \A v \in Worker : pc'[v] \in Saving => attempt'[v] = Len(runs'[task'[v]])
      BY <1>a, <2>1, <2>3, <2>5, <2>7 DEF RunWorkflow, Goto, TypeOK
    <3>3. QED
      BY <3>1, <3>2
  <2>9. StatusIsCurrent'
    <3>1. \A e \in Execution : metaRow[e] # 0 => metaRow[e] \in 1 .. Len(runs[e])
      BY <1>a, <1>b
    <3>2. \A e \in Execution : metaRow'[e] # 0 => status'[e] = runs'[e][metaRow'[e]]
      BY <1>a, <2>1, <2>6, <3>1 DEF RunWorkflow, database
    <3>3. \A v \in Worker : pc'[v] \in {"write", "readData", "commit"}
            => sawMeta'[v] = status'[task'[v]]
      BY <1>a, <2>1 DEF RunWorkflow, Goto, database, TypeOK
    <3>4. QED
      BY <3>2, <3>3
  <2>10. Claimed' /\ Backed'
    BY <1>a, <2>1 DEF RunWorkflow, Goto, redis, faults, TypeOK
  <2>11. QED
    BY <2>8, <2>9, <2>10
<1>11. CASE \E w \in Worker : ReadMeta(w)
    BY <1>11, ConstantsAssumption, <1>a, <1>b, SMTT(30) DEF ReadMeta, Goto, network, locals, redis, database, settings, faults, TypeOK
<1>12. CASE \E w \in Worker : WritePayload(w)
    BY <1>12, ConstantsAssumption, <1>a, <1>b, SMTT(30) DEF WritePayload, Goto, network, locals, redis, database, settings, faults, TypeOK
<1>13. CASE \E w \in Worker : ReadData(w)
  <2>1. PICK w \in Worker : ReadData(w)
    BY <1>13
  <2>2. QED
    BY <2>1, ConstantsAssumption, <1>a, <1>b, SMTT(30)
    DEF ReadData, Goto, network, locals, redis, database, settings, faults, TypeOK
<1>14. CASE \E w \in Worker : Commit(w)
  <2>1. PICK w \in Worker : Commit(w)
    BY <1>14
  <2>2. attempt[w] \in 1 .. Len(runs[task[w]]) /\ task[w] \in Execution
    BY <2>1 DEF StoreInv, SavesARun, TypeOK, Commit
  <2>3. runs[task[w]][attempt[w]] \in Status /\ attempt[w] = Len(runs[task[w]])
    BY <1>a, <2>1, <2>2 DEF TypeOK, Commit
  <2>4. status'[task[w]] = runs[task[w]][attempt[w]]
    BY <1>a, <2>1, <2>2 DEF Commit, FlushMeta, TypeOK
  <2>5. \A v \in Worker \ {w} : pc[v] \in TaskBody => task[v] # task[w]
    BY <1>a, <2>1 DEF Commit
  <2>6. HoldsLatestRun'
    BY <1>a, <1>b, <2>1, <2>2, <2>3 DEF Commit, FlushMeta, Goto, TypeOK
  <2>7. StatusIsCurrent'
    <3>1. \A e \in Execution \ {task[w]} : metaRow'[e] = metaRow[e] /\ status'[e] = status[e]
      BY <2>1 DEF Commit, FlushMeta, TypeOK
    <3>2. metaRow'[task[w]] = attempt[w] /\ runs' = runs /\ task' = task /\ sawMeta' = sawMeta
      BY <2>1, <2>2 DEF Commit, FlushMeta, TypeOK
    <3>3. \A e \in Execution : metaRow'[e] # 0 => status'[e] = runs'[e][metaRow'[e]]
      BY <1>a, <2>4, <3>1, <3>2
    <3>4. \A v \in Worker : pc'[v] \in {"write", "readData", "commit"}
            => v # w /\ pc'[v] = pc[v]
      BY <2>1 DEF Commit, Goto, TypeOK
    <3>5. \A v \in Worker : pc'[v] \in {"write", "readData", "commit"}
            => sawMeta'[v] = status'[task'[v]]
      BY <1>a, <2>5, <3>1, <3>2, <3>4 DEF TypeOK
    <3>6. QED
      BY <3>3, <3>5
  <2>8. Claimed' /\ Backed'
    BY <1>a, <2>1 DEF Commit, Goto, redis, faults, TypeOK
  <2>9. QED
    BY <2>6, <2>7, <2>8
<1>15. CASE \E w \in Worker : CommitCollides(w)
    BY <1>15, ConstantsAssumption, <1>a, <1>b, SMTT(30) DEF CommitCollides, Goto, network, locals, redis, database, settings, faults, TypeOK
<1>16. CASE \E w \in Worker : Release(w)
    BY <1>16, ConstantsAssumption, <1>a, <1>b, SMTT(30) DEF Release, Goto, network, locals, redis, database, settings, faults, TypeOK
<1>17. CASE \E w \in Worker : ReleaseUnavailable(w)
  <2>1. PICK w \in Worker : ReleaseUnavailable(w)
    BY <1>17
  <2>2. QED
    BY <2>1, ConstantsAssumption, <1>a, <1>b, SMTT(30)
    DEF ReleaseUnavailable, Abandoned, Goto, network, locals, redis, database, settings, faults, TypeOK
<1>18. CASE \E w \in Worker : Ack(w)
    BY <1>18, ConstantsAssumption, <1>a, <1>b, SMTT(30) DEF Ack, Goto, network, locals, redis, database, settings, faults, TypeOK
<1>19. CASE \E w \in Worker : BodyRaises(w)
    BY <1>19, ConstantsAssumption, <1>a, <1>b, SMTT(30) DEF BodyRaises, Goto, network, locals, redis, database, settings, faults, TypeOK
<1>20. CASE \E w \in Worker : LoseWorker(w)
  <2>1. PICK w \in Worker : LoseWorker(w)
    BY <1>20
  <2>2. QED
    BY <2>1, ConstantsAssumption, <1>a, <1>b, SMTT(30)
    DEF LoseWorker, Abandoned, Goto, network, locals, redis, database, settings, faults, TypeOK
<1>21. CASE UNCHANGED vars
    BY <1>21, <1>a, ConstantsAssumption DEF vars, Goto, network, locals, redis, database, settings, faults, TypeOK
<1>22. QED
    BY <1>1, <1>2, <1>3, <1>4, <1>5, <1>6, <1>7, <1>8, <1>9, <1>10, <1>11, <1>12, <1>13, <1>14, <1>15, <1>16, <1>17, <1>18, <1>19, <1>20, <1>21 DEF Next, TaskStep

\* As long as Redis answers and no key expires under its task, no two workers
\* run the same execution at the same time, whatever the broker duplicates
\* and whichever workers are lost.
THEOREM OneRunner == Spec => []OneRunnerPerExecution
<1>1. ClaimInv => OneRunnerPerExecution
  BY DEF ClaimInv, Claimed, OneRunnerPerExecution, Running
<1>2. StoreInv => SavesARun
  BY DEF StoreInv
<1>3. QED
  BY <1>1, <1>2, InitTypeOK, NextTypeOK, InitStoreInv, NextStoreInv, InitClaimInv,
     NextClaimInv, PTL DEF Spec

\* Under the same condition a key always has a running task behind it, unless
\* a worker was lost.
THEOREM ClaimsAlwaysBacked == Spec => []ClaimsAreBacked
<1>1. ClaimInv => ClaimsAreBacked
  BY DEF ClaimInv, Backed, ClaimsAreBacked
<1>2. StoreInv => SavesARun
  BY DEF StoreInv
<1>3. QED
  BY <1>1, <1>2, InitTypeOK, NextTypeOK, InitStoreInv, NextStoreInv, InitClaimInv,
     NextClaimInv, PTL DEF Spec

\* The two rows of an execution are committed together, in the db store with
\* the data of the same run even when several workers save at once and none
\* of them has a claim; as long as the claims hold, the status is that of the
\* run too.
THEOREM RowsAlwaysAgree == Spec => []RowsAgree
<1>1. StoreInv /\ ClaimInv => RowsAgree
  BY DEF StoreInv, RowsPaired, ClaimInv, StatusIsCurrent, RowsAgree
<1>2. StoreInv => SavesARun
  BY DEF StoreInv
<1>3. QED
  BY <1>1, <1>2, InitTypeOK, NextTypeOK, InitStoreInv, NextStoreInv, InitClaimInv,
     NextClaimInv, PTL DEF Spec

\* As long as the claims hold, no step replaces a saved run by an older one.
THEOREM LaterRunsAlwaysWin == Spec => LaterRunsWin
<1>1. TypeOK /\ StoreInv /\ ClaimInv /\ ClaimInv' /\ [Next]_vars
        => [claims' = "sound" => \A e \in Execution : metaRow'[e] >= metaRow[e]]_vars
  <2> SUFFICES ASSUME TypeOK, StoreInv, ClaimInv, ClaimInv', [Next]_vars, claims' = "sound"
               PROVE  \A e \in Execution : metaRow'[e] >= metaRow[e]
    OBVIOUS
  <2>1. CASE \E w \in Worker : Commit(w)
    <3>1. PICK w \in Worker : Commit(w)
      BY <2>1
    <3>2. claims = "sound"
      BY <3>1 DEF Commit, redis
    <3>3. \A e \in Execution : metaRow[e] \in Nat /\ Len(runs[e]) \in Nat
      BY DEF TypeOK
    <3>4. attempt[w] = Len(runs[task[w]]) /\ metaRow[task[w]] <= Len(runs[task[w]])
      BY <3>1, <3>2 DEF Commit, TypeOK, ClaimInv, HoldsLatestRun
    <3>5. \A e \in Execution : metaRow'[e] = IF e = task[w] THEN attempt[w] ELSE metaRow[e]
      BY <3>1 DEF Commit, FlushMeta, TypeOK
    <3>6. QED
      BY <3>3, <3>4, <3>5
  <2>2. CASE UNCHANGED metaRow
    BY <2>2 DEF TypeOK
  <2>3. Next => UNCHANGED metaRow \/ \E w \in Worker : Commit(w)
    BY DEF Next, TaskStep, Enqueue, Duplicate, Expire, Deliver, ClaimWon,
           ClaimLost, ClaimUnavailable, WorkflowMissing, WorkflowLoaded,
           RunWorkflow, ReadMeta, WritePayload, ReadData, CommitCollides,
           Release, ReleaseUnavailable, Ack, BodyRaises, LoseWorker, database
  <2>4. QED
    BY <2>1, <2>2, <2>3 DEF vars, database
<1>2. StoreInv => SavesARun
  BY DEF StoreInv
<1>3. QED
  BY <1>1, <1>2, InitTypeOK, NextTypeOK, InitStoreInv, NextStoreInv, InitClaimInv,
     NextClaimInv, PTL DEF Spec, LaterRunsWin
=============================================================================
