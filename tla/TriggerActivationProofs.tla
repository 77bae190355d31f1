---------------------- MODULE TriggerActivationProofs ----------------------
(***************************************************************************)
(* What holds of the activation of triggers for every number of workflows, *)
(* requests, trigger nodes and crashes: what may be relied on for a        *)
(* workflow whose requests have not overlapped, whatever others do.        *)
(***************************************************************************)
EXTENDS TriggerActivation, FiniteSetTheorems, TLAPS

-----------------------------------------------------------------------------
(* The type.                                                                *)

\* Every trigger node anybody may want.
Triggers == UNION {UNION {UNION {ToSet(d) : d \in s[w]} : w \in Workflow} : s \in Situations}
Nodes == {t.node : t \in Triggers}
Kind == {"webhook", "schedule"}
Row == [id : Nat, workflow : Workflow, node : Nodes, kind : Kind,
        key : {t.key : t \in Triggers}, supported : BOOLEAN]
Txn == [inserted : SUBSET Row, deleted : SUBSET Row, broken : BOOLEAN]
InFlight ==
  [pc : {"list", "drop", "delete", "commit", "register", "flag"}, workflow : Workflow,
   op : {"activate", "deactivate"}, read : Seq(Triggers), kind : Kind,
   listed : SUBSET Row, todo : Seq(Triggers), errors : BOOLEAN,
   next : {"register", "flag", "reject"}]

\* Everything that has an id of its own.
Entries == rows \cup registry \cup Pending

TypeOK ==
  /\ offered \in Situations
  /\ definition \in [Workflow -> Seq(Triggers)]
  /\ \A w \in Workflow : definition[w] \in offered[w]
  /\ present \subseteq Workflow
  /\ rows \subseteq Row /\ registry \subseteq Row /\ jobs \subseteq Workflow \X Nodes
  /\ req \in [Request -> {Idle} \cup InFlight]
  /\ txn \in [Request -> Txn]
  /\ overlapped \subseteq Workflow /\ events \in Nat
  /\ IsFiniteSet(Entries)

-----------------------------------------------------------------------------
(* The inductive invariant.                                                 *)

Working(r) == req[r].pc # "idle"
TearingDown(r) == req[r].pc \in {"list", "drop", "delete", "commit"}
Own(r, S) == {x \in S : x.workflow = req[r].workflow}

\* How many of the trigger nodes the loop of activate() is past.
Past(r) == Len(req[r].read) - Len(req[r].todo)

\* The loop of activate() reads its list from the front: what is left of it is
\* the rest of what was read.
LoopAt(r) ==
  /\ Len(req[r].todo) <= Len(req[r].read)
  /\ \A i \in 1 .. Len(req[r].todo) : req[r].todo[i] = req[r].read[Past(r) + i]

\* What deactivate() has listed and is about to unregister, or has deleted.
Touched(r) == txn[r].deleted \cup (IF req[r].pc = "drop" THEN req[r].listed ELSE {})

\* What a request and its session hold, by where the request is.
SessionInv ==
  \A r \in Request :
    /\ ~Working(r) \/ req[r].pc = "flag" => txn[r] = NoTxn
    /\ TearingDown(r) => txn[r].inserted = {} /\ ~txn[r].broken
    /\ Working(r) =>
         /\ req[r].read \in offered[req[r].workflow]
         /\ \A x \in txn[r].inserted \cup Touched(r) : x.workflow = req[r].workflow
    /\ req[r].pc = "register" =>
         txn[r].deleted = {} /\ LoopAt(r)

\* Every row, those of open transactions too.
Held == rows \cup Pending

\* Every row and entry anybody still refers to.
Known == Held \cup registry \cup UNION {Touched(r) : r \in Request}

\* uq_webhooks_path_method, with the rows not yet committed.
KeysInv == \A x, y \in WebhookRows(Held) : x.key = y.key => x = y

\* Only webhooks are registered.
RegistryInv == registry = WebhookRows(registry)

\* A row or an entry is there because some version of its workflow wants it.
WantedInv ==
  \A x \in Known :
    \E t \in Wanted(x.workflow) :
      /\ t.key = x.key
      /\ x.supported <=> t.kind # "unsupported"
      /\ x.kind = "webhook" <=> t.kind \in Webhooks

\* A request for a workflow whose requests have not overlapped.
Clean(r) == Working(r) /\ req[r].workflow \notin overlapped

\* It is the only one for its workflow.
OneInv == \A r, q \in Request :
            Clean(r) /\ Working(q) /\ req[r].workflow = req[q].workflow => r = q

\* What its deactivate() listed and deleted is what there is of the workflow: nobody
\* else adds to it or takes from it.  Behind the teardown there is nothing.
RowsOf(r) ==
  /\ req[r].pc = "drop" => req[r].listed = {x \in Own(r, rows) : x.kind = req[r].kind}
  /\ req[r].pc \in {"list", "drop", "delete"} =>
       txn[r].deleted = IF req[r].kind = "schedule" THEN WebhookRows(Own(r, rows)) ELSE {}
  /\ req[r].pc = "commit" => txn[r].deleted = Own(r, rows)
  /\ req[r].pc = "register" => Own(r, rows) = {}

RowsInv == \A r \in Request : Clean(r) => RowsOf(r)

\* The row of t is in the transaction, and its entry or job is in service.
Begun(r, t) ==
  \E x \in txn[r].inserted :
    \/ t.kind = "webhook" /\ x.kind = "webhook" /\ x.key = t.key /\ x \in registry
    \/ t.kind = "schedule" /\ x.kind = "schedule" /\ x.node = t.node /\ JobId(x) \in jobs

\* Without an error so far, every trigger node the loop is past has begun.
LoopOf(r) ==
  req[r].pc = "register" /\ ~req[r].errors =>
    /\ ~txn[r].broken
    /\ \A i \in 1 .. Past(r) : Begun(r, req[r].read[i])
LoopInv == \A r \in Request : Working(r) /\ Orderly(req[r].workflow) => LoopOf(r)

\* The webhook rows of the transaction are for nodes the loop is past.
PastOf(r) ==
  req[r].pc = "register" =>
    \A x \in WebhookRows(txn[r].inserted) :
      \E i \in 1 .. Past(r) : req[r].read[i].kind \in Webhooks /\ req[r].read[i].key = x.key
PastInv == \A r \in Request : PastOf(r)

\* The teardown of r has taken its rows of this kind out of service.
Dropped(r, kind) ==
  \/ req[r].pc = "commit"
  \/ req[r].pc = "delete" /\ (kind = "webhook" \/ req[r].kind = "schedule")
  \/ req[r].pc \in {"list", "drop"} /\ kind = "webhook" /\ req[r].kind = "schedule"

\* What should be in service: every row but the ones a teardown is past.
Hides(r, x) == Working(r) /\ req[r].workflow = x.workflow /\ Dropped(r, x.kind)
Served == {x \in Held : \A r \in Request : ~Hides(r, x)}

LiveOf(w) ==
  /\ Of(w, registry) = Of(w, WebhookRows(Served))
  /\ {j \in jobs : j[1] = w} = Jobs(Of(w, Served))

LiveInv ==
  /\ up
  /\ \A w \in Workflow \ overlapped : LiveOf(w)
  /\ \A r \in Request : Clean(r) => ~txn[r].broken

IInv ==
  /\ TypeOK /\ SessionInv /\ KeysInv /\ RegistryInv /\ WantedInv /\ OneInv /\ RowsInv
  /\ LoopInv /\ PastInv
  /\ RoutesAreDistinct => LiveInv

-----------------------------------------------------------------------------
(* Lemmas about the type.                                                   *)

\* A version of a workflow is a list of triggers.
LEMMA VersionsAreLists ==
  ASSUME offered \in Situations, NEW w \in Workflow, NEW d \in offered[w]
  PROVE  d \in Seq(Triggers) /\ ToSet(d) \subseteq Triggers
<1>1. ToSet(d) \subseteq Triggers
  BY DEF Triggers
<1>2. d \in Seq(ToSet(d))
  BY SituationsAssumption
<1> QED
  BY <1>1, <1>2

\* Among one more numbers than there are entries, one is nobody's id.
LEMMA FreeNumber ==
  ASSUME NEW S, IsFiniteSet(S)
  PROVE  /\ Cardinality(S) \in Nat
         /\ \E n \in 1 .. Cardinality(S) + 1 : \A x \in S : x.id # n
<1> DEFINE places == 1 .. Cardinality(S) + 1
           f == [n \in places |-> CHOOSE x \in S : x.id = n]
<1>1. Cardinality(S) \in Nat
  BY FS_CardinalityType
<1>2. IsFiniteSet(places) /\ Cardinality(S) < Cardinality(places)
  BY <1>1, FS_Interval
<1>3. ASSUME \A n \in places : \E x \in S : x.id = n PROVE FALSE
  <2>1. \A n \in places : f[n] \in S /\ f[n].id = n
    BY <1>3
  <2>2. f \in [places -> S]
    BY <2>1
  <2> HIDE DEF f, places
  <2>3. \E m, n \in places : m # n /\ f[m] = f[n]
    BY <1>2, <2>2, FS_PigeonHole
  <2> QED
    BY <2>1, <2>3
<1> QED
  BY <1>1, <1>3

\* new_webhook_id() finds its id.
LEMMA FreshIdExists ==
  ASSUME IsFiniteSet(Entries)
  PROVE  FreshId \in Nat
<1>1. /\ Cardinality(Entries) \in Nat
      /\ \E n \in 1 .. Cardinality(Entries) + 1 : \A x \in Entries : x.id # n
  BY FreeNumber
<1>2. FreshId \in 1 .. Cardinality(Entries) + 1
  BY <1>1 DEF FreshId, Entries
<1> QED
  BY <1>1, <1>2

\* A new row has the type of a row, and is for the node at the head of the loop.
LEMMA NewRowType ==
  ASSUME TypeOK, NEW r \in Request, Registering(r, Webhooks \cup {"schedule"})
  PROVE  /\ NewRow(r) \in Row
         /\ NewRow(r).workflow = req[r].workflow
         /\ NewRow(r).node = Current(r).node
         /\ NewRow(r).key = Current(r).key
         /\ NewRow(r).kind = IF Current(r).kind = "schedule" THEN "schedule" ELSE "webhook"
         /\ NewRow(r).supported <=> Current(r).kind # "unsupported"
<1>1. req[r] \in InFlight /\ req[r].todo # <<>>
  BY DEF TypeOK, Registering, Idle
<1>2. req[r].todo \in Seq(Triggers) /\ req[r].workflow \in Workflow
  BY <1>1 DEF InFlight
<1>3. Current(r) \in Triggers
  BY <1>1, <1>2 DEF Current
<1>4. Current(r).node \in Nodes /\ Current(r).key \in {t.key : t \in Triggers}
  BY <1>3 DEF Nodes
<1>5. FreshId \in Nat
  BY FreshIdExists DEF TypeOK
<1> QED
  BY <1>2, <1>4, <1>5 DEF NewRow, Row, Kind

\* No step but a registration adds an entry.
LEMMA NothingNew ==
  ASSUME TypeOK, rows' \subseteq rows \cup Pending, registry' \subseteq registry \cup rows,
         Pending' \subseteq Pending
  PROVE  IsFiniteSet(Entries')
<1>1. Entries' \in SUBSET Entries
  BY DEF Entries
<1> QED
  BY <1>1, FS_Subset DEF TypeOK

\* A transaction that is not touched, or loses rows it inserted.
LEMMA PendingOf ==
  ASSUME NEW r \in Request, NEW x \in txn[r].inserted
  PROVE  x \in Pending
BY DEF Pending

\* A request that works has the type of one.
LEMMA WorkingType ==
  ASSUME TypeOK, NEW r \in Request, Working(r)
  PROVE  req[r] \in InFlight
BY DEF TypeOK, Working, Idle

\* Every step of deactivate() keeps the type.
LEMMA TeardownKeepsType ==
  ASSUME TypeOK, NEW r \in Request, Teardown(r)
  PROVE  TypeOK'
<1>0. Working(r) /\ req[r] \in InFlight /\ txn[r] \in Txn
  BY WorkingType DEF TypeOK, Teardown, ListRows, DropLive, DropLiveRaises, DeleteRows,
                     CommitTeardown, Working
<1>1. UNCHANGED <<stored, overlapped, events>>
  BY DEF Teardown, ListRows, DropLive, DropLiveRaises, DeleteRows, CommitTeardown, process
<1>2. Visible(r) \subseteq Row
  BY <1>0 DEF Visible, Txn, TypeOK
<1>3. NoTxn \in Txn
  BY DEF NoTxn, Txn
<1>4. /\ req' \in [Request -> {Idle} \cup InFlight] /\ txn' \in [Request -> Txn]
      /\ rows' \subseteq Row /\ registry' \subseteq Row /\ jobs' \subseteq Workflow \X Nodes
  <2>1. CASE ListRows(r)
    BY <1>0, <1>2, <2>1 DEF ListRows, InFlight, TypeOK, Kind
  <2>2. CASE DropLive(r)
    BY <1>0, <2>2 DEF DropLive, Unregistered, InFlight, TypeOK
  <2>3. CASE DropLiveRaises(r)
    BY <1>0, <1>3, <2>3 DEF DropLiveRaises, Unregistered, TypeOK
  <2>4. CASE DeleteRows(r)
    BY <1>0, <1>2, <2>4 DEF DeleteRows, InFlight, Txn, TypeOK, Kind
  <2>5. CASE CommitTeardown(r)
    BY <1>0, <1>3, <2>5 DEF CommitTeardown, InFlight, Txn, TypeOK
  <2> QED
    BY <2>1, <2>2, <2>3, <2>4, <2>5 DEF Teardown
<1>5. Pending' \subseteq Pending /\ rows' \subseteq rows \cup Pending /\ registry' \subseteq registry
  <2>1. \A q \in Request : txn'[q].inserted \subseteq txn[q].inserted
    <3>1. CASE txn' = txn
      BY <3>1
    <3>2. CASE txn' = [txn EXCEPT ![r] = NoTxn]
      BY <3>2 DEF NoTxn, TypeOK
    <3>3. CASE DeleteRows(r)
      BY <1>0, <3>3 DEF DeleteRows, TypeOK, Txn
    <3> QED
      BY <3>1, <3>2, <3>3 DEF Teardown, ListRows, DropLive, DropLiveRaises, CommitTeardown
  <2>2. rows' \subseteq rows \cup txn[r].inserted
    BY DEF Teardown, ListRows, DropLive, DropLiveRaises, DeleteRows, CommitTeardown
  <2>3. registry' \subseteq registry
    BY DEF Teardown, ListRows, DropLive, DropLiveRaises, DeleteRows, CommitTeardown, Unregistered
  <2> QED
    BY <2>1, <2>2, <2>3 DEF Pending
<1>6. IsFiniteSet(Entries')
  BY <1>5, NothingNew
<1> QED
  BY <1>1, <1>4, <1>6 DEF TypeOK, stored

\* Every step of activate() keeps the type.
LEMMA RegisterKeepsType ==
  ASSUME TypeOK, NEW r \in Request, Register(r)
  PROVE  TypeOK'
<1>0. Working(r) /\ req[r] \in InFlight /\ txn[r] \in Txn
  BY WorkingType DEF TypeOK, Register, RegisterRefused, RegisterCollides, RegisterWebhook,
                     RegisterSchedule, CommitRaises, CommitActivate, Registering, Working
<1>1. UNCHANGED <<stored, overlapped, events>>
  BY DEF Register, RegisterRefused, RegisterCollides, RegisterWebhook, RegisterSchedule,
         CommitRaises, CommitActivate, process
<1>2. NoTxn \in Txn /\ [NoTxn EXCEPT !.broken = TRUE] \in Txn
  BY DEF NoTxn, Txn
<1>3. ASSUME req[r].todo # <<>>, NEW failed \in BOOLEAN, Advance(r, failed)
      PROVE  req' \in [Request -> {Idle} \cup InFlight]
  <2>1. Tail(req[r].todo) \in Seq(Triggers)
    BY <1>0, <1>3 DEF InFlight
  <2> QED
    BY <1>0, <1>3, <2>1 DEF Advance, InFlight, TypeOK
<1>4. CASE RegisterRefused(r) \/ RegisterCollides(r)
  <2>1. req' \in [Request -> {Idle} \cup InFlight]
    BY <1>3, <1>4 DEF RegisterRefused, RegisterCollides, Registering
  <2>2. /\ txn' \in [Request -> Txn] /\ UNCHANGED <<rows, registry, jobs>>
        /\ \A q \in Request : txn'[q].inserted \subseteq txn[q].inserted
    BY <1>0, <1>2, <1>4 DEF RegisterRefused, RegisterCollides, TypeOK, NoTxn
  <2>3. IsFiniteSet(Entries')
    BY <2>2, NothingNew DEF Pending
  <2> QED
    BY <1>1, <2>1, <2>2, <2>3 DEF TypeOK, stored
<1>5. CASE RegisterWebhook(r) \/ RegisterSchedule(r)
  <2> DEFINE new == NewRow(r)
  <2>1. Registering(r, Webhooks \cup {"schedule"})
    BY <1>5 DEF RegisterWebhook, RegisterSchedule, Registering
  <2>2. new \in Row
    BY <2>1, NewRowType
  <2>3. JobId(new) \in Workflow \X Nodes
    BY <2>2 DEF JobId, Row
  <2>a. req[r].todo # <<>> /\ \E failed \in BOOLEAN : Advance(r, failed)
    <3>1. Refuses(new) \in BOOLEAN
      BY DEF Refuses
    <3> QED
      BY <1>5, <2>1, <3>1 DEF RegisterWebhook, RegisterSchedule, Registering
  <2>4. req' \in [Request -> {Idle} \cup InFlight]
    BY <1>3, <2>a
  <2> HIDE DEF new
  <2>5. /\ txn' = [txn EXCEPT ![r].inserted = @ \cup {new}]
        /\ rows' = rows
        /\ registry' \subseteq registry \cup {new} /\ jobs' \subseteq jobs \cup {JobId(new)}
    BY <1>5 DEF RegisterWebhook, RegisterSchedule, Registered, new
  <2>6. /\ txn' \in [Request -> Txn] /\ rows' \subseteq Row
        /\ registry' \subseteq Row /\ jobs' \subseteq Workflow \X Nodes
    BY <1>0, <2>2, <2>3, <2>5 DEF TypeOK, Txn
  <2>7. IsFiniteSet(Entries')
    <3>1. \A q \in Request : txn'[q].inserted \subseteq txn[q].inserted \cup {new}
      BY <1>0, <2>5 DEF TypeOK, Txn
    <3>2. Entries' \in SUBSET (Entries \cup {new})
      BY <2>5, <3>1 DEF Entries, Pending
    <3>3. IsFiniteSet(Entries \cup {new})
      BY FS_AddElement DEF TypeOK
    <3> QED
      BY <3>2, <3>3, FS_Subset
  <2> QED
    BY <1>1, <2>4, <2>6, <2>7 DEF TypeOK, stored
<1>6. CASE CommitRaises(r) \/ CommitActivate(r)
  <2>1. AfterActivate(req[r]) \in InFlight
    BY <1>0 DEF AfterActivate, InFlight, Kind
  <2>2. req' \in [Request -> {Idle} \cup InFlight]
    BY <1>0, <1>6, <2>1 DEF CommitRaises, CommitActivate, TypeOK
  <2>3. /\ txn' \in [Request -> Txn] /\ rows' \subseteq Row /\ UNCHANGED <<registry, jobs>>
        /\ rows' \subseteq rows \cup txn[r].inserted
        /\ \A q \in Request : txn'[q].inserted \subseteq txn[q].inserted
    <3>1. txn' = [txn EXCEPT ![r] = NoTxn] /\ UNCHANGED <<registry, jobs>>
      BY <1>6 DEF CommitRaises, CommitActivate
    <3>2. rows' \subseteq rows \cup txn[r].inserted
      BY <1>6 DEF CommitRaises, CommitActivate
    <3>3. rows' \subseteq Row
      BY <1>0, <3>2 DEF TypeOK, Txn
    <3>4. \A q \in Request : txn'[q].inserted \subseteq txn[q].inserted
      BY <3>1 DEF TypeOK, NoTxn
    <3>5. txn' \in [Request -> Txn]
      BY <1>2, <3>1 DEF TypeOK
    <3> QED
      BY <3>1, <3>2, <3>3, <3>4, <3>5
  <2>4. IsFiniteSet(Entries')
    <3>1. Pending' \subseteq Pending /\ rows' \subseteq rows \cup Pending
      BY <2>3 DEF Pending
    <3> QED
      BY <2>3, <3>1, NothingNew
  <2> QED
    BY <1>1, <2>2, <2>3, <2>4 DEF TypeOK, stored
<1> QED
  BY <1>4, <1>5, <1>6 DEF Register

\* Every step keeps the type.
LEMMA NextTypeOK == TypeOK /\ SessionInv /\ [Next]_vars => TypeOK'
<1> SUFFICES ASSUME TypeOK, SessionInv, [Next]_vars PROVE TypeOK'
  OBVIOUS
<1>1. CASE \E w \in Workflow : PutWorkflow(w) \/ DeleteWorkflow(w)
  <2>1. PICK w \in Workflow : PutWorkflow(w) \/ DeleteWorkflow(w)
    BY <1>1
  <2>2. /\ UNCHANGED <<offered, rows, registry, jobs, req, txn, overlapped>>
        /\ events' = events + 1 /\ present' \subseteq present
        /\ definition' = definition \/ \E d \in offered[w] : definition' = [definition EXCEPT ![w] = d]
    BY <2>1 DEF PutWorkflow, DeleteWorkflow, Happens
  <2>3. \A d \in offered[w] : d \in Seq(Triggers)
    BY VersionsAreLists DEF TypeOK
  <2>4. IsFiniteSet(Entries')
    BY <2>2, NothingNew DEF Pending
  <2>5. definition' \in [Workflow -> Seq(Triggers)] /\ \A v \in Workflow : definition'[v] \in offered'[v]
    BY <2>2, <2>3 DEF TypeOK
  <2> QED
    BY <2>2, <2>4, <2>5 DEF TypeOK
<1>2. ASSUME NEW r \in Request, Receive(r) PROVE TypeOK'
  <2>1. PICK w \in present, op \in {"activate", "deactivate"} :
          req' = [req EXCEPT ![r] =
            [pc |-> "list", workflow |-> w, op |-> op, read |-> definition[w],
             kind |-> "webhook", listed |-> {}, todo |-> <<>>, errors |-> FALSE,
             next |-> IF op = "activate" THEN "register" ELSE "flag"]]
    BY <1>2 DEF Receive
  <2>2. /\ UNCHANGED <<stored, rows, registry, jobs, txn>> /\ events' = events + 1
        /\ overlapped' \subseteq overlapped \cup present
    BY <1>2 DEF Receive, Happens
  <2>3. req'[r] \in InFlight
    BY <2>1 DEF InFlight, TypeOK, Kind
  <2>4. IsFiniteSet(Entries')
    BY <2>2, NothingNew DEF Pending
  <2> QED
    BY <2>1, <2>2, <2>3, <2>4 DEF TypeOK, stored, process
<1>3. ASSUME NEW r \in Request, SetFlag(r) \/ SetFlagMissing(r) PROVE TypeOK'
  <2> DEFINE w == req[r].workflow
  <2>1. /\ req' = [req EXCEPT ![r] = Idle] /\ req[r].pc = "flag"
        /\ UNCHANGED <<offered, present, rows, registry, jobs, txn, process>>
        /\ definition' = definition \/ definition' = [definition EXCEPT ![w] = req[r].read]
    BY <1>3 DEF SetFlag, SetFlagMissing, stored
  <2>2. Working(r)
    BY <2>1 DEF Working
  <2>3. req[r] \in InFlight /\ req[r].read \in offered[w]
    BY <2>2, WorkingType DEF SessionInv
  <2>4. w \in Workflow /\ req[r].read \in Seq(Triggers)
    BY <2>3 DEF InFlight
  <2> HIDE DEF w
  <2>5. definition' \in [Workflow -> Seq(Triggers)] /\ \A v \in Workflow : definition'[v] \in offered'[v]
    BY <2>1, <2>3, <2>4 DEF TypeOK
  <2>6. IsFiniteSet(Entries')
    BY <2>1, NothingNew DEF Pending
  <2> QED
    BY <2>1, <2>5, <2>6 DEF TypeOK, process
<1>4. CASE Restart
  <2>1. \A x \in rows : x \in Row /\ (x.kind = "schedule" => JobId(x) \in Workflow \X Nodes)
    BY DEF TypeOK, Row, JobId
  <2>2. registry' \subseteq rows /\ registry' \subseteq Row /\ jobs' \subseteq Workflow \X Nodes
    BY <1>4, <2>1 DEF Restart, WebhookRows, WarmJobs, Jobs
  <2>3. /\ UNCHANGED <<stored, rows>> /\ events' \in Nat /\ overlapped' = {}
        /\ req' \in [Request -> {Idle}] /\ txn' \in [Request -> {NoTxn}]
    BY <1>4 DEF Restart, Happens, TypeOK
  <2>4. NoTxn \in Txn
    BY DEF NoTxn, Txn
  <2>5. IsFiniteSet(Entries')
    <3>1. Pending' = {}
      BY <2>3 DEF Pending, NoTxn
    <3> QED
      BY <2>2, <2>3, <3>1, NothingNew
  <2> QED
    BY <2>2, <2>3, <2>4, <2>5 DEF TypeOK, stored
<1>5. CASE UNCHANGED vars
  <2>1. IsFiniteSet(Entries')
    BY <1>5, NothingNew DEF Pending, vars
  <2> QED
    BY <1>5, <2>1 DEF TypeOK, vars, stored, process
<1>6. ASSUME NEW r \in Request, Teardown(r) \/ Register(r) PROVE TypeOK'
  BY <1>6, TeardownKeepsType, RegisterKeepsType
<1> QED
  BY <1>1, <1>2, <1>3, <1>4, <1>5, <1>6 DEF Next

-----------------------------------------------------------------------------
(* What each step of a request does to the request, to its session and to    *)
(* everything else.                                                          *)

\* A step of r leaves the other requests alone.
Frame(r) ==
  /\ offered' = offered /\ up' = up /\ overlapped' = overlapped
  /\ Working(r) /\ req[r] \in InFlight /\ txn[r] \in Txn
  /\ \A q \in Request \ {r} : req'[q] = req[q] /\ txn'[q] = txn[q]

\* The request goes on with the same workflow, as it read it.
GoesOn(r) ==
  /\ req'[r] \in InFlight
  /\ req'[r].workflow = req[r].workflow /\ req'[r].read = req[r].read

\* The request is answered.
Ends(r) == req'[r] = Idle /\ txn'[r] = NoTxn

\* list_for_workflow
ListRowsEffect(r) ==
  /\ Frame(r) /\ GoesOn(r) /\ txn'[r] = txn[r]
  /\ req[r].pc = "list" /\ req'[r].pc = "drop" /\ req'[r].kind = req[r].kind
  /\ req'[r].listed = {x \in Own(r, Visible(r)) : x.kind = req[r].kind}
  /\ UNCHANGED <<rows, registry, jobs>>

\* unregister of what was listed
DropLiveEffect(r) ==
  /\ Frame(r) /\ GoesOn(r) /\ txn'[r] = txn[r]
  /\ req[r].pc = "drop" /\ req'[r].pc = "delete" /\ req'[r].kind = req[r].kind
  /\ registry' = Unregistered(req[r].listed) /\ jobs' = jobs \ Jobs(req[r].listed)
  /\ rows' = rows

\* unregister that raises
DropLiveRaisesEffect(r) ==
  /\ Frame(r) /\ Ends(r) /\ UNCHANGED <<rows, jobs>>
  /\ req[r].pc = "drop" /\ ~Supported(req[r].listed)
  /\ \E X \in SUBSET req[r].listed : registry' = Unregistered(X)

\* delete_for_workflow
DeleteRowsEffect(r) ==
  /\ Frame(r) /\ GoesOn(r) /\ UNCHANGED <<rows, registry, jobs>>
  /\ req[r].pc = "delete" /\ req'[r].kind = "schedule"
  /\ req'[r].pc = IF req[r].kind = "webhook" THEN "list" ELSE "commit"
  /\ txn'[r].inserted = txn[r].inserted /\ txn'[r].broken = txn[r].broken
  /\ txn'[r].deleted = txn[r].deleted \cup {x \in Own(r, Visible(r)) : x.kind = req[r].kind}

\* the commit of deactivate()
CommitTeardownEffect(r) ==
  /\ Frame(r) /\ txn'[r] = NoTxn /\ UNCHANGED <<registry, jobs>>
  /\ req[r].pc = "commit" /\ rows' = (rows \ txn[r].deleted) \cup txn[r].inserted
  /\ \/ Ends(r)
     \/ GoesOn(r) /\ req'[r].pc \in {"register", "flag"} /\ req'[r].todo = req[r].read
        /\ req'[r].errors = req[r].errors

\* Every step of deactivate() has its effect.
LEMMA TeardownEffects ==
  ASSUME TypeOK, NEW r \in Request
  PROVE  /\ ListRows(r) => ListRowsEffect(r)
         /\ DropLive(r) => DropLiveEffect(r)
         /\ DropLiveRaises(r) => DropLiveRaisesEffect(r)
         /\ DeleteRows(r) => DeleteRowsEffect(r)
         /\ CommitTeardown(r) => CommitTeardownEffect(r)
<1>0. ASSUME Working(r) PROVE req[r] \in InFlight /\ txn[r] \in Txn
  BY <1>0, WorkingType DEF TypeOK
<1>1. ASSUME ListRows(r) PROVE ListRowsEffect(r)
  <2>1. Working(r) /\ req[r] \in InFlight /\ txn[r] \in Txn
    BY <1>0, <1>1 DEF ListRows, Working
  <2>2. Visible(r) \subseteq Row
    BY <2>1 DEF Visible, Txn, TypeOK
  <2>3. GoesOn(r) /\ req'[r].pc = "drop" /\ req'[r].kind = req[r].kind
        /\ req'[r].listed = {x \in Own(r, Visible(r)) : x.kind = req[r].kind}
    BY <1>1, <2>1, <2>2 DEF ListRows, GoesOn, InFlight, TypeOK, Own
  <2> QED
    BY <1>1, <2>1, <2>3 DEF ListRows, ListRowsEffect, Frame, TypeOK, process, stored
<1>2. ASSUME DropLive(r) PROVE DropLiveEffect(r)
  <2>1. Working(r) /\ req[r] \in InFlight /\ txn[r] \in Txn
    BY <1>0, <1>2 DEF DropLive, Working
  <2>2. GoesOn(r) /\ req'[r].pc = "delete" /\ req'[r].kind = req[r].kind
    BY <1>2, <2>1 DEF DropLive, GoesOn, InFlight, TypeOK
  <2> QED
    BY <1>2, <2>1, <2>2 DEF DropLive, DropLiveEffect, Frame, TypeOK, process, stored
<1>3. ASSUME DropLiveRaises(r) PROVE DropLiveRaisesEffect(r)
  <2>1. Working(r) /\ req[r] \in InFlight /\ txn[r] \in Txn
    BY <1>0, <1>3 DEF DropLiveRaises, Working
  <2>2. \E X \in SUBSET req[r].listed : registry' = Unregistered(X)
    BY <1>3 DEF DropLiveRaises
  <2> QED
    BY <1>3, <2>1, <2>2 DEF DropLiveRaises, DropLiveRaisesEffect, Ends, Frame, TypeOK, process, stored
<1>4. ASSUME DeleteRows(r) PROVE DeleteRowsEffect(r)
  <2>1. Working(r) /\ req[r] \in InFlight /\ txn[r] \in Txn
    BY <1>0, <1>4 DEF DeleteRows, Working
  <2>2. GoesOn(r) /\ req'[r].kind = "schedule"
        /\ req'[r].pc = IF req[r].kind = "webhook" THEN "list" ELSE "commit"
    BY <1>4, <2>1 DEF DeleteRows, GoesOn, InFlight, TypeOK, Kind
  <2>3. /\ txn'[r].inserted = txn[r].inserted /\ txn'[r].broken = txn[r].broken
        /\ txn'[r].deleted = txn[r].deleted \cup {x \in Own(r, Visible(r)) : x.kind = req[r].kind}
    BY <1>4, <2>1 DEF DeleteRows, Txn, TypeOK, Own
  <2> QED
    BY <1>4, <2>1, <2>2, <2>3 DEF DeleteRows, DeleteRowsEffect, Frame, TypeOK, process, stored
<1>5. ASSUME CommitTeardown(r) PROVE CommitTeardownEffect(r)
  <2>1. Working(r) /\ req[r] \in InFlight /\ txn[r] \in Txn
    BY <1>0, <1>5 DEF CommitTeardown, Working
  <2>2. CASE req[r].next = "reject"
    BY <1>5, <2>1, <2>2 DEF CommitTeardown, CommitTeardownEffect, Ends, Frame, TypeOK, process, stored
  <2>3. CASE req[r].next # "reject"
    <3>1. /\ GoesOn(r) /\ req'[r].pc \in {"register", "flag"} /\ req'[r].todo = req[r].read
          /\ req'[r].errors = req[r].errors
      BY <1>5, <2>1, <2>3 DEF CommitTeardown, GoesOn, InFlight, TypeOK
    <3> QED
      BY <1>5, <2>1, <3>1 DEF CommitTeardown, CommitTeardownEffect, Frame, TypeOK, process, stored
  <2> QED
    BY <2>2, <2>3
<1> QED
  BY <1>1, <1>2, <1>3, <1>4, <1>5

\* One trigger node of the loop is done with.
AdvanceEffect(r, failed) ==
  /\ GoesOn(r) /\ req[r].pc = "register" /\ req'[r].pc = "register"
  /\ req[r].todo # <<>> /\ req'[r].todo = Tail(req[r].todo)
  /\ ~req'[r].errors => ~req[r].errors /\ ~failed

\* a trigger node that is refused before the session is used
RegisterRefusedEffect(r) ==
  /\ Frame(r) /\ AdvanceEffect(r, TRUE) /\ txn'[r] = txn[r]
  /\ UNCHANGED <<rows, registry, jobs>>

\* an INSERT that fails
RegisterCollidesEffect(r) ==
  /\ Frame(r) /\ AdvanceEffect(r, TRUE)
  /\ txn'[r].inserted = {} /\ txn'[r].deleted = {}
  /\ Current(r).kind \in Webhooks /\ (KeyTaken(r, Current(r)) \/ KeyLocked(r, Current(r)))
  /\ UNCHANGED <<rows, registry, jobs>>

\* a row of r is flushed
Flushed(r) ==
  /\ Frame(r) /\ NewRow(r) \in Row /\ NewRow(r).workflow = req[r].workflow
  /\ NewRow(r).key = Current(r).key /\ NewRow(r).node = Current(r).node
  /\ NewRow(r).supported <=> Current(r).kind # "unsupported"
  /\ ~txn[r].broken /\ txn'[r].broken = txn[r].broken /\ txn'[r].deleted = txn[r].deleted
  /\ txn'[r].inserted = txn[r].inserted \cup {NewRow(r)} /\ rows' = rows

\* _register_webhook
RegisterWebhookEffect(r) ==
  /\ Flushed(r) /\ AdvanceEffect(r, Refuses(NewRow(r)))
  /\ Current(r).kind \in Webhooks /\ NewRow(r).kind = "webhook"
  /\ ~KeyTaken(r, Current(r)) /\ ~KeyLocked(r, Current(r))
  /\ registry' = Registered(NewRow(r)) /\ jobs' = jobs

\* _register_schedule
RegisterScheduleEffect(r) ==
  /\ Flushed(r) /\ AdvanceEffect(r, FALSE)
  /\ Current(r).kind = "schedule" /\ NewRow(r).kind = "schedule"
  /\ registry' = registry /\ jobs' = jobs \cup {JobId(NewRow(r))}

\* the commit of activate() that raises
CommitRaisesEffect(r) ==
  /\ Frame(r) /\ Ends(r) /\ req[r].pc = "register" /\ txn[r].broken
  /\ UNCHANGED <<rows, registry, jobs>>

\* the commit of activate()
CommitActivateEffect(r) ==
  /\ Frame(r) /\ GoesOn(r) /\ txn'[r] = NoTxn
  /\ req[r].pc = "register" /\ req[r].todo = <<>>
  /\ \/ req'[r].pc = "flag" /\ ~req[r].errors
     \/ req'[r].pc = "list" /\ req'[r].kind = "webhook"
  /\ rows' = rows \cup txn[r].inserted /\ UNCHANGED <<registry, jobs>>

\* Every step of activate() has its effect.
LEMMA RegisterEffects ==
  ASSUME TypeOK, NEW r \in Request
  PROVE  /\ RegisterRefused(r) => RegisterRefusedEffect(r)
         /\ RegisterCollides(r) => RegisterCollidesEffect(r)
         /\ RegisterWebhook(r) => RegisterWebhookEffect(r)
         /\ RegisterSchedule(r) => RegisterScheduleEffect(r)
         /\ CommitRaises(r) => CommitRaisesEffect(r)
         /\ CommitActivate(r) => CommitActivateEffect(r)
<1>0. ASSUME req[r].pc = "register" PROVE Working(r) /\ req[r] \in InFlight /\ txn[r] \in Txn
  BY <1>0, WorkingType DEF TypeOK, Working
<1>a. ASSUME req[r].pc = "register", req[r].todo # <<>>, NEW failed \in BOOLEAN, Advance(r, failed)
      PROVE  AdvanceEffect(r, failed) /\ \A q \in Request \ {r} : req'[q] = req[q]
  <2>1. Tail(req[r].todo) \in Seq(Triggers)
    BY <1>0, <1>a DEF InFlight
  <2>2. req'[r] \in InFlight
    BY <1>0, <1>a, <2>1 DEF Advance, InFlight, TypeOK
  <2>3. req'[r].errors = (req[r].errors \/ failed) /\ req[r].errors \in BOOLEAN
    BY <1>0, <1>a DEF Advance, InFlight, TypeOK
  <2> QED
    BY <1>0, <1>a, <2>2, <2>3 DEF Advance, AdvanceEffect, GoesOn, InFlight, TypeOK
<1>1. ASSUME RegisterRefused(r) PROVE RegisterRefusedEffect(r)
  <2>1. req[r].pc = "register" /\ req[r].todo # <<>> /\ Advance(r, TRUE)
        /\ UNCHANGED <<stored, rows, registry, jobs, txn, process>>
    BY <1>1 DEF RegisterRefused, Registering
  <2> QED
    BY <1>0, <1>a, <2>1 DEF RegisterRefusedEffect, Frame, process, stored
<1>2. ASSUME RegisterCollides(r) PROVE RegisterCollidesEffect(r)
  <2>1. req[r].pc = "register" /\ req[r].todo # <<>> /\ Advance(r, TRUE)
        /\ Current(r).kind \in Webhooks /\ (KeyTaken(r, Current(r)) \/ KeyLocked(r, Current(r)))
        /\ UNCHANGED <<stored, rows, registry, jobs, process>>
    BY <1>2 DEF RegisterCollides, Registering
  <2>2. /\ txn'[r].inserted = {} /\ txn'[r].deleted = {}
        /\ \A q \in Request \ {r} : txn'[q] = txn[q]
    BY <1>2 DEF RegisterCollides, NoTxn, TypeOK
  <2> QED
    BY <1>0, <1>a, <2>1, <2>2 DEF RegisterCollidesEffect, Frame, process, stored
<1>3. ASSUME Registering(r, Webhooks \cup {"schedule"}), ~txn[r].broken,
             txn' = [txn EXCEPT ![r].inserted = @ \cup {NewRow(r)}], UNCHANGED <<stored, rows, process>>,
             \A q \in Request \ {r} : req'[q] = req[q]
      PROVE  Flushed(r)
  <2>1. req[r].pc = "register"
    BY <1>3 DEF Registering
  <2>2. /\ txn'[r].inserted = txn[r].inserted \cup {NewRow(r)}
        /\ txn'[r].broken = txn[r].broken /\ txn'[r].deleted = txn[r].deleted
        /\ \A q \in Request \ {r} : txn'[q] = txn[q]
    BY <1>0, <1>3, <2>1 DEF Txn, TypeOK
  <2> QED
    BY <1>0, <1>3, <2>1, <2>2, NewRowType DEF Flushed, Frame, process, stored
<1>4. ASSUME RegisterWebhook(r) PROVE RegisterWebhookEffect(r)
  <2>1. req[r].pc = "register" /\ req[r].todo # <<>> /\ Registering(r, Webhooks \cup {"schedule"})
        /\ Current(r).kind \in Webhooks /\ Current(r).kind # "schedule"
    BY <1>4 DEF RegisterWebhook, Registering, Webhooks
  <2>2. Refuses(NewRow(r)) \in BOOLEAN
    BY DEF Refuses
  <2>3. AdvanceEffect(r, Refuses(NewRow(r))) /\ \A q \in Request \ {r} : req'[q] = req[q]
    BY <1>4, <1>a, <2>1, <2>2 DEF RegisterWebhook
  <2>4. Flushed(r)
    BY <1>3, <1>4, <2>1, <2>3 DEF RegisterWebhook
  <2>5. NewRow(r).kind = "webhook"
    BY <2>1, NewRowType
  <2> QED
    BY <1>4, <2>1, <2>3, <2>4, <2>5 DEF RegisterWebhook, RegisterWebhookEffect
<1>5. ASSUME RegisterSchedule(r) PROVE RegisterScheduleEffect(r)
  <2>1. req[r].pc = "register" /\ req[r].todo # <<>> /\ Registering(r, Webhooks \cup {"schedule"})
        /\ Current(r).kind = "schedule"
    BY <1>5 DEF RegisterSchedule, Registering
  <2>3. AdvanceEffect(r, FALSE) /\ \A q \in Request \ {r} : req'[q] = req[q]
    BY <1>5, <1>a, <2>1 DEF RegisterSchedule
  <2>4. Flushed(r)
    BY <1>3, <1>5, <2>1, <2>3 DEF RegisterSchedule
  <2>5. NewRow(r).kind = "schedule"
    BY <2>1, NewRowType
  <2> QED
    BY <1>5, <2>1, <2>3, <2>4, <2>5 DEF RegisterSchedule, RegisterScheduleEffect
<1>6. ASSUME CommitRaises(r) PROVE CommitRaisesEffect(r)
  BY <1>0, <1>6 DEF CommitRaises, CommitRaisesEffect, Frame, Ends, TypeOK, process, stored
<1>7. ASSUME CommitActivate(r) PROVE CommitActivateEffect(r)
  <2>1. req'[r] = AfterActivate(req[r]) /\ req[r] \in InFlight
    BY <1>0, <1>7 DEF CommitActivate, TypeOK
  <2>2. GoesOn(r) /\ \/ req'[r].pc = "flag" /\ ~req[r].errors
                     \/ req'[r].pc = "list" /\ req'[r].kind = "webhook"
    BY <2>1, ZenonT(60) DEF AfterActivate, GoesOn, InFlight, Kind
  <2> QED
    BY <1>0, <1>7, <2>2 DEF CommitActivate, CommitActivateEffect, Frame, TypeOK, process, stored
<1> QED
  BY <1>1, <1>2, <1>4, <1>5, <1>6, <1>7

\* activate_workflow or deactivate_workflow has read the workflow
ReceiveEffect(r) ==
  /\ ~Working(r) /\ req'[r] \in InFlight /\ req'[r].pc = "list" /\ req'[r].kind = "webhook"
  /\ req'[r].read \in offered[req'[r].workflow]
  /\ overlapped' = overlapped \cup {w \in {req'[r].workflow} : Busy(w)}
  /\ \A q \in Request \ {r} : req'[q] = req[q]
  /\ UNCHANGED <<offered, up, rows, registry, jobs, txn>>

\* repo.update has written the workflow, or found that it is gone
SetFlagEffect(r) ==
  /\ Frame(r) /\ req[r].pc = "flag" /\ req'[r] = Idle /\ txn'[r] = txn[r]
  /\ UNCHANGED <<rows, registry, jobs>>

\* The first and the last step of a request have their effects.
LEMMA EndpointEffects ==
  ASSUME TypeOK, NEW r \in Request
  PROVE  /\ Receive(r) => ReceiveEffect(r)
         /\ SetFlag(r) \/ SetFlagMissing(r) => SetFlagEffect(r)
<1>1. ASSUME Receive(r) PROVE ReceiveEffect(r)
  <2>1. PICK w \in present, op \in {"activate", "deactivate"} :
          /\ overlapped' = overlapped \cup {v \in {w} : Busy(v)}
          /\ req' = [req EXCEPT ![r] =
               [pc |-> "list", workflow |-> w, op |-> op, read |-> definition[w],
                kind |-> "webhook", listed |-> {}, todo |-> <<>>, errors |-> FALSE,
                next |-> IF op = "activate" THEN "register" ELSE "flag"]]
    BY <1>1 DEF Receive
  <2>2. w \in Workflow /\ definition[w] \in Seq(Triggers) /\ definition[w] \in offered[w]
    BY DEF TypeOK
  <2>3. req'[r] \in InFlight
    BY <2>1, <2>2 DEF InFlight, TypeOK, Kind
  <2>4. req'[r].workflow = w /\ req'[r].read = definition[w] /\ req'[r].pc = "list"
        /\ req'[r].kind = "webhook" /\ \A q \in Request \ {r} : req'[q] = req[q]
    BY <2>1 DEF TypeOK
  <2> QED
    BY <1>1, <2>1, <2>2, <2>3, <2>4 DEF Receive, ReceiveEffect, Working, stored
<1>2. ASSUME SetFlag(r) \/ SetFlagMissing(r) PROVE SetFlagEffect(r)
  <2>1. /\ req[r].pc = "flag" /\ req' = [req EXCEPT ![r] = Idle]
        /\ UNCHANGED <<offered, up, overlapped, txn, rows, registry, jobs>>
    BY <1>2 DEF SetFlag, SetFlagMissing, stored, process
  <2>2. Working(r) /\ req[r] \in InFlight /\ txn[r] \in Txn
    BY <2>1, WorkingType DEF TypeOK, Working
  <2> QED
    BY <2>1, <2>2 DEF SetFlagEffect, Frame, TypeOK
<1> QED
  BY <1>1, <1>2

\* What a step of a request does.
Effect(r) ==
  \/ ReceiveEffect(r) \/ SetFlagEffect(r)
  \/ ListRowsEffect(r) \/ DropLiveEffect(r) \/ DropLiveRaisesEffect(r)
  \/ DeleteRowsEffect(r) \/ CommitTeardownEffect(r)
  \/ RegisterRefusedEffect(r) \/ RegisterCollidesEffect(r)
  \/ RegisterWebhookEffect(r) \/ RegisterScheduleEffect(r)
  \/ CommitRaisesEffect(r) \/ CommitActivateEffect(r)

\* What a restart does.
RestartEffect ==
  /\ req' = [r \in Request |-> Idle] /\ txn' = [r \in Request |-> NoTxn]
  /\ up' = Supported(rows) /\ overlapped' = {}
  /\ registry' = (IF up' THEN WebhookRows(rows) ELSE {})
  /\ jobs' = (IF up' THEN Jobs(rows) ELSE {})
  /\ UNCHANGED <<offered, rows>>

\* What the edits of a definition leave alone.
EditEffect == UNCHANGED <<offered, up, overlapped, rows, registry, jobs, req, txn>>

\* Every step has one of these effects.
LEMMA NextEffects ==
  ASSUME TypeOK, [Next]_vars
  PROVE  (\E r \in Request : Effect(r)) \/ RestartEffect \/ EditEffect
<1>1. ASSUME NEW r \in Request, Teardown(r) PROVE Effect(r)
  BY <1>1, TeardownEffects DEF Teardown, Effect
<1>2. ASSUME NEW r \in Request, Register(r) PROVE Effect(r)
  BY <1>2, RegisterEffects DEF Register, Effect
<1>3. ASSUME NEW r \in Request, Receive(r) \/ SetFlag(r) \/ SetFlagMissing(r) PROVE Effect(r)
  BY <1>3, EndpointEffects DEF Effect
<1>4. CASE Restart
  BY <1>4 DEF Restart, RestartEffect, WarmJobs, stored
<1>5. CASE UNCHANGED vars
  BY <1>5 DEF vars, stored, process, EditEffect
<1>6. ASSUME NEW w \in Workflow, PutWorkflow(w) \/ DeleteWorkflow(w) PROVE EditEffect
  BY <1>6 DEF PutWorkflow, DeleteWorkflow, EditEffect, process
<1> QED
  BY <1>1, <1>2, <1>3, <1>4, <1>5, <1>6 DEF Next

-----------------------------------------------------------------------------
(* The invariant is kept, conjunct by conjunct.                             *)

\* What a request and its session hold stays right, for the request that takes
\* the step.
LEMMA OwnSession ==
  ASSUME TypeOK, SessionInv, NEW r \in Request, Effect(r)
  PROVE  /\ ~Working(r)' \/ req'[r].pc = "flag" => txn'[r] = NoTxn
         /\ TearingDown(r)' => txn'[r].inserted = {} /\ ~txn'[r].broken
         /\ Working(r)' =>
              /\ req'[r].read \in offered'[req'[r].workflow]
              /\ \A x \in txn'[r].inserted \cup Touched(r)' : x.workflow = req'[r].workflow
         /\ req'[r].pc = "register" => txn'[r].deleted = {}
<1>0. Idle.pc = "idle" /\ NoTxn.inserted = {} /\ NoTxn.deleted = {} /\ ~NoTxn.broken
  BY DEF Idle, NoTxn
<1>1. CASE ReceiveEffect(r)
  <2>1. txn'[r] = NoTxn
    BY <1>1 DEF ReceiveEffect, SessionInv
  <2> QED
    BY <1>0, <1>1, <2>1 DEF ReceiveEffect, Working, TearingDown, Touched
<1>2. CASE SetFlagEffect(r)
  BY <1>0, <1>2 DEF SetFlagEffect, SessionInv, Working, TearingDown, Touched
<1>3. CASE ListRowsEffect(r)
  BY <1>3 DEF ListRowsEffect, Own, Frame, GoesOn, SessionInv, Working, TearingDown, Touched
<1>4. CASE DropLiveEffect(r)
  BY <1>4 DEF DropLiveEffect, Frame, GoesOn, SessionInv, Working, TearingDown, Touched
<1>5. CASE DropLiveRaisesEffect(r)
  BY <1>0, <1>5 DEF DropLiveRaisesEffect, Ends, Working, TearingDown, Touched
<1>6. CASE DeleteRowsEffect(r)
  BY <1>6 DEF DeleteRowsEffect, Own, Frame, GoesOn, SessionInv, Working, TearingDown, Touched
<1>7. CASE CommitTeardownEffect(r)
  BY <1>0, <1>7 DEF CommitTeardownEffect, Frame, Ends, GoesOn, SessionInv, Working, TearingDown, Touched
<1>8. CASE RegisterRefusedEffect(r)
  BY <1>8 DEF RegisterRefusedEffect, AdvanceEffect, Frame, GoesOn, SessionInv, Working, TearingDown, Touched
<1>9. CASE RegisterCollidesEffect(r)
  BY <1>9 DEF RegisterCollidesEffect, AdvanceEffect, Frame, GoesOn, SessionInv, Working, TearingDown, Touched
<1>10. CASE RegisterWebhookEffect(r)
  BY <1>10 DEF RegisterWebhookEffect, Flushed, AdvanceEffect, Frame, GoesOn, SessionInv, Working, TearingDown, Touched
<1>11. CASE RegisterScheduleEffect(r)
  BY <1>11 DEF RegisterScheduleEffect, Flushed, AdvanceEffect, Frame, GoesOn, SessionInv, Working, TearingDown, Touched
<1>12. CASE CommitRaisesEffect(r)
  BY <1>0, <1>12 DEF CommitRaisesEffect, Ends, Working, TearingDown, Touched
<1>13. CASE CommitActivateEffect(r)
  BY <1>0, <1>13 DEF CommitActivateEffect, Frame, GoesOn, SessionInv, Working, TearingDown, Touched
<1> QED
  BY <1>1, <1>2, <1>3, <1>4, <1>5, <1>6, <1>7, <1>8, <1>9, <1>10, <1>11, <1>12, <1>13 DEF Effect

\* One turn of the loop.
LEMMA LoopAdvances ==
  ASSUME TypeOK, NEW r \in Request, req[r] \in InFlight, LoopAt(r),
         NEW failed, AdvanceEffect(r, failed)
  PROVE  /\ LoopAt(r)' /\ Past(r) \in Nat /\ Past(r)' = Past(r) + 1
         /\ Past(r)' \in 1 .. Len(req[r].read)
         /\ Current(r) = req[r].read[Past(r)']
<1>1. req[r].read \in Seq(Triggers) /\ req[r].todo \in Seq(Triggers) /\ req[r].todo # <<>>
  BY DEF InFlight, AdvanceEffect
<1>2. Len(req[r].todo) \in Nat /\ Len(req[r].read) \in Nat /\ Len(req[r].todo) > 0
  BY <1>1
<1>3. req'[r].todo = Tail(req[r].todo) /\ req'[r].read = req[r].read
  BY DEF AdvanceEffect, GoesOn
<1>4. /\ Len(req'[r].todo) = Len(req[r].todo) - 1
      /\ \A i \in 1 .. Len(req'[r].todo) : req'[r].todo[i] = req[r].todo[i + 1]
  BY <1>1, <1>2, <1>3
<1>5. /\ Past(r) \in Nat /\ Past(r)' = Past(r) + 1 /\ Past(r)' \in 1 .. Len(req[r].read)
  <2>1. Past(r) = Len(req[r].read) - Len(req[r].todo) /\ Len(req[r].todo) <= Len(req[r].read)
    BY DEF Past, LoopAt
  <2>2. Past(r)' = Len(req[r].read) - (Len(req[r].todo) - 1)
    BY <1>3, <1>4 DEF Past
  <2>3. \A m, n \in Nat : n > 0 /\ n <= m =>
          /\ m - n \in Nat /\ m - (n - 1) = (m - n) + 1 /\ m - (n - 1) \in 1 .. m
    OBVIOUS
  <2> QED
    BY <1>2, <2>1, <2>2, <2>3
<1>6. Current(r) = req[r].todo[1]
  BY <1>1 DEF Current
<1>7. req[r].todo[1] = req[r].read[Past(r) + 1]
  BY <1>2 DEF LoopAt
<1>8. \A i \in 1 .. Len(req'[r].todo) : req'[r].todo[i] = req'[r].read[Past(r)' + i]
  <2> TAKE i \in 1 .. Len(req'[r].todo)
  <2>1. i + 1 \in 1 .. Len(req[r].todo)
    BY <1>2, <1>4
  <2>2. req[r].todo[i + 1] = req[r].read[Past(r) + (i + 1)]
    BY <2>1 DEF LoopAt
  <2>3. Past(r) + (i + 1) = Past(r)' + i
    BY <1>5
  <2> QED
    BY <1>3, <1>4, <2>2, <2>3
<1>9. Len(req'[r].todo) <= Len(req'[r].read)
  BY <1>2, <1>3, <1>4 DEF LoopAt
<1> QED
  BY <1>5, <1>6, <1>7, <1>8, <1>9 DEF LoopAt

\* SessionInv is kept.
LEMMA NextSession ==
  ASSUME TypeOK, SessionInv, [Next]_vars
  PROVE  SessionInv'
<1>0. Idle.pc = "idle" /\ NoTxn.inserted = {}
  BY DEF Idle, NoTxn
<1>1. ASSUME NEW r \in Request, Effect(r) PROVE SessionInv'
  <2>1. ASSUME req'[r].pc = "register" PROVE LoopAt(r)'
    <3>1. CASE CommitTeardownEffect(r)
      <4>1. GoesOn(r) /\ req'[r].todo = req[r].read /\ req[r] \in InFlight
        BY <1>0, <2>1, <3>1 DEF CommitTeardownEffect, Ends, Frame
      <4>2. req'[r].todo = req'[r].read /\ req'[r].read \in Seq(Triggers)
        BY <4>1 DEF GoesOn, InFlight
      <4>3. Past(r)' = 0
        BY <4>2 DEF Past
      <4> QED
        BY <4>2, <4>3 DEF LoopAt
    <3>2. ASSUME NEW failed, AdvanceEffect(r, failed), req[r] \in InFlight PROVE LoopAt(r)'
      <4>1. LoopAt(r)
        BY <3>2 DEF SessionInv, AdvanceEffect
      <4> QED
        BY <3>2, <4>1, LoopAdvances
    <3>3. CASE RegisterRefusedEffect(r) \/ RegisterCollidesEffect(r)
      BY <3>2, <3>3 DEF RegisterRefusedEffect, RegisterCollidesEffect, Frame
    <3>4. CASE RegisterWebhookEffect(r) \/ RegisterScheduleEffect(r)
      BY <3>2, <3>4 DEF RegisterWebhookEffect, RegisterScheduleEffect, Flushed, Frame
    <3> QED
      BY <1>0, <1>1, <2>1, <3>1, <3>3, <3>4
      DEF Effect, ReceiveEffect, SetFlagEffect, ListRowsEffect, DropLiveEffect, DropLiveRaisesEffect,
          DeleteRowsEffect, CommitRaisesEffect, CommitActivateEffect, Ends
  <2>2. ASSUME NEW q \in Request, q # r
        PROVE  req'[q] = req[q] /\ txn'[q] = txn[q] /\ offered' = offered
    BY <1>1, <2>2
    DEF Effect, ReceiveEffect, SetFlagEffect, ListRowsEffect, DropLiveEffect, DropLiveRaisesEffect,
        DeleteRowsEffect, CommitTeardownEffect, RegisterRefusedEffect, RegisterCollidesEffect,
        RegisterWebhookEffect, RegisterScheduleEffect, Flushed, CommitRaisesEffect, CommitActivateEffect,
        Frame
  <2>3. ASSUME NEW q \in Request
        PROVE  /\ ~Working(q)' \/ req'[q].pc = "flag" => txn'[q] = NoTxn
               /\ TearingDown(q)' => txn'[q].inserted = {} /\ ~txn'[q].broken
               /\ Working(q)' =>
                    /\ req'[q].read \in offered'[req'[q].workflow]
                    /\ \A x \in txn'[q].inserted \cup Touched(q)' : x.workflow = req'[q].workflow
               /\ req'[q].pc = "register" => txn'[q].deleted = {} /\ LoopAt(q)'
    <3>1. CASE q = r
      BY <1>1, <2>1, <3>1, OwnSession
    <3>2. CASE q # r
      <4>1. LoopAt(q)' <=> LoopAt(q)
        BY <2>2, <3>2 DEF LoopAt, Past
      <4> QED
        BY <2>2, <3>2, <4>1 DEF SessionInv, Working, TearingDown, Touched
    <3> QED
      BY <3>1, <3>2
  <2> QED
    BY <2>3 DEF SessionInv
<1>2. CASE RestartEffect
  BY <1>0, <1>2 DEF RestartEffect, SessionInv, Working, TearingDown
<1>3. CASE EditEffect
  BY <1>3 DEF EditEffect, SessionInv, Working, TearingDown, Touched, LoopAt, Past
<1> QED
  BY <1>1, <1>2, <1>3, NextEffects

\* What every step of a request leaves alone.
LEMMA EffectFrame ==
  ASSUME NEW r \in Request, Effect(r)
  PROVE  /\ offered' = offered /\ up' = up /\ overlapped \subseteq overlapped'
         /\ \A q \in Request \ {r} : req'[q] = req[q] /\ txn'[q] = txn[q]
BY DEF Effect, ReceiveEffect, SetFlagEffect, ListRowsEffect, DropLiveEffect, DropLiveRaisesEffect,
       DeleteRowsEffect, CommitTeardownEffect, RegisterRefusedEffect, RegisterCollidesEffect,
       RegisterWebhookEffect, RegisterScheduleEffect, Flushed, CommitRaisesEffect, CommitActivateEffect,
       Frame

\* A step that flushes no row leaves no new row behind.
LEMMA HeldShrinks ==
  ASSUME NEW r \in Request, Effect(r), ~RegisterWebhookEffect(r), ~RegisterScheduleEffect(r)
  PROVE  Held' \subseteq Held
<1>0. NoTxn.inserted = {}
  BY DEF NoTxn
<1>1. rows' \subseteq rows \cup txn[r].inserted /\ txn'[r].inserted \subseteq txn[r].inserted
  BY <1>0 DEF Effect, ReceiveEffect, SetFlagEffect, ListRowsEffect, DropLiveEffect, DropLiveRaisesEffect,
       DeleteRowsEffect, CommitTeardownEffect, RegisterRefusedEffect, RegisterCollidesEffect,
       CommitRaisesEffect, CommitActivateEffect, Ends
<1>2. \A q \in Request : txn'[q].inserted \subseteq txn[q].inserted
  BY <1>1, EffectFrame
<1> QED
  BY <1>1, <1>2 DEF Held, Pending

\* A step that flushes a row adds it.
LEMMA HeldGrows ==
  ASSUME NEW r \in Request, Flushed(r)
  PROVE  Held' = Held \cup {NewRow(r)}
<1>1. \A q \in Request : txn'[q].inserted = IF q = r THEN txn[q].inserted \cup {NewRow(r)}
                                                     ELSE txn[q].inserted
  BY DEF Flushed, Frame
<1>2. Pending' = Pending \cup {NewRow(r)}
  BY <1>1 DEF Pending
<1> QED
  BY <1>2 DEF Held, Flushed

\* Everything anybody refers to is a row.
LEMMA KnownType ==
  ASSUME TypeOK
  PROVE  Known \subseteq Row
<1>1. rows \subseteq Row /\ registry \subseteq Row
  BY DEF TypeOK
<1>2. \A r \in Request : txn[r].inserted \subseteq Row /\ txn[r].deleted \subseteq Row
  BY DEF TypeOK, Txn
<1>3. \A r \in Request : Touched(r) \subseteq Row
  <2> TAKE r \in Request
  <2>1. req[r].pc = "drop" => req[r].listed \subseteq Row
    BY WorkingType DEF Working, InFlight
  <2> QED
    BY <1>2, <2>1 DEF Touched
<1> QED
  BY <1>1, <1>2, <1>3 DEF Known, Held, Pending

\* Nobody refers to anything new but to a row that is flushed.
LEMMA KnownGrows ==
  ASSUME TypeOK, NEW r \in Request, Effect(r)
  PROVE  \/ Known' \subseteq Known
         \/ /\ RegisterWebhookEffect(r) \/ RegisterScheduleEffect(r)
            /\ Known' \subseteq Known \cup {NewRow(r)}
<1>0. Idle.pc = "idle" /\ NoTxn.inserted = {} /\ NoTxn.deleted = {}
  BY DEF Idle, NoTxn
<1>1. \A q \in Request \ {r} : Touched(q)' = Touched(q)
  BY EffectFrame DEF Touched
<1>2. Touched(r) \subseteq Known /\ Held \subseteq Known /\ registry \subseteq Known
  BY DEF Known
<1>3. txn[r].deleted \subseteq Known /\ Visible(r) \subseteq Known
  BY <1>2 DEF Touched, Visible, Held, Pending
<1>4. Touched(r)' \subseteq Known
  <2>1. CASE ReceiveEffect(r) \/ SetFlagEffect(r) \/ DropLiveEffect(r) \/ RegisterRefusedEffect(r)
    <3>1. txn'[r] = txn[r] /\ req'[r].pc # "drop"
      BY <1>0, <2>1 DEF ReceiveEffect, SetFlagEffect, DropLiveEffect, RegisterRefusedEffect, AdvanceEffect
    <3> QED
      BY <1>3, <3>1 DEF Touched
  <2>2. CASE ListRowsEffect(r)
    <3>1. txn'[r] = txn[r] /\ req'[r].listed \subseteq Visible(r)
      BY <2>2 DEF ListRowsEffect, Own
    <3> QED
      BY <1>3, <3>1 DEF Touched
  <2>3. CASE DeleteRowsEffect(r)
    <3>1. txn'[r].deleted \subseteq txn[r].deleted \cup Visible(r) /\ req'[r].pc # "drop"
      BY <2>3 DEF DeleteRowsEffect, Own
    <3> QED
      BY <1>3, <3>1 DEF Touched
  <2>4. CASE \/ DropLiveRaisesEffect(r) \/ CommitTeardownEffect(r) \/ RegisterCollidesEffect(r)
             \/ CommitRaisesEffect(r) \/ CommitActivateEffect(r)
    <3>1. txn'[r].deleted = {} /\ req'[r].pc # "drop"
      BY <1>0, <2>4 DEF DropLiveRaisesEffect, CommitTeardownEffect, RegisterCollidesEffect,
                        CommitRaisesEffect, CommitActivateEffect, AdvanceEffect, Ends
    <3> QED
      BY <3>1 DEF Touched
  <2>5. CASE RegisterWebhookEffect(r) \/ RegisterScheduleEffect(r)
    <3>1. txn'[r].deleted = txn[r].deleted /\ req'[r].pc # "drop"
      BY <2>5 DEF RegisterWebhookEffect, RegisterScheduleEffect, Flushed, AdvanceEffect
    <3> QED
      BY <1>3, <3>1 DEF Touched
  <2> QED
    BY <2>1, <2>2, <2>3, <2>4, <2>5 DEF Effect
<1>5. CASE RegisterWebhookEffect(r) \/ RegisterScheduleEffect(r)
  <2>1. Held' = Held \cup {NewRow(r)} /\ registry' \subseteq registry \cup {NewRow(r)}
    BY <1>5, HeldGrows DEF RegisterWebhookEffect, RegisterScheduleEffect, Registered
  <2>2. Known' \subseteq Known \cup {NewRow(r)}
    BY <1>1, <1>2, <1>4, <2>1 DEF Known
  <2> QED
    BY <1>5, <2>2
<1>6. CASE ~RegisterWebhookEffect(r) /\ ~RegisterScheduleEffect(r)
  <2>1. Held' \subseteq Held
    BY <1>6, HeldShrinks
  <2>2. registry' \subseteq registry
    BY <1>6 DEF Effect, ReceiveEffect, SetFlagEffect, ListRowsEffect, DropLiveEffect, DropLiveRaisesEffect,
        DeleteRowsEffect, CommitTeardownEffect, RegisterRefusedEffect, RegisterCollidesEffect,
        CommitRaisesEffect, CommitActivateEffect, Unregistered
  <2> QED
    BY <1>1, <1>2, <1>4, <2>1, <2>2 DEF Known
<1> QED
  BY <1>5, <1>6

\* KeysInv is kept.
LEMMA NextKeys ==
  ASSUME TypeOK, SessionInv, KeysInv, [Next]_vars
  PROVE  KeysInv'
<1>1. ASSUME NEW r \in Request, Effect(r) PROVE KeysInv'
  <2>1. CASE RegisterWebhookEffect(r)
    <3>1. Flushed(r) /\ Held' = Held \cup {NewRow(r)}
      BY <2>1, HeldGrows DEF RegisterWebhookEffect
    <3>2. txn[r].deleted = {}
      BY <2>1 DEF RegisterWebhookEffect, AdvanceEffect, SessionInv
    <3>3. \A x \in WebhookRows(Held) : x.key # Current(r).key
      <4>1. \A x \in WebhookRows(rows \cup txn[r].inserted) : x.key # Current(r).key
        BY <2>1, <3>2 DEF RegisterWebhookEffect, KeyTaken, Visible
      <4>2. \A q \in Request \ {r} : \A x \in WebhookRows(txn[q].inserted) : x.key # Current(r).key
        BY <2>1 DEF RegisterWebhookEffect, KeyLocked, WebhookRows
      <4> QED
        BY <4>1, <4>2 DEF Held, Pending, WebhookRows
    <3>4. NewRow(r).key = Current(r).key
      BY <3>1 DEF Flushed
    <3> QED
      BY <3>1, <3>3, <3>4 DEF KeysInv, WebhookRows
  <2>2. CASE RegisterScheduleEffect(r)
    <3>1. Held' = Held \cup {NewRow(r)} /\ NewRow(r).kind = "schedule"
      BY <2>2, HeldGrows DEF RegisterScheduleEffect
    <3> QED
      BY <3>1 DEF KeysInv, WebhookRows
  <2>3. CASE ~RegisterWebhookEffect(r) /\ ~RegisterScheduleEffect(r)
    BY <1>1, <2>3, HeldShrinks DEF KeysInv, WebhookRows
  <2> QED
    BY <2>1, <2>2, <2>3
<1>2. CASE RestartEffect
  <2>1. Held' \subseteq Held
    BY <1>2 DEF RestartEffect, Held, Pending, NoTxn
  <2> QED
    BY <2>1 DEF KeysInv, WebhookRows
<1>3. CASE EditEffect
  BY <1>3 DEF EditEffect, KeysInv, Held, Pending, WebhookRows
<1> QED
  BY <1>1, <1>2, <1>3, NextEffects

\* RegistryInv is kept.
LEMMA NextRegistry ==
  ASSUME TypeOK, RegistryInv, [Next]_vars
  PROVE  RegistryInv'
<1>1. ASSUME NEW r \in Request, Effect(r) PROVE RegistryInv'
  <2>1. CASE RegisterWebhookEffect(r)
    BY <2>1 DEF RegisterWebhookEffect, Registered, RegistryInv, WebhookRows
  <2>2. CASE registry' \subseteq registry
    BY <2>2 DEF RegistryInv, WebhookRows
  <2> QED
    BY <1>1, <2>1, <2>2
    DEF Effect, ReceiveEffect, SetFlagEffect, ListRowsEffect, DropLiveEffect, DropLiveRaisesEffect,
        DeleteRowsEffect, CommitTeardownEffect, RegisterRefusedEffect, RegisterCollidesEffect,
        RegisterScheduleEffect, CommitRaisesEffect, CommitActivateEffect, Unregistered
<1>2. CASE RestartEffect
  BY <1>2 DEF RestartEffect, RegistryInv, WebhookRows
<1>3. CASE EditEffect
  BY <1>3 DEF EditEffect, RegistryInv, WebhookRows
<1> QED
  BY <1>1, <1>2, <1>3, NextEffects

\* The trigger node at the head of the loop is one the workflow wants.
LEMMA CurrentIsWanted ==
  ASSUME TypeOK, SessionInv, NEW r \in Request, NEW failed, AdvanceEffect(r, failed), Frame(r)
  PROVE  /\ Current(r) \in Wanted(req[r].workflow)
         /\ LoopAt(r) /\ LoopAt(r)' /\ Past(r) \in Nat /\ Past(r)' = Past(r) + 1
         /\ Past(r)' \in 1 .. Len(req[r].read)
         /\ Current(r) = req[r].read[Past(r)']
         /\ req[r].read \in Seq(Triggers) /\ req[r].read \in offered[req[r].workflow]
<1>1. req[r] \in InFlight /\ LoopAt(r) /\ req[r].read \in offered[req[r].workflow]
  BY DEF Frame, AdvanceEffect, SessionInv
<1>2. /\ LoopAt(r)' /\ Past(r) \in Nat /\ Past(r)' = Past(r) + 1 /\ Past(r)' \in 1 .. Len(req[r].read)
      /\ Current(r) = req[r].read[Past(r)']
  BY <1>1, LoopAdvances
<1>3. req[r].read \in Seq(Triggers)
  BY <1>1 DEF InFlight
<1>4. Past(r)' \in DOMAIN req[r].read
  BY <1>2, <1>3
<1>5. Current(r) \in ToSet(req[r].read)
  BY <1>2, <1>4 DEF ToSet
<1> QED
  BY <1>1, <1>2, <1>3, <1>5 DEF Wanted

\* WantedInv is kept.
LEMMA NextWanted ==
  ASSUME TypeOK, SessionInv, WantedInv, [Next]_vars
  PROVE  WantedInv'
<1>1. ASSUME NEW r \in Request, Effect(r) PROVE WantedInv'
  <2>1. offered' = offered
    BY <1>1, EffectFrame
  <2>2. CASE /\ RegisterWebhookEffect(r) \/ RegisterScheduleEffect(r)
             /\ Known' \subseteq Known \cup {NewRow(r)}
    <3>1. Flushed(r) /\ Frame(r)
      BY <2>2 DEF RegisterWebhookEffect, RegisterScheduleEffect, Flushed
    <3>2. Current(r) \in Wanted(req[r].workflow)
      BY <2>2, <3>1, CurrentIsWanted DEF RegisterWebhookEffect, RegisterScheduleEffect
    <3>3. /\ NewRow(r).workflow = req[r].workflow /\ NewRow(r).key = Current(r).key
          /\ NewRow(r).supported <=> Current(r).kind # "unsupported"
      BY <3>1 DEF Flushed
    <3>4. NewRow(r).kind = "webhook" <=> Current(r).kind \in Webhooks
      BY <2>2 DEF RegisterWebhookEffect, RegisterScheduleEffect, Webhooks
    <3> QED
      BY <2>1, <2>2, <3>2, <3>3, <3>4 DEF WantedInv, Wanted
  <2>3. CASE Known' \subseteq Known
    BY <2>1, <2>3 DEF WantedInv, Wanted
  <2> QED
    BY <1>1, <2>2, <2>3, KnownGrows
<1>2. CASE RestartEffect
  <2>1. \A r \in Request : txn'[r].inserted = {} /\ Touched(r)' = {}
    BY <1>2 DEF RestartEffect, NoTxn, Idle, Touched
  <2>2. registry' \subseteq rows /\ rows' = rows /\ offered' = offered
    BY <1>2 DEF RestartEffect, WebhookRows
  <2>3. Known' \subseteq Known
    BY <2>1, <2>2 DEF Known, Held, Pending
  <2> QED
    BY <2>2, <2>3 DEF WantedInv, Wanted
<1>3. CASE EditEffect
  <2>1. Known' = Known /\ offered' = offered
    BY <1>3 DEF EditEffect, Known, Held, Pending, Touched
  <2> QED
    BY <2>1 DEF WantedInv, Wanted
<1> QED
  BY <1>1, <1>2, <1>3, NextEffects

\* A request that is at work after a step of its own other than its first was at
\* work for the same workflow.
LEMMA SameWorkflow ==
  ASSUME NEW r \in Request, Effect(r), ~ReceiveEffect(r)
  PROVE  /\ Frame(r) /\ Working(r) /\ req[r] \in InFlight
         /\ Working(r)' => GoesOn(r)
<1>1. Idle.pc = "idle"
  BY DEF Idle
<1> QED
  BY <1>1
  DEF Effect, SetFlagEffect, ListRowsEffect, DropLiveEffect, DropLiveRaisesEffect,
      DeleteRowsEffect, CommitTeardownEffect, RegisterRefusedEffect, RegisterCollidesEffect,
      RegisterWebhookEffect, RegisterScheduleEffect, Flushed, CommitRaisesEffect, CommitActivateEffect,
      Frame, Ends, AdvanceEffect, Working

\* A clean request was one before a step of its own other than its first, and
\* before every step of others.
LEMMA CleanBefore ==
  ASSUME NEW r \in Request, Effect(r), NEW q \in Request, q # r \/ ~ReceiveEffect(r), Clean(q)'
  PROVE  Clean(q) /\ req'[q].workflow = req[q].workflow
<1>1. overlapped \subseteq overlapped'
  BY EffectFrame
<1>2. CASE q # r
  BY <1>1, <1>2, EffectFrame DEF Clean, Working
<1>3. CASE q = r
  <2>1. Working(r) /\ req'[r].workflow = req[r].workflow
    BY <1>3, SameWorkflow DEF GoesOn, Clean
  <2> QED
    BY <1>1, <1>3, <2>1 DEF Clean
<1> QED
  BY <1>2, <1>3

\* OneInv is kept: a second request for a workflow makes both unclean.
LEMMA NextOne ==
  ASSUME TypeOK, OneInv, [Next]_vars
  PROVE  OneInv'
<1>1. ASSUME NEW r \in Request, Effect(r) PROVE OneInv'
  <2>0. overlapped \subseteq overlapped' /\ \A q \in Request \ {r} : req'[q] = req[q]
    BY <1>1, EffectFrame
  <2>1. ASSUME NEW p \in Request, NEW q \in Request, Clean(p)', Working(q)',
               req'[p].workflow = req'[q].workflow, p # q
        PROVE  FALSE
    <3>1. CASE ReceiveEffect(r) /\ (p = r \/ q = r)
      <4>1. PICK o \in Request \ {r} : Working(o) /\ req[o].workflow = req'[r].workflow
        BY <2>0, <2>1, <3>1 DEF Working, Clean
      <4>2. Busy(req'[r].workflow)
        BY <4>1 DEF Busy, Working
      <4>3. req'[r].workflow \in overlapped'
        BY <3>1, <4>2 DEF ReceiveEffect
      <4> QED
        BY <2>1, <3>1, <4>3 DEF Clean
    <3>2. CASE ~(ReceiveEffect(r) /\ (p = r \/ q = r))
      <4>1. Clean(p) /\ req'[p].workflow = req[p].workflow
        BY <1>1, <2>1, <3>2, CleanBefore
      <4>2. Working(q) /\ req'[q].workflow = req[q].workflow
        <5>1. CASE q = r
          BY <1>1, <2>1, <3>2, <5>1, SameWorkflow DEF GoesOn
        <5>2. CASE q # r
          BY <2>0, <2>1, <5>2 DEF Working
        <5> QED
          BY <5>1, <5>2
      <4> QED
        BY <2>1, <4>1, <4>2 DEF OneInv
    <3> QED
      BY <3>1, <3>2
  <2> QED
    BY <2>1 DEF OneInv
<1>2. CASE RestartEffect
  BY <1>2 DEF RestartEffect, OneInv, Clean, Working, Idle
<1>3. CASE EditEffect
  BY <1>3 DEF EditEffect, OneInv, Clean, Working
<1> QED
  BY <1>1, <1>2, <1>3, NextEffects

\* A request only changes the rows of its own workflow.
LEMMA OthersRows ==
  ASSUME SessionInv, NEW r \in Request, Effect(r), NEW w, Working(r) => req[r].workflow # w
  PROVE  Of(w, rows)' = Of(w, rows)
<1>1. CASE rows' = rows
  BY <1>1 DEF Of
<1>2. CASE CommitTeardownEffect(r)
  <2>1. /\ rows' = (rows \ txn[r].deleted) \cup txn[r].inserted /\ Working(r)
        /\ \A x \in txn[r].inserted \cup txn[r].deleted : x.workflow = req[r].workflow
    BY <1>2 DEF CommitTeardownEffect, SessionInv, Working, Touched
  <2> QED
    BY <2>1 DEF Of
<1>3. CASE CommitActivateEffect(r)
  <2>1. /\ rows' = rows \cup txn[r].inserted /\ Working(r)
        /\ \A x \in txn[r].inserted : x.workflow = req[r].workflow
    BY <1>3 DEF CommitActivateEffect, SessionInv, Working
  <2> QED
    BY <2>1 DEF Of
<1> QED
  BY <1>1, <1>2, <1>3
  DEF Effect, ReceiveEffect, SetFlagEffect, ListRowsEffect, DropLiveEffect, DropLiveRaisesEffect,
      DeleteRowsEffect, RegisterRefusedEffect, RegisterCollidesEffect,
      RegisterWebhookEffect, RegisterScheduleEffect, Flushed, CommitRaisesEffect

\* RowsOf stays true of the request that takes the step.
LEMMA OwnRows ==
  ASSUME TypeOK, SessionInv, NEW r \in Request, RowsOf(r), Effect(r)
  PROVE  RowsOf(r)'
<1>0. Idle.pc = "idle" /\ NoTxn.deleted = {}
  BY DEF Idle, NoTxn
<1>a. \A x \in rows : x.kind \in Kind
  BY DEF TypeOK, Row
<1>b. req[r] \in InFlight => req[r].kind \in Kind
  BY DEF InFlight
<1>1. CASE ReceiveEffect(r)
  <2>1. txn'[r] = NoTxn
    BY <1>1 DEF ReceiveEffect, SessionInv
  <2> QED
    BY <1>0, <1>1, <2>1 DEF ReceiveEffect, RowsOf
<1>2. CASE SetFlagEffect(r)
  BY <1>0, <1>2 DEF SetFlagEffect, RowsOf
<1>3. CASE ListRowsEffect(r)
  <2>1. txn[r].inserted = {} /\ Own(r, rows)' = Own(r, rows)
    BY <1>3 DEF ListRowsEffect, SessionInv, TearingDown, Own, GoesOn
  <2>2. {x \in Own(r, Visible(r)) : x.kind = req[r].kind} = {x \in Own(r, rows) : x.kind = req[r].kind}
    <3>1. txn[r].deleted = IF req[r].kind = "schedule" THEN WebhookRows(Own(r, rows)) ELSE {}
      BY <1>3 DEF ListRowsEffect, RowsOf
    <3> QED
      BY <2>1, <3>1 DEF Visible, WebhookRows, Own
  <2> QED
    BY <1>3, <2>1, <2>2 DEF ListRowsEffect, RowsOf
<1>4. CASE DropLiveEffect(r)
  <2>1. Own(r, rows)' = Own(r, rows)
    BY <1>4 DEF DropLiveEffect, Own, GoesOn
  <2> QED
    BY <1>4, <2>1 DEF DropLiveEffect, RowsOf
<1>5. CASE DropLiveRaisesEffect(r)
  BY <1>0, <1>5 DEF DropLiveRaisesEffect, Ends, RowsOf
<1>6. CASE DeleteRowsEffect(r)
  <2>1. txn[r].inserted = {} /\ Own(r, rows)' = Own(r, rows)
    BY <1>6 DEF DeleteRowsEffect, SessionInv, TearingDown, Own, GoesOn
  <2>2. txn[r].deleted = IF req[r].kind = "schedule" THEN WebhookRows(Own(r, rows)) ELSE {}
    BY <1>6 DEF DeleteRowsEffect, RowsOf
  <2>3. CASE req[r].kind = "webhook"
    <3>1. txn'[r].deleted = WebhookRows(Own(r, rows))
      BY <1>6, <2>1, <2>2, <2>3 DEF DeleteRowsEffect, Visible, WebhookRows, Own
    <3> QED
      BY <1>6, <2>1, <2>3, <3>1 DEF DeleteRowsEffect, RowsOf
  <2>4. CASE req[r].kind = "schedule"
    <3>1. txn'[r].deleted = WebhookRows(Own(r, rows)) \cup {x \in Own(r, Visible(r)) : x.kind = "schedule"}
      BY <1>6, <2>2, <2>4 DEF DeleteRowsEffect
    <3>2. txn'[r].deleted = Own(r, rows)
      BY <1>a, <2>1, <2>2, <2>4, <3>1 DEF Visible, WebhookRows, Own, Kind
    <3> QED
      BY <1>6, <2>1, <2>4, <3>2 DEF DeleteRowsEffect, RowsOf
  <2> QED
    BY <1>b, <1>6, <2>3, <2>4 DEF DeleteRowsEffect, Frame, Kind
<1>7. CASE CommitTeardownEffect(r)
  <2>1. CASE Ends(r)
    BY <1>0, <2>1 DEF Ends, RowsOf
  <2>2. CASE GoesOn(r) /\ req'[r].pc \in {"register", "flag"}
    <3>1. txn[r].inserted = {} /\ txn[r].deleted = Own(r, rows)
      BY <1>7 DEF CommitTeardownEffect, SessionInv, TearingDown, RowsOf
    <3>2. Own(r, rows)' = {}
      BY <1>7, <2>2, <3>1 DEF CommitTeardownEffect, Own, GoesOn
    <3> QED
      BY <2>2, <3>2 DEF RowsOf
  <2> QED
    BY <1>7, <2>1, <2>2 DEF CommitTeardownEffect
<1>8. CASE RegisterRefusedEffect(r) \/ RegisterCollidesEffect(r)
  BY <1>8 DEF RegisterRefusedEffect, RegisterCollidesEffect, AdvanceEffect, GoesOn, RowsOf, Own
<1>9. CASE RegisterWebhookEffect(r) \/ RegisterScheduleEffect(r)
  <2>1. req[r].pc = "register" /\ req'[r].pc = "register" /\ rows' = rows
        /\ req'[r].workflow = req[r].workflow
    BY <1>9 DEF RegisterWebhookEffect, RegisterScheduleEffect, Flushed, AdvanceEffect, GoesOn
  <2> QED
    BY <2>1 DEF RowsOf, Own
<1>10. CASE CommitRaisesEffect(r)
  BY <1>0, <1>10 DEF CommitRaisesEffect, Ends, RowsOf
<1>11. CASE CommitActivateEffect(r)
  BY <1>0, <1>11 DEF CommitActivateEffect, RowsOf
<1> QED
  BY <1>1, <1>2, <1>3, <1>4, <1>5, <1>6, <1>7, <1>8, <1>9, <1>10, <1>11 DEF Effect

\* RowsInv is kept.
LEMMA NextRows ==
  ASSUME TypeOK, SessionInv, OneInv, RowsInv, [Next]_vars
  PROVE  RowsInv'
<1>1. ASSUME NEW r \in Request, Effect(r) PROVE RowsInv'
  <2>1. ASSUME NEW q \in Request, Clean(q)' PROVE RowsOf(q)'
    <3>1. CASE q = r
      <4>1. CASE ReceiveEffect(r)
        <5>1. RowsOf(r)
          BY <4>1 DEF ReceiveEffect, RowsOf, Working
        <5> QED
          BY <1>1, <3>1, <5>1, OwnRows
      <4>2. CASE ~ReceiveEffect(r)
        <5>1. Clean(r)
          BY <1>1, <2>1, <3>1, <4>2, CleanBefore
        <5> QED
          BY <1>1, <3>1, <5>1, OwnRows DEF RowsInv
      <4> QED
        BY <4>1, <4>2
    <3>2. CASE q # r
      <4>1. req'[q] = req[q] /\ txn'[q] = txn[q]
        BY <1>1, <3>2, EffectFrame
      <4>2. Clean(q) /\ RowsOf(q)
        BY <1>1, <2>1, <3>2, CleanBefore DEF RowsInv
      <4>3. Working(r) => req[r].workflow # req[q].workflow
        BY <3>2, <4>2 DEF OneInv
      <4>w. PICK w : w = req[q].workflow
        OBVIOUS
      <4>4. Of(w, rows)' = Of(w, rows)
        BY <1>1, <4>3, <4>w, OthersRows
      <4>5. Own(q, rows)' = Own(q, rows)
        BY <4>1, <4>4, <4>w DEF Own, Of
      <4> QED
        BY <4>1, <4>2, <4>5 DEF RowsOf
    <3> QED
      BY <3>1, <3>2
  <2> QED
    BY <2>1 DEF RowsInv
<1>2. CASE RestartEffect
  BY <1>2 DEF RestartEffect, RowsInv, Clean, Working, Idle
<1>3. CASE EditEffect
  <2>1. req' = req /\ txn' = txn /\ rows' = rows /\ overlapped' = overlapped
    BY <1>3 DEF EditEffect
  <2> QED
    BY <2>1, SMTT(30) DEF RowsInv, RowsOf, Own, Clean, Working
<1> QED
  BY <1>1, <1>2, <1>3, NextEffects

\* Where the routes are distinct, those of two workflows are.
LEMMA DistinctKeys ==
  ASSUME TypeOK, WantedInv, RoutesAreDistinct, NEW x \in Known, NEW y \in Known,
         x.kind = "webhook", y.kind = "webhook", x.key = y.key
  PROVE  x.workflow = y.workflow
<1>1. x.workflow \in Workflow /\ y.workflow \in Workflow
  BY KnownType DEF Row
<1>2. PICK t \in Wanted(x.workflow) : t.key = x.key /\ t.kind \in Webhooks
  BY DEF WantedInv
<1>3. PICK u \in Wanted(y.workflow) : u.key = y.key /\ u.kind \in Webhooks
  BY DEF WantedInv
<1>4. t.kind = "webhook" /\ u.kind = "webhook"
  BY <1>1, <1>2, <1>3 DEF RoutesAreDistinct, Webhooks
<1> QED
  BY <1>1, <1>2, <1>3, <1>4 DEF RoutesAreDistinct, SameRoute

\* unregister() goes by the key, but a teardown that is not overlapped, or one
\* of a workflow with routes of its own, only finds entries of its workflow.
LEMMA UnregistersOwn ==
  ASSUME TypeOK, SessionInv, KeysInv, WantedInv, RowsInv,
         RoutesAreDistinct \/ overlapped = {},
         NEW r \in Request, req[r].pc = "drop", NEW y \in req[r].listed, y.kind = "webhook",
         NEW e \in Held, e.kind = "webhook", e.key = y.key
  PROVE  e.workflow = req[r].workflow
<1>1. Working(r) /\ y \in Touched(r) /\ y.workflow = req[r].workflow
  BY DEF Working, Touched, SessionInv
<1>2. CASE RoutesAreDistinct
  BY <1>1, <1>2, DistinctKeys DEF Known
<1>3. CASE overlapped = {}
  <2>1. y \in Held
    BY <1>1, <1>3 DEF RowsInv, RowsOf, Clean, Own, Held
  <2> QED
    BY <1>1, <2>1 DEF KeysInv, WebhookRows
<1> QED
  BY <1>2, <1>3

\* What another request has put into service stays there.
LEMMA OthersServed ==
  ASSUME TypeOK, SessionInv, KeysInv, WantedInv, OneInv, RowsInv,
         RoutesAreDistinct \/ overlapped = {}, NEW r \in Request, Effect(r),
         NEW q \in Request \ {r}, Clean(q), NEW x \in txn[q].inserted
  PROVE  /\ x.kind = "webhook" /\ x \in registry => x \in registry'
         /\ JobId(x) \in jobs => JobId(x) \in jobs'
<1>1. x.workflow = req[q].workflow /\ x \in Held
  BY DEF SessionInv, Clean, Held, Pending
<1>2. ASSUME req[r].pc = "drop", NEW X \in SUBSET req[r].listed
      PROVE  /\ x.kind = "webhook" /\ x \in registry => x \in Unregistered(X)
             /\ JobId(x) \notin Jobs(X)
  <2>1. Working(r) /\ \A y \in X : y.workflow = req[r].workflow
    BY <1>2 DEF Working, Touched, SessionInv
  <2>2. req[r].workflow # req[q].workflow
    BY <2>1 DEF OneInv
  <2>3. \A y \in X : y.workflow # x.workflow
    BY <1>1, <2>1, <2>2
  <2>4. \A y \in WebhookRows(X) : x.kind = "webhook" => y.key # x.key
    BY <1>1, <1>2, <2>2, UnregistersOwn DEF WebhookRows
  <2> QED
    BY <2>3, <2>4 DEF Unregistered, Jobs, JobId
<1>3. CASE DropLiveEffect(r)
  BY <1>2, <1>3 DEF DropLiveEffect
<1>4. CASE DropLiveRaisesEffect(r)
  BY <1>2, <1>4 DEF DropLiveRaisesEffect
<1>5. CASE registry \subseteq registry' /\ jobs \subseteq jobs'
  BY <1>5
<1> QED
  BY <1>3, <1>4, <1>5
  DEF Effect, ReceiveEffect, SetFlagEffect, ListRowsEffect,
      DeleteRowsEffect, CommitTeardownEffect, RegisterRefusedEffect, RegisterCollidesEffect,
      RegisterWebhookEffect, RegisterScheduleEffect, CommitRaisesEffect, CommitActivateEffect,
      Registered

\* A request begins its loop, takes a turn of it, or is not in it.
LEMMA LoopSteps ==
  ASSUME TypeOK, NEW r \in Request, Effect(r), req'[r].pc = "register"
  PROVE  \/ Past(r)' = 0 /\ txn'[r] = NoTxn
         \/ RegisterRefusedEffect(r) \/ RegisterCollidesEffect(r)
         \/ RegisterWebhookEffect(r) \/ RegisterScheduleEffect(r)
<1>0. Idle.pc = "idle"
  BY DEF Idle
<1>1. CASE CommitTeardownEffect(r)
  <2>1. GoesOn(r) /\ req'[r].todo = req[r].read /\ req[r] \in InFlight /\ txn'[r] = NoTxn
    BY <1>0, <1>1 DEF CommitTeardownEffect, Ends, Frame
  <2>2. req'[r].todo = req'[r].read /\ req'[r].read \in Seq(Triggers)
    BY <2>1 DEF GoesOn, InFlight
  <2>3. Past(r)' = 0
    BY <2>2 DEF Past
  <2> QED
    BY <2>1, <2>3
<1> QED
  BY <1>0, <1>1
  DEF Effect, ReceiveEffect, SetFlagEffect, ListRowsEffect, DropLiveEffect, DropLiveRaisesEffect,
      DeleteRowsEffect, CommitRaisesEffect, CommitActivateEffect, Ends

\* LoopOf and PastOf stay true of the request that takes the step.
LEMMA OwnLoop ==
  ASSUME TypeOK, SessionInv, NEW r \in Request, PastOf(r), Effect(r)
  PROVE  PastOf(r)' /\ (LoopOf(r) => LoopOf(r)')
<1> SUFFICES ASSUME req'[r].pc = "register" PROVE PastOf(r)' /\ (LoopOf(r) => LoopOf(r)')
  BY DEF LoopOf, PastOf
<1>1. CASE Past(r)' = 0 /\ txn'[r] = NoTxn
  BY <1>1 DEF NoTxn, LoopOf, PastOf, WebhookRows
<1>2. CASE RegisterRefusedEffect(r)
  <2>1. AdvanceEffect(r, TRUE) /\ Frame(r) /\ txn'[r] = txn[r]
    BY <1>2 DEF RegisterRefusedEffect
  <2>2. Past(r) \in Nat /\ Past(r)' = Past(r) + 1
    BY <2>1, CurrentIsWanted
  <2>3. req[r].pc = "register" /\ req'[r].read = req[r].read /\ req'[r].errors
    BY <2>1 DEF AdvanceEffect, GoesOn
  <2>4. 1 .. Past(r) \subseteq 1 .. Past(r)'
    BY <2>2
  <2> QED
    BY <2>1, <2>3, <2>4 DEF LoopOf, PastOf
<1>3. CASE RegisterCollidesEffect(r)
  BY <1>3 DEF RegisterCollidesEffect, AdvanceEffect, LoopOf, PastOf, WebhookRows
<1>4. CASE RegisterWebhookEffect(r) \/ RegisterScheduleEffect(r)
  <2> DEFINE new == NewRow(r)
  <2>1. AdvanceEffect(r, FALSE)
    BY <1>4 DEF RegisterWebhookEffect, RegisterScheduleEffect, AdvanceEffect
  <2>2. Flushed(r) /\ Frame(r)
    BY <1>4 DEF RegisterWebhookEffect, RegisterScheduleEffect, Flushed
  <2>3. /\ Past(r) \in Nat /\ Past(r)' = Past(r) + 1 /\ Current(r) = req[r].read[Past(r)']
    BY <2>1, <2>2, CurrentIsWanted
  <2>4. 1 .. Past(r)' = (1 .. Past(r)) \cup {Past(r)'} /\ Past(r)' \in 1 .. Past(r)'
    BY <2>3
  <2>5. req[r].pc = "register" /\ req'[r].read = req[r].read /\ req'[r].workflow = req[r].workflow
        /\ (~req'[r].errors => ~req[r].errors)
    BY <2>1 DEF AdvanceEffect, GoesOn
  <2>6. /\ txn'[r].inserted = txn[r].inserted \cup {new} /\ ~txn'[r].broken
        /\ new.key = Current(r).key /\ new.node = Current(r).node
        /\ new.supported <=> Current(r).kind # "unsupported"
    BY <2>2 DEF Flushed
  <2>7. /\ new.kind = "webhook" => Current(r).kind \in Webhooks
        /\ registry \subseteq registry' /\ jobs \subseteq jobs'
    BY <1>4 DEF RegisterWebhookEffect, RegisterScheduleEffect, Registered
  <2>t. PICK t : t = Current(r)
    OBVIOUS
  <2>8. ~req'[r].errors => Begun(r, t)'
    <3>1. ASSUME ~req'[r].errors, RegisterWebhookEffect(r) PROVE Begun(r, t)'
      <4>1. ~Refuses(new)
        BY <3>1 DEF RegisterWebhookEffect, AdvanceEffect
      <4>2. new \in registry' /\ new.supported
        BY <3>1, <4>1 DEF RegisterWebhookEffect, Registered, Refuses
      <4>3. Current(r).kind = "webhook" /\ new.kind = "webhook"
        BY <2>6, <3>1, <4>2 DEF RegisterWebhookEffect, Webhooks
      <4> HIDE DEF new
      <4> QED
        BY <2>t, <2>6, <4>2, <4>3 DEF Begun
    <3>2. ASSUME RegisterScheduleEffect(r) PROVE Begun(r, t)'
      <4>1. Current(r).kind = "schedule" /\ new.kind = "schedule" /\ JobId(new) \in jobs'
        BY <3>2 DEF RegisterScheduleEffect
      <4> HIDE DEF new
      <4> QED
        BY <2>t, <2>6, <4>1 DEF Begun
    <3> QED
      BY <1>4, <3>1, <3>2
  <2> HIDE DEF new
  <2>9. ASSUME NEW u, Begun(r, u) PROVE Begun(r, u)'
    BY <2>9, <2>5, <2>6, <2>7 DEF Begun
  <2>10. ASSUME LoopOf(r) PROVE LoopOf(r)'
    <3>1. ASSUME ~req'[r].errors, NEW i \in 1 .. Past(r)', NEW u, u = req[r].read[i] PROVE Begun(r, u)'
      <4>1. CASE i = Past(r)'
        BY <2>t, <2>3, <2>8, <3>1, <4>1
      <4>2. CASE i \in 1 .. Past(r)
        BY <2>5, <2>9, <2>10, <3>1, <4>2 DEF LoopOf
      <4> QED
        BY <2>4, <4>1, <4>2
    <3>2. ASSUME ~req'[r].errors, NEW i \in 1 .. Past(r)' PROVE Begun(r, req[r].read[i])'
      BY <2>5, <3>1, <3>2
    <3> QED
      BY <2>6, <3>2 DEF LoopOf
  <2>11. PastOf(r)'
    BY <2>3, <2>4, <2>5, <2>6, <2>7 DEF PastOf, WebhookRows
  <2> QED
    BY <2>10, <2>11
<1> QED
  BY <1>1, <1>2, <1>3, <1>4, LoopSteps

\* LoopInv and PastInv are kept.
LEMMA NextLoop ==
  ASSUME TypeOK, SessionInv, KeysInv, WantedInv, OneInv, RowsInv, LoopInv, PastInv, [Next]_vars
  PROVE  LoopInv' /\ PastInv'
<1>1. ASSUME NEW r \in Request, Effect(r) PROVE LoopInv' /\ PastInv'
  <2>0. \A q \in Request : PastOf(q)'
    <3> TAKE q \in Request
    <3>1. CASE q = r
      BY <1>1, <3>1, OwnLoop DEF PastInv
    <3>2. CASE q # r
      <4>1. req'[q] = req[q] /\ txn'[q] = txn[q] /\ Past(q)' = Past(q)
        BY <1>1, <3>2, EffectFrame DEF Past
      <4> QED
        BY <4>1 DEF PastInv, PastOf
    <3> QED
      BY <3>1, <3>2
  <2>1. ASSUME NEW q \in Request, Working(q)', Orderly(req[q].workflow)' PROVE LoopOf(q)'
    <3>a. CASE q = r /\ ReceiveEffect(r)
      BY <3>a DEF ReceiveEffect, LoopOf
    <3>b. ASSUME q # r \/ ~ReceiveEffect(r)
          PROVE  Clean(q) /\ (RoutesAreDistinct \/ overlapped = {}) /\ LoopOf(q)
      <4>1. Clean(q)'
        BY <2>1 DEF Orderly, Clean
      <4>2. Clean(q) /\ req'[q].workflow = req[q].workflow
        BY <1>1, <3>b, <4>1, CleanBefore
      <4>3. RoutesAreDistinct \/ overlapped = {}
        <5>1. RoutesAreDistinct' \/ overlapped' = {}
          BY <2>1 DEF Orderly
        <5>2. offered' = offered /\ overlapped \subseteq overlapped'
          BY <1>1, EffectFrame
        <5> QED
          BY <5>1, <5>2 DEF RoutesAreDistinct, Wanted
      <4> QED
        BY <4>2, <4>3 DEF LoopInv, Orderly, Clean
    <3>1. CASE q = r /\ ~ReceiveEffect(r)
      BY <1>1, <3>b, <3>1, OwnLoop DEF PastInv
    <3>2. CASE q # r
      <4>0. LoopOf(q) /\ Clean(q) /\ (RoutesAreDistinct \/ overlapped = {})
        BY <3>b, <3>2
      <4>1. req'[q] = req[q] /\ txn'[q] = txn[q] /\ Past(q)' = Past(q)
        BY <1>1, <3>2, EffectFrame DEF Past
      <4>2. ASSUME NEW t, Begun(q, t) PROVE Begun(q, t)'
        <5>1. PICK x \in txn[q].inserted :
                \/ t.kind = "webhook" /\ x.kind = "webhook" /\ x.key = t.key /\ x \in registry
                \/ t.kind = "schedule" /\ x.kind = "schedule" /\ x.node = t.node /\ JobId(x) \in jobs
          BY <4>2 DEF Begun
        <5>2. /\ x.kind = "webhook" /\ x \in registry => x \in registry'
              /\ JobId(x) \in jobs => JobId(x) \in jobs'
          BY <1>1, <3>2, <4>0, OthersServed
        <5> QED
          BY <4>1, <5>1, <5>2 DEF Begun
      <4> SUFFICES ASSUME req[q].pc = "register", ~req[q].errors
                   PROVE  ~txn[q].broken /\ \A i \in 1 .. Past(q) : Begun(q, req[q].read[i])'
        BY <4>1 DEF LoopOf
      <4>3. ~txn[q].broken
        BY <4>0 DEF LoopOf
      <4>4. ASSUME NEW i \in 1 .. Past(q), NEW u, u = req[q].read[i] PROVE Begun(q, u)'
        BY <4>0, <4>2, <4>4 DEF LoopOf
      <4>5. ASSUME NEW i \in 1 .. Past(q) PROVE Begun(q, req[q].read[i])'
        BY <4>1, <4>4
      <4> QED
        BY <4>3, <4>5
    <3> QED
      BY <3>a, <3>1, <3>2
  <2> QED
    BY <2>0, <2>1 DEF LoopInv, PastInv
<1>2. CASE RestartEffect
  BY <1>2 DEF RestartEffect, LoopInv, Working, PastInv, PastOf, Idle
<1>3. CASE EditEffect
  <2>1. \A r \in Request : Past(r)' = Past(r)
    BY <1>3 DEF EditEffect, Past
  <2>2. \A w : Orderly(w)' => Orderly(w)
    BY <1>3 DEF EditEffect, Orderly, RoutesAreDistinct, Wanted
  <2> QED
    BY <1>3, <2>1, <2>2 DEF EditEffect, LoopInv, LoopOf, PastInv, PastOf, Begun, Working
<1> QED
  BY <1>1, <1>2, <1>3, NextEffects

-----------------------------------------------------------------------------
(* With distinct routes, what is in service is what the rows say.           *)

\* The rows of a clean request's workflow, while deactivate() runs, are committed
\* ones.
LEMMA OwnIsCommitted ==
  ASSUME SessionInv, OneInv, NEW r \in Request, TearingDown(r), Clean(r), NEW x \in Held,
         x.workflow = req[r].workflow
  PROVE  x \in Own(r, rows)
<1>1. CASE x \in rows
  BY <1>1 DEF Own
<1>2. CASE x \in Pending
  <2>1. PICK q \in Request : x \in txn[q].inserted
    BY <1>2 DEF Pending
  <2>2. Working(q)
    BY <2>1 DEF SessionInv, NoTxn
  <2>3. x.workflow = req[q].workflow
    BY <2>1, <2>2 DEF SessionInv
  <2>4. q = r
    BY <2>2, <2>3 DEF OneInv
  <2> QED
    BY <2>1, <2>4 DEF SessionInv
<1> QED
  BY <1>1, <1>2 DEF Held

\* Every row has a method WebhookRegistry takes.
LEMMA AllSupported ==
  ASSUME TypeOK, WantedInv, RoutesAreDistinct
  PROVE  Supported(Known)
<1>1. \A x \in Known : x.workflow \in Workflow
  BY KnownType DEF Row
<1> QED
  BY <1>1 DEF WantedInv, RoutesAreDistinct, Supported

\* No other row has the key of a webhook trigger node that is being registered.
LEMMA NobodyElsesKey ==
  ASSUME TypeOK, SessionInv, WantedInv, OneInv, RowsInv, PastInv, RoutesAreDistinct,
         NEW r \in Request, NEW failed, AdvanceEffect(r, failed), Frame(r), Clean(r),
         Current(r).kind \in Webhooks, NEW x \in Held, x.kind = "webhook"
  PROVE  x.key # Current(r).key
<1> SUFFICES ASSUME x.key = Current(r).key PROVE FALSE
  OBVIOUS
<1> DEFINE w == req[r].workflow
           t == Current(r)
<1>1. /\ t \in Wanted(w) /\ Past(r) \in Nat /\ Past(r)' = Past(r) + 1
      /\ Past(r)' \in 1 .. Len(req[r].read) /\ t = req[r].read[Past(r)']
      /\ req[r].read \in Seq(Triggers) /\ req[r].read \in offered[w]
  BY CurrentIsWanted
<1>2. w \in Workflow /\ x \in Known /\ x.workflow \in Workflow
  BY KnownType DEF Frame, InFlight, Row, Known
<1>3. t.kind = "webhook"
  BY <1>1, <1>2 DEF RoutesAreDistinct, Webhooks
<1>4. PICK u \in Wanted(x.workflow) : u.key = x.key /\ u.kind \in Webhooks
  BY <1>2 DEF WantedInv
<1>5. u.kind = "webhook"
  BY <1>2, <1>4 DEF RoutesAreDistinct, Webhooks
<1>6. x.workflow = w
  BY <1>1, <1>2, <1>3, <1>4, <1>5 DEF RoutesAreDistinct, SameRoute
<1>7. req[r].pc = "register" /\ Working(r)
  BY DEF AdvanceEffect, Working
<1>8. x \notin rows
  BY <1>6, <1>7 DEF RowsInv, RowsOf, Own
<1>9. PICK q \in Request : x \in txn[q].inserted
  BY <1>8 DEF Held, Pending
<1>10. Working(q) /\ x.workflow = req[q].workflow
  BY <1>9 DEF SessionInv, NoTxn
<1>11. q = r
  BY <1>6, <1>7, <1>10 DEF OneInv
<1>12. PICK i \in 1 .. Past(r) : req[r].read[i].kind \in Webhooks /\ req[r].read[i].key = x.key
  BY <1>2, <1>7, <1>9, <1>11 DEF PastInv, PastOf, WebhookRows
<1>13. i \in DOMAIN req[r].read /\ Past(r)' \in DOMAIN req[r].read /\ i # Past(r)'
  BY <1>1
<1>14. req[r].read[i] \in Wanted(w)
  BY <1>1, <1>13 DEF Wanted, ToSet
<1>15. req[r].read[i].kind = "webhook"
  BY <1>2, <1>12, <1>14 DEF RoutesAreDistinct, Webhooks
<1>16. SameRoute(req[r].read[i], req[r].read[Past(r)'])
  BY <1>1, <1>3, <1>12, <1>15 DEF SameRoute
<1> QED
  BY <1>1, <1>2, <1>13, <1>16 DEF RoutesAreDistinct

\* Nobody refers to a row of another workflow with that key, or of its own one.
LEMMA KeyIsFree ==
  ASSUME TypeOK, SessionInv, WantedInv, OneInv, RowsInv, PastInv, RoutesAreDistinct,
         NEW r \in Request, NEW failed, AdvanceEffect(r, failed), Frame(r), Clean(r),
         Current(r).kind \in Webhooks, NEW x \in Known, x.kind = "webhook",
         x.workflow = req[r].workflow => x \in Held
  PROVE  x.key # Current(r).key
<1> SUFFICES ASSUME x.key = Current(r).key PROVE FALSE
  OBVIOUS
<1> DEFINE w == req[r].workflow
           t == Current(r)
<1>1. t \in Wanted(w)
  BY CurrentIsWanted
<1>2. w \in Workflow /\ x.workflow \in Workflow
  BY KnownType DEF Frame, InFlight, Row
<1>3. t.kind = "webhook"
  BY <1>1, <1>2 DEF RoutesAreDistinct, Webhooks
<1>4. PICK u \in Wanted(x.workflow) : u.key = x.key /\ u.kind \in Webhooks
  BY DEF WantedInv
<1>5. u.kind = "webhook"
  BY <1>2, <1>4 DEF RoutesAreDistinct, Webhooks
<1>6. x.workflow = w
  BY <1>1, <1>2, <1>3, <1>4, <1>5 DEF RoutesAreDistinct, SameRoute
<1> QED
  BY <1>6, NobodyElsesKey

\* So no INSERT of a clean request fails.
LEMMA NothingCollides ==
  ASSUME TypeOK, SessionInv, WantedInv, OneInv, RowsInv, PastInv, RoutesAreDistinct,
         NEW r \in Request, Clean(r)
  PROVE  ~RegisterCollidesEffect(r)
<1> SUFFICES ASSUME RegisterCollidesEffect(r) PROVE FALSE
  OBVIOUS
<1>1. AdvanceEffect(r, TRUE) /\ Frame(r) /\ Current(r).kind \in Webhooks
  BY DEF RegisterCollidesEffect
<1>2. \A x \in Held : x.kind = "webhook" => x.key # Current(r).key
  BY <1>1, NobodyElsesKey
<1>3. ~KeyTaken(r, Current(r))
  BY <1>2 DEF KeyTaken, Visible, Held, Pending, WebhookRows
<1>4. ASSUME NEW q \in Request \ {r}, NEW x \in txn[q].inserted \cup txn[q].deleted,
             x.kind = "webhook"
      PROVE  x.key # Current(r).key
  <2>1. x \in Known
    BY <1>4 DEF Known, Held, Pending, Touched
  <2>2. Working(q) /\ x.workflow = req[q].workflow
    BY <1>4 DEF SessionInv, NoTxn, Touched
  <2>3. x.workflow # req[r].workflow
    BY <2>2 DEF OneInv
  <2> QED
    BY <1>1, <1>4, <2>1, <2>3, KeyIsFree
<1>5. ~KeyLocked(r, Current(r))
  BY <1>4 DEF KeyLocked, WebhookRows
<1> QED
  BY <1>3, <1>5 DEF RegisterCollidesEffect

\* A step that changes neither the rows nor what is hidden leaves what should be
\* in service as it is.
LEMMA SameServed ==
  ASSUME NEW r \in Request, Effect(r), Held' = Held,
         \A x \in Held : Hides(r, x)' <=> Hides(r, x)
  PROVE  Served' = Served
<1>1. \A q \in Request \ {r} : req'[q] = req[q]
  BY EffectFrame
<1>2. \A q \in Request \ {r} : \A x \in Held : Hides(q, x)' <=> Hides(q, x)
  BY <1>1 DEF Hides, Working, Dropped
<1> QED
  BY <1>2 DEF Served

\* A step that leaves rows and transactions alone keeps the rows.
LEMMA SameHeld ==
  ASSUME NEW r \in Request, Effect(r), rows' = rows, txn'[r].inserted = txn[r].inserted
  PROVE  Held' = Held
<1>1. \A q \in Request : txn'[q].inserted = txn[q].inserted
  BY EffectFrame
<1> QED
  BY <1>1 DEF Held, Pending

\* A commit moves rows, and hides or shows none.
LEMMA CommitsServe ==
  ASSUME TypeOK, SessionInv, OneInv, RowsInv, NEW r \in Request, Effect(r), Clean(r),
         CommitTeardownEffect(r) \/ CommitActivateEffect(r)
  PROVE  Served' = Served
<1>0. NoTxn.inserted = {} /\ Idle.pc = "idle"
  BY DEF NoTxn, Idle
<1>1. \A q \in Request \ {r} : req'[q] = req[q] /\ txn'[q] = txn[q]
  BY EffectFrame
<1>2. \A q \in Request \ {r} : \A x : Hides(q, x)' <=> Hides(q, x)
  BY <1>1 DEF Hides, Working, Dropped
<1>3. \A x : ~Hides(r, x)'
  BY <1>0 DEF CommitTeardownEffect, CommitActivateEffect, Ends, Hides, Dropped, Working
<1>4. CASE CommitTeardownEffect(r)
  <2>1. txn[r].inserted = {} /\ txn[r].deleted = Own(r, rows) /\ TearingDown(r) /\ Working(r)
    BY <1>4 DEF CommitTeardownEffect, SessionInv, TearingDown, RowsInv, RowsOf, Working
  <2>2. rows' = rows \ Own(r, rows) /\ txn'[r].inserted = {}
    BY <1>0, <1>4, <2>1 DEF CommitTeardownEffect
  <2>3. Pending' = Pending
    BY <1>1, <2>1, <2>2 DEF Pending
  <2>4. \A x \in Held : x.workflow = req[r].workflow => x \in Own(r, rows)
    BY <2>1, OwnIsCommitted
  <2>5. \A x \in Pending : x \notin Own(r, rows)
    <3> TAKE x \in Pending
    <3>1. PICK q \in Request : x \in txn[q].inserted
      BY DEF Pending
    <3>2. q # r /\ Working(q) /\ x.workflow = req[q].workflow
      BY <2>1, <3>1 DEF SessionInv, NoTxn
    <3> QED
      BY <2>1, <3>2 DEF OneInv, Own
  <2>6. \A x : x \in Held' <=> x \in Held /\ x \notin Own(r, rows)
    BY <2>2, <2>3, <2>5 DEF Held
  <2>7. \A x \in Held : Hides(r, x) <=> x \in Own(r, rows)
    BY <1>4, <2>1, <2>4 DEF CommitTeardownEffect, Hides, Dropped, Own
  <2> QED
    BY <1>2, <1>3, <2>6, <2>7 DEF Served
<1>5. CASE CommitActivateEffect(r)
  <2>1. rows' = rows \cup txn[r].inserted /\ txn'[r].inserted = {}
    BY <1>0, <1>5 DEF CommitActivateEffect
  <2>2. Held' = Held
    BY <1>1, <2>1 DEF Held, Pending
  <2>3. \A x : ~Hides(r, x)
    BY <1>5 DEF CommitActivateEffect, Hides, Dropped
  <2> QED
    BY <1>3, <2>2, <2>3, SameServed
<1> QED
  BY <1>4, <1>5

\* unregister() takes out of service exactly what was listed.
LEMMA DropServes ==
  ASSUME TypeOK, SessionInv, KeysInv, OneInv, RowsInv, NEW r \in Request, Effect(r), DropLiveEffect(r),
         Clean(r), NEW w, w = req[r].workflow, LiveOf(w)
  PROVE  LiveOf(w)'
<1> DEFINE listed == req[r].listed
           kind == req[r].kind
<1>1. /\ listed = {x \in Own(r, rows) : x.kind = kind} /\ kind \in Kind
      /\ TearingDown(r) /\ Working(r) /\ req[r].pc = "drop"
  BY DEF DropLiveEffect, RowsInv, RowsOf, Frame, InFlight, TearingDown
<1>2. Held' = Held
  BY SameHeld DEF DropLiveEffect
<1>3. \A x \in Held : x.kind \in Kind
  BY DEF TypeOK, Txn, Row, Held, Pending
<1>4. \A x \in Held : x.workflow = req[r].workflow => x \in Own(r, rows)
  BY <1>1, OwnIsCommitted
<1>5. \A x \in Held : Hides(r, x)' <=> Hides(r, x) \/ x \in listed
  <2> TAKE x \in Held
  <2>1. Hides(r, x)' <=> req[r].workflow = x.workflow /\ (x.kind = "webhook" \/ kind = "schedule")
    BY DEF DropLiveEffect, GoesOn, Hides, Dropped, Working
  <2>2. Hides(r, x) <=> req[r].workflow = x.workflow /\ x.kind = "webhook" /\ kind = "schedule"
    BY <1>1 DEF Hides, Dropped
  <2>3. x \in listed <=> req[r].workflow = x.workflow /\ x.kind = kind
    BY <1>1, <1>4 DEF Own
  <2> QED
    BY <1>1, <1>3, <2>1, <2>2, <2>3 DEF Kind
<1>6. \A q \in Request \ {r} : \A x \in Held : Hides(q, x)' <=> Hides(q, x)
  BY EffectFrame DEF Hides, Working, Dropped
<1>7. Served' = Served \ listed
  BY <1>2, <1>5, <1>6 DEF Served
<1>8. listed \subseteq Held /\ Served \subseteq Held
  BY <1>1 DEF Own, Held, Served
<1>a. \A y \in listed : y.workflow = w
  BY <1>1 DEF Own
<1>9. Of(w, registry') = Of(w, WebhookRows(Served \ listed))
  <2>1. \A e \in WebhookRows(Served), y \in WebhookRows(listed) : e.key = y.key => e = y
    BY <1>8 DEF KeysInv, WebhookRows
  <2>2. registry' = {e \in registry : \A y \in WebhookRows(listed) : y.key # e.key}
    BY DEF DropLiveEffect, Unregistered
  <2>3. Of(w, registry) = Of(w, WebhookRows(Served))
    BY DEF LiveOf
  <2> HIDE DEF listed
  <2>4. ASSUME NEW e PROVE e \in Of(w, registry') <=> e \in Of(w, WebhookRows(Served \ listed))
    BY <2>1, <2>2, <2>3 DEF WebhookRows, Of
  <2> QED
    BY <2>4
<1>10. {j \in jobs' : j[1] = w} = Jobs(Of(w, Served \ listed))
  <2>1. \A y \in listed, x \in Served : y.kind = "schedule" /\ x.kind = "schedule" /\ JobId(x) = JobId(y)
                                          => x \in listed
    <3> TAKE y \in listed, x \in Served
    <3> HAVE y.kind = "schedule" /\ x.kind = "schedule" /\ JobId(x) = JobId(y)
    <3>1. x.workflow = y.workflow /\ y.workflow = req[r].workflow /\ kind = "schedule"
      BY <1>1 DEF JobId, Own
    <3> QED
      BY <1>1, <1>4, <1>8, <3>1 DEF Own
  <2>2. jobs' = jobs \ Jobs(listed) /\ {j \in jobs : j[1] = w} = Jobs(Of(w, Served))
    BY DEF DropLiveEffect, LiveOf
  <2> HIDE DEF listed
  <2>3. {j \in jobs' : j[1] = w} = Jobs(Of(w, Served)) \ Jobs(listed)
    BY <2>2
  <2>4. Jobs(Of(w, Served)) \ Jobs(listed) = Jobs(Of(w, Served \ listed))
    BY <2>1 DEF Jobs, Of
  <2> QED
    BY <2>3, <2>4
<1> QED
  BY <1>7, <1>9, <1>10 DEF LiveOf, Of

\* A row that is flushed is put into service.
LEMMA RegisterServes ==
  ASSUME TypeOK, SessionInv, RegistryInv, WantedInv, OneInv, RowsInv, PastInv, RoutesAreDistinct,
         NEW r \in Request, Effect(r), RegisterWebhookEffect(r) \/ RegisterScheduleEffect(r),
         Clean(r), NEW w, w = req[r].workflow, LiveOf(w)
  PROVE  LiveOf(w)'
<1> DEFINE new == NewRow(r)
<1>1. /\ Flushed(r) /\ Frame(r) /\ AdvanceEffect(r, FALSE) /\ Held' = Held \cup {new}
      /\ req[r].pc = "register" /\ req'[r].pc = "register"
  BY HeldGrows DEF RegisterWebhookEffect, RegisterScheduleEffect, Flushed, AdvanceEffect
<1>2. new \in Row /\ new.workflow = req[r].workflow /\ new.key = Current(r).key
  BY <1>1 DEF Flushed
<1>3. \A q \in Request : \A x : Hides(q, x)' <=> Hides(q, x)
  <2>1. \A x : ~Hides(r, x) /\ ~Hides(r, x)'
    BY <1>1 DEF Hides, Dropped
  <2>2. \A q \in Request \ {r} : \A x : Hides(q, x)' <=> Hides(q, x)
    BY EffectFrame DEF Hides, Working, Dropped
  <2> QED
    BY <2>1, <2>2
<1>4. \A q \in Request : ~Hides(q, new)
  <2>1. ~Hides(r, new)
    BY <1>1 DEF Hides, Dropped
  <2>2. ASSUME NEW q \in Request, q # r PROVE ~Hides(q, new)
    BY <1>1, <1>2, <2>2 DEF Hides, OneInv
  <2> QED
    BY <2>1, <2>2
<1>5. Served' = Served \cup {new}
  BY <1>1, <1>3, <1>4 DEF Served
<1>6. CASE RegisterWebhookEffect(r)
  <2>1. /\ Current(r).kind \in Webhooks /\ new.kind = "webhook" /\ jobs' = jobs
        /\ registry' = Registered(new)
    BY <1>6 DEF RegisterWebhookEffect
  <2>2. ASSUME NEW e \in registry PROVE e.key # new.key
    <3>1. e \in Known /\ e.kind = "webhook"
      BY <2>2 DEF Known, RegistryInv, WebhookRows
    <3>2. e.workflow = w => e \in Held
      BY <2>2 DEF LiveOf, Of, WebhookRows, Served
    <3> QED
      BY <1>1, <1>2, <2>1, <3>1, <3>2, KeyIsFree
  <2>5. Current(r) \in Wanted(req[r].workflow) /\ req[r].workflow \in Workflow
    BY <1>1, CurrentIsWanted DEF Frame, InFlight
  <2>6. new.supported
    BY <1>1, <2>5 DEF Flushed, RoutesAreDistinct
  <2> HIDE DEF new
  <2>7. registry' = registry \cup {new}
    BY <2>1, <2>2, <2>6 DEF Registered, Refuses
  <2>8. Of(w, registry') = Of(w, registry) \cup {new}
    BY <1>2, <2>7 DEF Of
  <2>9. Of(w, WebhookRows(Served \cup {new})) = Of(w, WebhookRows(Served)) \cup {new}
    BY <1>2, <2>1 DEF Of, WebhookRows
  <2>10. Jobs(Of(w, Served \cup {new})) = Jobs(Of(w, Served))
    BY <2>1 DEF Of, Jobs
  <2> QED
    BY <1>5, <2>1, <2>8, <2>9, <2>10 DEF LiveOf, Of
<1>7. CASE RegisterScheduleEffect(r)
  <2>1. new.kind = "schedule" /\ registry' = registry /\ jobs' = jobs \cup {JobId(new)}
    BY <1>7 DEF RegisterScheduleEffect
  <2>2. JobId(new)[1] = w
    BY <1>2 DEF JobId
  <2> HIDE DEF new
  <2>3. {j \in jobs' : j[1] = w} = {j \in jobs : j[1] = w} \cup {JobId(new)}
    BY <2>1, <2>2
  <2>4. Jobs(Of(w, Served \cup {new})) = Jobs(Of(w, Served)) \cup {JobId(new)}
    BY <1>2, <2>1 DEF Of, Jobs
  <2>5. Of(w, WebhookRows(Served \cup {new})) = Of(w, WebhookRows(Served))
    BY <2>1 DEF Of, WebhookRows
  <2> QED
    BY <1>5, <2>1, <2>3, <2>4, <2>5 DEF LiveOf, Of
<1> QED
  BY <1>6, <1>7

\* A step that registers or commits nothing leaves what should be in service.
LEMMA QuietSteps ==
  ASSUME TypeOK, SessionInv, NEW r \in Request, Effect(r),
         ReceiveEffect(r) \/ SetFlagEffect(r) \/ ListRowsEffect(r) \/ DeleteRowsEffect(r)
           \/ RegisterRefusedEffect(r)
  PROVE  Served' = Served /\ UNCHANGED <<registry, jobs>> /\ txn'[r].broken = txn[r].broken
<1>0. Idle.pc = "idle"
  BY DEF Idle
<1>1. /\ UNCHANGED <<registry, jobs>> /\ rows' = rows
      /\ txn'[r].inserted = txn[r].inserted /\ txn'[r].broken = txn[r].broken
  BY DEF ReceiveEffect, SetFlagEffect, ListRowsEffect, DeleteRowsEffect, RegisterRefusedEffect
<1>2. Held' = Held
  BY <1>1, SameHeld
<1>3. CASE ReceiveEffect(r)
  <2>1. \A x : ~Hides(r, x) /\ ~Hides(r, x)'
    BY <1>3 DEF ReceiveEffect, Hides, Dropped
  <2> QED
    BY <1>1, <1>2, <2>1, SameServed
<1>4. CASE SetFlagEffect(r)
  <2>1. \A x : ~Hides(r, x) /\ ~Hides(r, x)'
    BY <1>0, <1>4 DEF SetFlagEffect, Hides, Dropped
  <2> QED
    BY <1>1, <1>2, <2>1, SameServed
<1>5. CASE ListRowsEffect(r)
  <2>1. \A x : Hides(r, x) <=> Hides(r, x)'
    BY <1>5 DEF ListRowsEffect, GoesOn, Hides, Dropped, Working
  <2> QED
    BY <1>1, <1>2, <2>1, SameServed
<1>6. CASE DeleteRowsEffect(r)
  <2>1. req[r].kind \in Kind
    BY <1>6 DEF DeleteRowsEffect, Frame, InFlight
  <2>2. \A x \in Held : x.kind \in Kind
    BY DEF TypeOK, Txn, Row, Held, Pending
  <2>3. \A x \in Held : Hides(r, x) <=> Hides(r, x)'
    BY <1>6, <2>1, <2>2 DEF DeleteRowsEffect, GoesOn, Hides, Dropped, Working, Kind
  <2> QED
    BY <1>1, <1>2, <2>3, SameServed
<1>7. CASE RegisterRefusedEffect(r)
  <2>1. \A x : ~Hides(r, x) /\ ~Hides(r, x)'
    BY <1>7 DEF RegisterRefusedEffect, AdvanceEffect, Hides, Dropped
  <2> QED
    BY <1>1, <1>2, <2>1, SameServed
<1> QED
  BY <1>3, <1>4, <1>5, <1>6, <1>7

\* A step of a request leaves alone what is in service of other workflows.
LEMMA OthersLive ==
  ASSUME TypeOK, SessionInv, RegistryInv, WantedInv, RoutesAreDistinct,
         NEW r \in Request, Effect(r), ~ReceiveEffect(r), NEW w, req[r].workflow # w, LiveOf(w)
  PROVE  LiveOf(w)'
<1>0. /\ Frame(r) /\ Working(r) /\ (Working(r)' => req'[r].workflow = req[r].workflow)
      /\ \A q \in Request \ {r} : req'[q] = req[q] /\ txn'[q] = txn[q]
  BY SameWorkflow, EffectFrame DEF GoesOn
<1>1. Of(w, rows)' = Of(w, rows)
  BY OthersRows
<1>2. \A x \in txn[r].inserted : x.workflow # w
  BY <1>0 DEF SessionInv
<1>3. \A x \in txn'[r].inserted : x.workflow # w
  <2>1. CASE Flushed(r)
    BY <1>2, <2>1 DEF Flushed
  <2>2. CASE ~Flushed(r)
    <3>0. NoTxn.inserted = {}
      BY DEF NoTxn
    <3>1. txn'[r].inserted \subseteq txn[r].inserted
      BY <2>2, <3>0 DEF Effect, ReceiveEffect, SetFlagEffect, ListRowsEffect, DropLiveEffect,
        DropLiveRaisesEffect, DeleteRowsEffect, CommitTeardownEffect, RegisterRefusedEffect,
        RegisterCollidesEffect, RegisterWebhookEffect, RegisterScheduleEffect,
        CommitRaisesEffect, CommitActivateEffect, Ends
    <3> QED
      BY <1>2, <3>1
  <2> QED
    BY <2>1, <2>2
<1>4. \A x : x.workflow = w => (x \in Held' <=> x \in Held)
  <2>1. \A x : x.workflow = w => (x \in Pending' <=> x \in Pending)
    BY <1>0, <1>2, <1>3 DEF Pending
  <2> QED
    BY <1>1, <2>1 DEF Held, Of
<1>5. \A x : \A q \in Request : x.workflow = w => (Hides(q, x)' <=> Hides(q, x))
  BY <1>0 DEF Hides, Working, Dropped
<1>6. \A x : x.workflow = w => (x \in Served' <=> x \in Served)
  BY <1>4, <1>5 DEF Served
<1>7. ASSUME req[r].pc = "drop", NEW X \in SUBSET req[r].listed
      PROVE  Of(w, Unregistered(X)) = Of(w, registry) /\ \A j \in Jobs(X) : j[1] # w
  <2>1. \A y \in X : y \in Known /\ y.workflow # w
    BY <1>0, <1>7 DEF Touched, SessionInv, Known
  <2>2. ASSUME NEW y \in X, NEW e \in registry, y.kind = "webhook", e.workflow = w
        PROVE  y.key # e.key
    <3>1. e \in Known /\ e.kind = "webhook"
      BY <2>2 DEF Known, RegistryInv, WebhookRows
    <3> QED
      BY <2>1, <2>2, <3>1, DistinctKeys
  <2> QED
    BY <2>1, <2>2 DEF Of, Unregistered, WebhookRows, Jobs, JobId
<1>8. Of(w, registry') = Of(w, registry) /\ {j \in jobs' : j[1] = w} = {j \in jobs : j[1] = w}
  <2>1. CASE DropLiveEffect(r) \/ DropLiveRaisesEffect(r)
    BY <1>7, <2>1 DEF DropLiveEffect, DropLiveRaisesEffect
  <2>2. CASE RegisterWebhookEffect(r) \/ RegisterScheduleEffect(r)
    <3>1. NewRow(r).workflow # w /\ JobId(NewRow(r))[1] # w
      BY <2>2 DEF RegisterWebhookEffect, RegisterScheduleEffect, Flushed, JobId
    <3>2. registry' \in {registry, registry \cup {NewRow(r)}} /\ jobs' \in {jobs, jobs \cup {JobId(NewRow(r))}}
      BY <2>2 DEF RegisterWebhookEffect, RegisterScheduleEffect, Registered
    <3> QED
      BY <3>1, <3>2 DEF Of
  <2>3. CASE UNCHANGED <<registry, jobs>>
    BY <2>3
  <2> QED
    BY <2>1, <2>2, <2>3
    DEF Effect, SetFlagEffect, ListRowsEffect, DeleteRowsEffect, CommitTeardownEffect,
        RegisterRefusedEffect, RegisterCollidesEffect, CommitRaisesEffect, CommitActivateEffect
<1>9. Of(w, WebhookRows(Served')) = Of(w, WebhookRows(Served)) /\ Of(w, Served') = Of(w, Served)
  BY <1>6 DEF Of, WebhookRows
<1> QED
  BY <1>8, <1>9 DEF LiveOf, Of

\* A step of a clean request keeps what is in service of its workflow right.
LEMMA OwnLive ==
  ASSUME TypeOK, SessionInv, KeysInv, RegistryInv, WantedInv, OneInv, RowsInv, PastInv,
         RoutesAreDistinct, NEW r \in Request, Effect(r), Clean(r), ~txn[r].broken,
         NEW w, w = req[r].workflow, LiveOf(w)
  PROVE  LiveOf(w)' /\ ~txn'[r].broken
<1>0. NoTxn.broken = FALSE
  BY DEF NoTxn
<1>1. ASSUME Served' = Served, UNCHANGED <<registry, jobs>> PROVE LiveOf(w)'
  BY <1>1 DEF LiveOf, Of, WebhookRows, Jobs
<1>2. CASE ReceiveEffect(r) \/ SetFlagEffect(r) \/ ListRowsEffect(r) \/ DeleteRowsEffect(r)
             \/ RegisterRefusedEffect(r)
  BY <1>1, <1>2, QuietSteps
<1>3. CASE DropLiveEffect(r)
  BY <1>3, DropServes DEF DropLiveEffect
<1>4. CASE DropLiveRaisesEffect(r)
  <2>1. req[r].listed \subseteq Known
    BY <1>4 DEF DropLiveRaisesEffect, Touched, Known
  <2> QED
    BY <1>4, <2>1, AllSupported DEF DropLiveRaisesEffect, Supported
<1>5. CASE CommitTeardownEffect(r) \/ CommitActivateEffect(r)
  <2>1. UNCHANGED <<registry, jobs>> /\ txn'[r] = NoTxn
    BY <1>5 DEF CommitTeardownEffect, CommitActivateEffect
  <2> QED
    BY <1>0, <1>1, <1>5, <2>1, CommitsServe
<1>6. CASE RegisterCollidesEffect(r)
  BY <1>6, NothingCollides
<1>7. CASE RegisterWebhookEffect(r) \/ RegisterScheduleEffect(r)
  BY <1>7, RegisterServes DEF RegisterWebhookEffect, RegisterScheduleEffect, Flushed
<1>8. CASE CommitRaisesEffect(r)
  BY <1>8 DEF CommitRaisesEffect
<1> QED
  BY <1>2, <1>3, <1>4, <1>5, <1>6, <1>7, <1>8 DEF Effect

\* LiveInv is kept.
LEMMA NextLive ==
  ASSUME TypeOK, SessionInv, KeysInv, RegistryInv, WantedInv, OneInv, RowsInv, PastInv,
         RoutesAreDistinct, LiveInv, [Next]_vars
  PROVE  LiveInv'
<1>1. ASSUME NEW r \in Request, Effect(r) PROVE LiveInv'
  <2>1. up' /\ overlapped \subseteq overlapped' /\ \A q \in Request \ {r} : txn'[q] = txn[q]
    BY <1>1, EffectFrame DEF LiveInv
  <2>2. CASE ReceiveEffect(r)
    <3>1. Served' = Served /\ UNCHANGED <<registry, jobs, txn>>
      BY <1>1, <2>2, QuietSteps DEF ReceiveEffect
    <3>2. \A w \in Workflow \ overlapped' : LiveOf(w)'
      BY <2>1, <3>1 DEF LiveInv, LiveOf, Of, WebhookRows, Jobs
    <3>3. ~txn[r].broken
      BY <2>2 DEF ReceiveEffect, SessionInv, NoTxn
    <3>4. ASSUME NEW q \in Request \ {r}, Clean(q)' PROVE ~txn[q].broken
      BY <1>1, <3>4, CleanBefore DEF LiveInv
    <3> QED
      BY <2>1, <3>1, <3>2, <3>3, <3>4 DEF LiveInv
  <2>3. CASE ~ReceiveEffect(r)
    <3>1. ASSUME NEW w \in Workflow \ overlapped' PROVE LiveOf(w)'
      <4>1. LiveOf(w) /\ w \notin overlapped
        BY <2>1, <3>1 DEF LiveInv
      <4>2. CASE req[r].workflow # w
        BY <1>1, <2>3, <4>1, <4>2, OthersLive
      <4>3. CASE req[r].workflow = w
        <5>1. Clean(r) /\ ~txn[r].broken
          BY <1>1, <2>3, <4>1, <4>3, SameWorkflow DEF Clean, LiveInv
        <5> QED
          BY <1>1, <4>1, <4>3, <5>1, OwnLive
      <4> QED
        BY <4>2, <4>3
    <3>2. ASSUME NEW q \in Request, Clean(q)' PROVE ~txn'[q].broken
      <4>1. Clean(q) /\ ~txn[q].broken
        BY <1>1, <2>3, <3>2, CleanBefore DEF LiveInv
      <4>2. CASE q = r
        <5>1. req[r] \in InFlight
          BY <1>1, <2>3, SameWorkflow
        <5>2. req[r].workflow \in Workflow \ overlapped
          BY <4>1, <4>2, <5>1 DEF Clean, InFlight
        <5>w. PICK w \in Workflow \ overlapped : w = req[r].workflow
          BY <5>2
        <5>3. LiveOf(w)
          BY DEF LiveInv
        <5> QED
          BY <1>1, <4>1, <4>2, <5>w, <5>3, OwnLive
      <4>3. CASE q # r
        BY <2>1, <4>1, <4>3
      <4> QED
        BY <4>2, <4>3
    <3> QED
      BY <2>1, <3>1, <3>2 DEF LiveInv
  <2> QED
    BY <2>2, <2>3
<1>2. CASE RestartEffect
  <2>1. Supported(rows)
    BY AllSupported DEF Supported, Known, Held
  <2>2. up' /\ registry' = WebhookRows(rows) /\ jobs' = Jobs(rows)
    BY <1>2, <2>1 DEF RestartEffect
  <2>3. Served' = rows /\ \A r \in Request : ~Clean(r)'
    BY <1>2 DEF RestartEffect, Served, Held, Pending, NoTxn, Hides, Clean, Working, Idle
  <2>4. \A w : {j \in Jobs(rows) : j[1] = w} = Jobs(Of(w, rows))
    BY DEF Jobs, JobId, Of
  <2> QED
    BY <2>2, <2>3, <2>4 DEF LiveInv, LiveOf, Of
<1>3. CASE EditEffect
  <2>1. Served' = Served
    BY <1>3 DEF EditEffect, Served, Held, Pending, Hides, Working, Dropped
  <2> QED
    BY <1>3, <2>1 DEF EditEffect, LiveInv, LiveOf, Of, WebhookRows, Jobs, Clean, Working
<1> QED
  BY <1>1, <1>2, <1>3, NextEffects

-----------------------------------------------------------------------------
(* The invariant and what follows.                                          *)

\* The invariant holds at the start.
LEMMA InitIInv == Init => IInv
<1> SUFFICES ASSUME Init PROVE IInv
  OBVIOUS
<1>0. Idle.pc = "idle" /\ NoTxn.inserted = {} /\ NoTxn.broken = FALSE
  BY DEF Idle, NoTxn
<1>1. \A r \in Request : req[r] = Idle /\ txn[r] = NoTxn
  BY DEF Init
<1>2. Pending = {} /\ rows = {} /\ registry = {} /\ jobs = {}
  BY <1>0, <1>1 DEF Init, Pending
<1>3. Held = {} /\ Entries = {} /\ Served = {} /\ Known = {}
  <2>1. \A r \in Request : Touched(r) = {}
    BY <1>1 DEF Touched, NoTxn, Idle
  <2> QED
    BY <1>2, <2>1 DEF Held, Entries, Served, Known
<1>4. TypeOK
  <2>1. \A w \in Workflow : definition[w] \in Seq(Triggers)
    BY VersionsAreLists DEF Init
  <2>2. definition \in [Workflow -> Seq(Triggers)]
    BY <2>1 DEF Init
  <2>3. NoTxn \in Txn
    BY DEF NoTxn, Txn
  <2>4. IsFiniteSet(Entries)
    BY <1>3, FS_EmptySet
  <2> QED
    BY <2>2, <2>3, <2>4 DEF Init, TypeOK
<1>5. SessionInv /\ OneInv /\ RowsInv /\ LoopInv /\ PastInv
  BY <1>0, <1>1 DEF SessionInv, OneInv, RowsInv, RowsOf, LoopInv, LoopOf, PastInv, PastOf,
                    Clean, Working, TearingDown
<1>6. KeysInv /\ RegistryInv /\ WantedInv
  BY <1>2, <1>3 DEF KeysInv, RegistryInv, WantedInv, WebhookRows
<1>7. LiveInv
  BY <1>0, <1>1, <1>2, <1>3 DEF Init, LiveInv, LiveOf, Of, Clean, Working, WebhookRows, Jobs
<1> QED
  BY <1>4, <1>5, <1>6, <1>7 DEF IInv

\* The situation never changes.
LEMMA SameSituation ==
  ASSUME TypeOK, [Next]_vars
  PROVE  offered' = offered /\ (RoutesAreDistinct' <=> RoutesAreDistinct)
<1>1. offered' = offered
  BY NextEffects, EffectFrame DEF RestartEffect, EditEffect
<1> QED
  BY <1>1 DEF RoutesAreDistinct, Wanted

\* Every step keeps the invariant.
LEMMA NextIInv == IInv /\ [Next]_vars => IInv'
<1> SUFFICES ASSUME IInv, [Next]_vars PROVE IInv'
  OBVIOUS
<1> USE DEF IInv
<1>1. TypeOK' /\ SessionInv'
  BY NextTypeOK, NextSession
<1>2. KeysInv' /\ RegistryInv' /\ WantedInv' /\ OneInv' /\ RowsInv'
  BY NextKeys, NextRegistry, NextWanted, NextOne, NextRows
<1>3. LoopInv' /\ PastInv'
  BY NextLoop
<1>4. RoutesAreDistinct' => LiveInv'
  BY SameSituation, NextLive
<1> QED
  BY <1>1, <1>2, <1>3, <1>4

\* The invariant is one.
LEMMA Invariance == Spec => []IInv
BY InitIInv, NextIInv, PTL DEF Spec

\* manager.activate and manager.deactivate, webhooks/registry.py: whenever no
\* request for a workflow is in flight and none of its requests has overlapped
\* another, its entries and jobs in service are those of its rows, whatever
\* crashed, was rolled back or was edited before and however the requests for
\* other workflows overlap.
THEOREM LiveStateFollowsRows == Spec => []LiveStateMatchesRows
<1>1. IInv => LiveStateMatchesRows
  <2> SUFFICES ASSUME IInv, RoutesAreDistinct, NEW w \in Workflow \ overlapped, ~Busy(w)
               PROVE  /\ Of(w, registry) = Of(w, WebhookRows(rows))
                      /\ {j \in jobs : j[1] = w} = Jobs(Of(w, rows))
    BY DEF LiveStateMatchesRows
  <2>1. \A r \in Request : Working(r) => req[r].workflow # w
    BY DEF Busy, Working
  <2>2. \A r \in Request : \A x \in txn[r].inserted : x.workflow # w
    BY <2>1 DEF IInv, SessionInv, NoTxn
  <2>3. \A x : x.workflow = w => (x \in Served <=> x \in rows)
    BY <2>1, <2>2 DEF Served, Held, Pending, Hides
  <2>4. Of(w, WebhookRows(Served)) = Of(w, WebhookRows(rows)) /\ Of(w, Served) = Of(w, rows)
    BY <2>3 DEF Of, WebhookRows
  <2> QED
    BY <2>4 DEF IInv, LiveInv, LiveOf
<1> QED
  BY <1>1, Invariance, PTL

\* manager.deactivate: when it commits, nothing of the workflow is left in the
\* tables, in the registry or in the scheduler, as long as the workflow's own
\* requests have not overlapped.
THEOREM TeardownAlwaysCompletes == Spec => TeardownIsComplete
<1>1. IInv /\ [Next]_vars =>
        [\A r \in Request, w \in Workflow \ overlapped :
           CommitTeardown(r) /\ req[r].workflow = w /\ RoutesAreDistinct => Silent(w)']_vars
  <2> SUFFICES ASSUME IInv, [Next]_vars, NEW r \in Request, NEW w \in Workflow \ overlapped,
                      CommitTeardown(r), req[r].workflow = w, RoutesAreDistinct
               PROVE  Silent(w)'
    OBVIOUS
  <2> USE DEF IInv
  <2>1. CommitTeardownEffect(r)
    BY TeardownEffects
  <2>2. txn[r].inserted = {} /\ txn[r].deleted = Own(r, rows) /\ TearingDown(r) /\ Working(r)
    BY <2>1 DEF CommitTeardownEffect, SessionInv, TearingDown, RowsInv, RowsOf, Clean, Working
  <2>3. \A x \in rows' : x.workflow # w
    BY <2>1, <2>2 DEF CommitTeardownEffect, Own
  <2>4. \A x \in Served : x.workflow # w
    BY <2>1, <2>2 DEF CommitTeardownEffect, Served, Hides, Dropped
  <2>5. /\ UNCHANGED <<registry, jobs>> /\ Of(w, registry) = Of(w, WebhookRows(Served))
        /\ {j \in jobs : j[1] = w} = Jobs(Of(w, Served))
    BY <2>1 DEF CommitTeardownEffect, LiveInv, LiveOf
  <2>6. \A x \in registry' : x.workflow # w
    BY <2>4, <2>5 DEF WebhookRows, Of
  <2>7. \A j \in jobs' : j[1] # w
    BY <2>4, <2>5 DEF Jobs, Of
  <2> QED
    BY <2>3, <2>6, <2>7 DEF Silent
<1> QED
  BY <1>1, Invariance, PTL DEF Spec, TeardownIsComplete

\* activate_workflow: when an activation without errors commits, every trigger
\* node the request read has its row and its entry or job, whatever other
\* requests did in between and whether routes collide or not; requests that
\* overlap matter only if they are for the same workflow or want its routes.
THEOREM ActivationAlwaysCompletes == Spec => ActivationIsComplete
<1>1. IInv /\ [Next]_vars =>
        [\A r \in Request :
           CommitActivate(r) /\ req'[r].pc = "flag" /\ Orderly(req[r].workflow)
             => \A t \in ToSet(req[r].read) : Live(r, t)']_vars
  <2> SUFFICES ASSUME IInv, [Next]_vars, NEW r \in Request, CommitActivate(r), req'[r].pc = "flag",
                      Orderly(req[r].workflow), NEW t \in ToSet(req[r].read)
               PROVE  Live(r, t)'
    OBVIOUS
  <2> USE DEF IInv
  <2>1. CommitActivateEffect(r)
    BY RegisterEffects
  <2>2. /\ req[r].pc = "register" /\ ~req[r].errors /\ req[r].todo = <<>> /\ req[r] \in InFlight
        /\ rows' = rows \cup txn[r].inserted /\ registry' = registry /\ jobs' = jobs
        /\ req'[r].workflow = req[r].workflow /\ Working(r)
    BY <2>1 DEF CommitActivateEffect, Frame, GoesOn
  <2>3. req[r].read \in Seq(Triggers)
    BY <2>2 DEF InFlight
  <2>4. PICK i \in DOMAIN req[r].read : t = req[r].read[i]
    BY DEF ToSet
  <2>5. i \in 1 .. Past(r)
    BY <2>2, <2>3 DEF Past
  <2>6. Begun(r, t)
    BY <2>2, <2>4, <2>5 DEF LoopInv, LoopOf
  <2>7. PICK x \in txn[r].inserted :
          \/ t.kind = "webhook" /\ x.kind = "webhook" /\ x.key = t.key /\ x \in registry
          \/ t.kind = "schedule" /\ x.kind = "schedule" /\ x.node = t.node /\ JobId(x) \in jobs
    BY <2>6 DEF Begun
  <2>8. x.workflow = req'[r].workflow /\ x \in rows'
    BY <2>2 DEF SessionInv
  <2> QED
    BY <2>2, <2>7, <2>8 DEF Live, Jobs, JobId
<1> QED
  BY <1>1, Invariance, PTL DEF Spec, ActivationIsComplete

\* WebhookRegistry.unregister asks for no owner, and yet a route in the tables is
\* taken out of service only by a request for its own workflow, unless requests
\* overlap and workflows want the same route.
THEOREM ServedRoutesAreAlwaysKept == Spec => ServedRoutesAreKept
<1>1. IInv /\ [Next]_vars =>
        [\A e \in registry \cap rows :
           e \notin registry' /\ (RoutesAreDistinct \/ overlapped = {}) =>
             \/ Restart
             \/ \E r \in Request : /\ DropLive(r) \/ DropLiveRaises(r)
                                   /\ req[r].workflow = e.workflow]_vars
  <2> SUFFICES ASSUME IInv, [Next]_vars, NEW e \in registry \cap rows, e \notin registry',
                      RoutesAreDistinct \/ overlapped = {}, ~Restart
               PROVE  \E r \in Request : /\ DropLive(r) \/ DropLiveRaises(r)
                                         /\ req[r].workflow = e.workflow
    OBVIOUS
  <2> USE DEF IInv
  <2>2. ASSUME NEW r \in Request, DropLive(r) \/ DropLiveRaises(r)
        PROVE  req[r].workflow = e.workflow
    <3>1. PICK X \in SUBSET req[r].listed : registry' = Unregistered(X)
      BY <2>2 DEF DropLive, DropLiveRaises
    <3>2. req[r].pc = "drop"
      BY <2>2 DEF DropLive, DropLiveRaises
    <3>4. PICK y \in WebhookRows(X) : y.key = e.key
      BY <3>1 DEF Unregistered
    <3>5. e \in Held /\ e.kind = "webhook" /\ y \in req[r].listed /\ y.kind = "webhook"
      BY DEF RegistryInv, WebhookRows, Held
    <3> QED
      BY <3>2, <3>4, <3>5, UnregistersOwn
  <2>3. ASSUME NEW r \in Request, Teardown(r) PROVE DropLive(r) \/ DropLiveRaises(r)
    BY <2>3 DEF Teardown, ListRows, DeleteRows, CommitTeardown
  <2>4. ASSUME NEW r \in Request, Register(r) PROVE FALSE
    BY <2>4 DEF Register, RegisterRefused, RegisterCollides, RegisterWebhook, RegisterSchedule,
                CommitRaises, CommitActivate, Registered
  <2>5. ASSUME NEW r \in Request, Receive(r) \/ SetFlag(r) \/ SetFlagMissing(r) PROVE FALSE
    BY <2>5 DEF Receive, SetFlag, SetFlagMissing
  <2>6. ASSUME NEW w \in Workflow, PutWorkflow(w) \/ DeleteWorkflow(w) PROVE FALSE
    BY <2>6 DEF PutWorkflow, DeleteWorkflow
  <2>7. CASE UNCHANGED vars
    BY <2>7 DEF vars
  <2> QED
    BY <2>2, <2>3, <2>4, <2>5, <2>6, <2>7 DEF Next
<1> QED
  BY <1>1, Invariance, PTL DEF Spec, ServedRoutesAreKept

\* However requests overlap, the state has its type and no two webhook rows,
\* committed or not, have the same key: the rows of a failed or concurrent
\* activation never break uq_webhooks_path_method.
THEOREM TypeAndKeys == Spec => [](TypeOK /\ KeysInv)
<1>1. IInv => TypeOK /\ KeysInv
  BY DEF IInv
<1> QED
  BY <1>1, Invariance, PTL
=============================================================================
