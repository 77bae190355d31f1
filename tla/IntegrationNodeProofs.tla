------------------------- MODULE IntegrationNodeProofs -------------------------
(* What holds of every integration node, whatever its tables say and however many
   items, edits and chunks there are: its state has its type, and its requests
   follow the items of its input.  And what the declarations of a node decide, when
   they agree with each other (AgreementAssumption): no history of edits makes a
   difference. *)
EXTENDS IntegrationNode, FiniteSetTheorems, TLAPS

-----------------------------------------------------------------------------
(* Before the first request nothing is sent and nothing returned; while requests
   are made, chunks are left only of an unfinished item of a chunked operation,
   and no request is of an item beyond the current one. *)
BeforeCalls ==
  phase \in {"editing", "resolving", "exchanging"} =>
    sent = <<>> /\ results = <<>> /\ left = 0
Reached == IF left > 0 THEN Len(results) + 1 ELSE Len(results)
InProgress ==
  phase = "calling" =>
    /\ left > 0 => Running \in call.chunked /\ Len(results) < total
    /\ \A i \in 1..Len(sent) : sent[i] <= Reached
IInv == TypeOK /\ BeforeCalls /\ InProgress /\ RequestsFollowItems

(* The parameters shown for an operation are declared ones. *)
LEMMA ShownIsDeclared ==
  ASSUME NEW f, NEW op
  PROVE  Shown(f, op) \subseteq Declared(f)
BY DEF Shown, Declared, Entry

(* However the displayed form is filled in, only shown parameters get a value. *)
LEMMA FillingsAreShown ==
  ASSUME NEW op, NEW filling \in Fillings(op)
  PROVE  filling \subseteq Shown(form, op)
<1>1. CASE filling = {}
  BY <1>1
<1>2. CASE filling = Shown(form, op)
  BY <1>2
<1>3. CASE \E f \in Requests[node][op].onlyOne \cap Shown(form, op) :
             filling = (Shown(form, op) \ Requests[node][op].onlyOne) \cup {f}
  BY <1>3
<1> QED
  BY <1>1, <1>2, <1>3 DEF Fillings

(* An operation sends an item in at most MaxChunks chunks. *)
LEMMA ChunksAreBounded ==
  ASSUME NEW chunks \in ChunkCounts
  PROVE  chunks \in 0..MaxChunks
BY BoundAssumption DEF ChunkCounts

-----------------------------------------------------------------------------
(* The node as it is dropped on the canvas has its type. *)
LEMMA InitTypeOK == Init => TypeOK
<1> SUFFICES ASSUME Init PROVE TypeOK
  OBVIOUS
<1>1. passed \in BOOLEAN /\ phase \in Phases /\ cause \in Causes
  BY DEF Init, Phases, Causes
<1>2. node \in Nodes /\ operation \in Operations(node) \cup {None} /\ given \subseteq Declared(form)
  BY DEF Init
<1>3. edits \in 0..MaxEdits /\ left \in 0..MaxChunks /\ total \in Nat
  BY BoundAssumption DEF Init
<1>4. sent \in Seq(Nat) /\ results \in Seq(Nat) /\ credential = None
  BY DEF Init
<1> QED
  BY <1>1, <1>2, <1>3, <1>4 DEF TypeOK

(* The parts of TypeOK that an edit may change. *)
LEMMA EditsKeepTypes ==
  ASSUME TypeOK,
         \/ \E op \in Operations(node) : \E filling \in Fillings(op) : SaveForm(op, filling)
         \/ \E f \in Declared(form) : ClearField(f)
         \/ \E type \in call.types :
              \E blank \in {{}} \cup {{f} : f \in Types[type].fields} : AttachCredential(type, blank)
         \/ \E accepted \in BOOLEAN : TestCredential(accepted)
  PROVE  TypeOK'
<1>1. /\ edits' \in 0..MaxEdits /\ node' = node
      /\ UNCHANGED <<phase, total, sent, left, results, cause>>
  BY BoundAssumption DEF TypeOK, SaveForm, ClearField, AttachCredential, TestCredential, Editing, run
<1>2. UNCHANGED <<form, call>>
  BY <1>1 DEF form, call
<1>3. CASE \E op \in Operations(node) : \E filling \in Fillings(op) : SaveForm(op, filling)
  <2>1. PICK op \in Operations(node) : \E filling \in Fillings(op) : SaveForm(op, filling)
    BY <1>3
  <2>a. PICK filling \in Fillings(op) : SaveForm(op, filling)
    BY <2>1
  <2>2. given' \subseteq Declared(form)
    BY <2>a, FillingsAreShown, ShownIsDeclared DEF SaveForm, TypeOK
  <2>3. operation' \in Operations(node)
    BY <2>a DEF SaveForm
  <2> QED
    BY <1>1, <1>2, <2>a, <2>2, <2>3 DEF TypeOK, SaveForm, Operations
<1>4. CASE \E f \in Declared(form) : ClearField(f)
  BY <1>1, <1>2, <1>4 DEF TypeOK, ClearField, Operations
<1>5. CASE \E type \in call.types :
             \E blank \in {{}} \cup {{f} : f \in Types[type].fields} : AttachCredential(type, blank)
  <2>a. PICK type \in call.types :
             \E blank \in {{}} \cup {{f} : f \in Types[type].fields} : AttachCredential(type, blank)
    BY <1>5
  <2>1. PICK blank \in {{}} \cup {{f} : f \in Types[type].fields} : AttachCredential(type, blank)
    BY <2>a
  <2>2. credential'.type \in call.types /\ credential'.filled \subseteq Types[credential'.type].fields
    BY <2>1 DEF AttachCredential
  <2> QED
    BY <1>1, <1>2, <2>1, <2>2 DEF TypeOK, AttachCredential, Operations
<1>6. CASE \E accepted \in BOOLEAN : TestCredential(accepted)
  <2>1. passed' \in BOOLEAN /\ UNCHANGED <<operation, given, credential>>
    BY <1>6 DEF TestCredential
  <2> QED
    BY <1>1, <1>2, <2>1 DEF TypeOK, Operations
<1> QED
  BY <1>3, <1>4, <1>5, <1>6

(* A step of a run, or its start, leaves what is stored alone. *)
LEMMA RunsKeepWhatIsStored ==
  ASSUME RunStep \/ \E n \in ItemCounts : StartRun(n)
  PROVE  UNCHANGED stored
BY DEF RunStep, StartRun, ResolveCredential, ExchangeToken, RefuseMissing, RefuseValue,
       RefuseSecret, SendRequest, SendChunk, FinishRun, Fail, Return, stored

(* What is stored decides which table entries apply and which operation runs. *)
LEMMA StoredFixesTheTables ==
  ASSUME UNCHANGED stored
  PROVE  UNCHANGED <<form, call, Running, Operations(node)>>
BY DEF stored, form, call, Running, Operations

(* A step of a run, or its start, keeps the types of the run's own variables. *)
LEMMA RunsKeepTypes ==
  ASSUME TypeOK, RunStep \/ \E n \in ItemCounts : StartRun(n)
  PROVE  TypeOK'
<1>1. UNCHANGED <<node, operation, given, credential, passed>>
  BY RunsKeepWhatIsStored DEF stored
<1>2. UNCHANGED <<form, call, Operations(node)>>
  BY RunsKeepWhatIsStored, StoredFixesTheTables
<1>3. phase' \in Phases /\ cause' \in Causes
  BY DEF RunStep, StartRun, ResolveCredential, ExchangeToken, RefuseMissing, RefuseValue,
         RefuseSecret, SendRequest, SendChunk, FinishRun, Fail, Return, TypeOK, Phases, Causes
<1>4. total' \in Nat /\ edits' \in 0..MaxEdits
  BY BoundAssumption
     DEF RunStep, StartRun, ResolveCredential, ExchangeToken, RefuseMissing, RefuseValue,
         RefuseSecret, SendRequest, SendChunk, FinishRun, Fail, Return, TypeOK
<1>5. Item \in Nat
  BY DEF Item, TypeOK
<1>6. results' \in Seq(Nat) /\ sent' \in Seq(Nat)
  <2>1. results' = results \/ results' = <<>> \/ results' = Append(results, Item)
    BY DEF RunStep, StartRun, ResolveCredential, ExchangeToken, RefuseMissing, RefuseValue,
           RefuseSecret, SendRequest, SendChunk, FinishRun, Fail, Return
  <2>2. sent' = sent \/ sent' = Append(sent, Item)
    BY DEF RunStep, StartRun, ResolveCredential, ExchangeToken, RefuseMissing, RefuseValue,
           RefuseSecret, SendRequest, SendChunk, FinishRun
  <2>3. results \in Seq(Nat) /\ sent \in Seq(Nat)
    BY DEF TypeOK
  <2>4. <<>> \in Seq(Nat) /\ Append(results, Item) \in Seq(Nat) /\ Append(sent, Item) \in Seq(Nat)
    BY <1>5, <2>3
  <2> QED
    BY <2>1, <2>2, <2>3, <2>4
<1>7. left' \in 0..MaxChunks
  <2>1. CASE \E reply \in Replies, chunks \in ChunkCounts : SendRequest(reply, chunks)
    BY <2>1, ChunksAreBounded, BoundAssumption DEF SendRequest
  <2>2. CASE \E reply \in Replies : SendChunk(reply)
    BY <2>2, BoundAssumption DEF SendChunk, TypeOK
  <2>3. CASE UNCHANGED left
    BY <2>3 DEF TypeOK
  <2> QED
    BY <2>1, <2>2, <2>3
       DEF RunStep, StartRun, ResolveCredential, ExchangeToken, RefuseMissing, RefuseValue,
           RefuseSecret, FinishRun
<1> QED
  BY <1>1, <1>2, <1>3, <1>4, <1>6, <1>7 DEF TypeOK

(* No step, of a user or of a run, leaves the types. *)
LEMMA NextKeepsTypes == TypeOK /\ [Next]_vars => TypeOK'
<1> SUFFICES ASSUME TypeOK, [Next]_vars PROVE TypeOK'
  OBVIOUS
<1>1. CASE UNCHANGED vars
  BY <1>1 DEF TypeOK, vars, stored, run, form, call, Operations
<1>2. CASE RunStep \/ \E n \in ItemCounts : StartRun(n)
  BY <1>2, RunsKeepTypes
<1> QED
  BY <1>1, <1>2, EditsKeepTypes DEF Next

(* Type correctness, for all tables: in particular no upload has more chunks left
   than it was cut into. *)
THEOREM TypeCorrect == Spec => []TypeOK
BY InitTypeOK, NextKeepsTypes, PTL DEF Spec

-----------------------------------------------------------------------------
(* Nothing sent, nothing returned. *)
LEMMA NothingSent ==
  ASSUME sent = <<>>, results = <<>>, phase # "done", total \in Nat
  PROVE  RequestsFollowItems
<1>1. Len(sent) = 0 /\ Len(results) = 0 /\ 1..0 = {}
  OBVIOUS
<1>2. results = [i \in 1..Len(results) |-> i]
  BY <1>1
<1> QED
  BY <1>1, <1>2 DEF RequestsFollowItems

(* One more request, for the item at hand: the requests still follow the items. *)
LEMMA OneMore ==
  ASSUME TypeOK, InProgress, RequestsFollowItems,
         phase = "calling", Len(results) < total, left = 0 \/ Running \in call.chunked,
         sent' = Append(sent, Item), UNCHANGED <<stored, total>>
  PROVE  /\ Len(sent') = Len(sent) + 1
         /\ \A i \in 1..Len(sent) : sent'[i] = sent[i]
         /\ sent'[Len(sent) + 1] = Item
         /\ \A i \in 1..Len(sent') : sent'[i] \in 1..total' /\ sent'[i] <= Item
         /\ \A i, j \in 1..Len(sent') : i <= j => sent'[i] <= sent'[j]
         /\ (Running \notin call.chunked)' => \A i, j \in 1..Len(sent') : sent'[i] = sent'[j] => i = j
<1>1. /\ sent \in Seq(Nat) /\ results \in Seq(Nat) /\ total \in Nat /\ left \in Nat
      /\ Item = Len(results) + 1 /\ Item \in 1..total /\ Len(sent) \in Nat
  BY BoundAssumption DEF TypeOK, Item
<1>2. /\ Len(sent') = Len(sent) + 1
      /\ \A i \in 1..Len(sent) : sent'[i] = sent[i]
      /\ sent'[Len(sent) + 1] = Item
  BY <1>1
<1>3. \A i \in 1..Len(sent) : sent[i] \in 1..total /\ sent[i] <= Item
  BY <1>1 DEF InProgress, Reached, RequestsFollowItems
<1>4. left = 0 => \A i \in 1..Len(sent) : sent[i] < Item
  BY <1>1, <1>3 DEF InProgress, Reached
<1>5. \A i \in 1..Len(sent') : sent'[i] \in 1..total' /\ sent'[i] <= Item
  BY <1>1, <1>2, <1>3
<1>6. ASSUME NEW i \in 1..Len(sent'), NEW j \in 1..Len(sent'), i <= j
      PROVE  sent'[i] <= sent'[j]
  <2>1. \A m, n \in 1..Len(sent) : m <= n => sent[m] <= sent[n]
    BY DEF RequestsFollowItems
  <2>2. CASE j = Len(sent) + 1
    BY <1>2, <1>5, <2>2
  <2>3. CASE j \in 1..Len(sent)
    <3>1. i \in 1..Len(sent)
      BY <1>1, <1>2, <1>6, <2>3
    <3> QED
      BY <1>2, <1>6, <2>1, <2>3, <3>1
  <2> QED
    BY <1>1, <1>2, <2>2, <2>3
<1>7. ASSUME (Running \notin call.chunked)', NEW i \in 1..Len(sent'), NEW j \in 1..Len(sent'),
             sent'[i] = sent'[j]
      PROVE  i = j
  <2>1. Running \notin call.chunked
    BY <1>7, StoredFixesTheTables
  <2>2. \A m, n \in 1..Len(sent) : sent[m] = sent[n] => m = n
    BY <2>1 DEF RequestsFollowItems
  <2>3. \A m \in 1..Len(sent) : sent[m] \in Nat /\ sent[m] < Item /\ sent'[m] = sent[m]
    BY <1>1, <1>2, <1>3, <1>4, <2>1
  <2>4. \A m \in 1..Len(sent') : m \in 1..Len(sent) \/ m = Len(sent) + 1
    BY <1>1, <1>2
  <2>5. CASE i \in 1..Len(sent) /\ j \in 1..Len(sent)
    BY <1>7, <2>2, <2>3, <2>5
  <2>6. CASE i = Len(sent) + 1 /\ j \in 1..Len(sent)
    <3>1. sent'[i] = Item /\ sent'[j] < Item
      BY <1>2, <2>3, <2>6
    <3> QED
      BY <1>1, <1>7, <3>1
  <2>7. CASE i \in 1..Len(sent) /\ j = Len(sent) + 1
    <3>1. sent'[j] = Item /\ sent'[i] < Item
      BY <1>2, <2>3, <2>7
    <3> QED
      BY <1>1, <1>7, <3>1
  <2> QED
    BY <2>4, <2>5, <2>6, <2>7
<1> QED
  BY <1>2, <1>5, <1>6, <1>7

(* The item at hand is answered: its result comes after those before it. *)
LEMMA OneMoreResult ==
  ASSUME TypeOK, RequestsFollowItems, phase = "calling", results' = Append(results, Item)
  PROVE  /\ Len(results') = Len(results) + 1
         /\ results' = [i \in 1..Len(results') |-> i]
<1>1. results \in Seq(Nat) /\ Item = Len(results) + 1 /\ Len(results) \in Nat
  BY DEF TypeOK, Item
<1>2. \A i \in 1..Len(results) : results[i] = i
  BY <1>1 DEF RequestsFollowItems
<1>3. Len(results') = Len(results) + 1
  BY <1>1
<1>4. \A i \in 1..(Len(results) + 1) : results'[i] = i
  BY <1>1, <1>2
<1>5. results' \in Seq(Nat)
  BY <1>1
<1> QED
  BY <1>1, <1>3, <1>4, <1>5

(* The steps before the first request. *)
LEMMA EarlyStepsFollow ==
  ASSUME IInv, Next, TypeOK', phase \in {"editing", "resolving", "exchanging"}
  PROVE  BeforeCalls' /\ InProgress' /\ RequestsFollowItems'
<1>1. sent = <<>> /\ results = <<>> /\ left = 0
  BY DEF IInv, BeforeCalls
<1>2. sent' = <<>> /\ results' = <<>> /\ left' = 0 /\ phase' # "done"
  BY <1>1
     DEF Next, RunStep, SaveForm, ClearField, AttachCredential, TestCredential, Editing, StartRun,
         ResolveCredential, ExchangeToken, RefuseMissing, RefuseValue, RefuseSecret, SendRequest,
         SendChunk, FinishRun, AtItem, Fail, run
<1>3. total' \in Nat
  BY DEF TypeOK
<1>4. RequestsFollowItems'
  <2>1. Len(sent') = 0 /\ Len(results') = 0 /\ 1..0 = {}
    BY <1>2
  <2>2. results' = [i \in 1..Len(results') |-> i]
    BY <1>2, <2>1
  <2> QED
    BY <1>2, <1>3, <2>1, <2>2 DEF RequestsFollowItems
<1>5. InProgress'
  BY <1>2 DEF InProgress
<1> QED
  BY <1>2, <1>4, <1>5 DEF BeforeCalls

(* A request or a chunk, of which there are more to come, or the last one, or one
   that failed. *)
LEMMA SendingFollows ==
  ASSUME IInv, TypeOK', phase = "calling", Len(results) < total,
         left = 0 \/ Running \in call.chunked,
         sent' = Append(sent, Item), UNCHANGED <<stored, total>>,
         \/ phase' = "failed" /\ results' = <<>>
         \/ phase' = phase /\ results' = results /\ left' > 0 /\ Running \in call.chunked
         \/ phase' = phase /\ results' = Append(results, Item) /\ left' = 0
  PROVE  BeforeCalls' /\ InProgress' /\ RequestsFollowItems'
<1>1. /\ Len(sent') = Len(sent) + 1
      /\ \A i \in 1..Len(sent) : sent'[i] = sent[i]
      /\ sent'[Len(sent) + 1] = Item
      /\ \A i \in 1..Len(sent') : sent'[i] \in 1..total' /\ sent'[i] <= Item
      /\ \A i, j \in 1..Len(sent') : i <= j => sent'[i] <= sent'[j]
      /\ (Running \notin call.chunked)' => \A i, j \in 1..Len(sent') : sent'[i] = sent'[j] => i = j
  BY OneMore DEF IInv
<1>2. /\ sent \in Seq(Nat) /\ results \in Seq(Nat) /\ total \in Nat
      /\ Item = Len(results) + 1 /\ Len(sent) \in Nat /\ Len(results) \in Nat
  BY DEF IInv, TypeOK, Item
<1>3. \A k \in 1..Len(results) : \E i \in 1..Len(sent') : sent'[i] = k
  BY <1>1, <1>2 DEF IInv, RequestsFollowItems
<1>4. UNCHANGED <<Running, call>>
  BY StoredFixesTheTables
<1>5. BeforeCalls'
  BY DEF BeforeCalls
<1>6. CASE phase' = "failed" /\ results' = <<>>
  <2>1. Len(results') = 0 /\ 1..0 = {}
    BY <1>6
  <2>2. RequestsFollowItems'
    BY <1>1, <1>2, <1>6, <2>1 DEF RequestsFollowItems
  <2> QED
    BY <1>5, <1>6, <2>2 DEF InProgress
<1>7. CASE phase' = phase /\ results' = results /\ left' > 0 /\ Running \in call.chunked
  <2>1. RequestsFollowItems'
    BY <1>1, <1>2, <1>3, <1>7 DEF IInv, RequestsFollowItems
  <2>2. InProgress'
    BY <1>1, <1>2, <1>4, <1>7 DEF InProgress, Reached
  <2> QED
    BY <1>5, <2>1, <2>2
<1>8. CASE phase' = phase /\ results' = Append(results, Item) /\ left' = 0
  <2>1. Len(results') = Len(results) + 1 /\ results' = [i \in 1..Len(results') |-> i]
    BY <1>8, OneMoreResult DEF IInv
  <2>2. ASSUME NEW k \in 1..Len(results')
        PROVE  \E i \in 1..Len(sent') : sent'[i] = k
    <3>1. CASE k = Item
      <4>1. Len(sent) + 1 \in 1..Len(sent')
        BY <1>1, <1>2
      <4> QED
        BY <1>1, <3>1, <4>1
    <3>2. CASE k \in 1..Len(results)
      BY <1>3, <3>2
    <3>3. k \in 1..Len(results) \/ k = Item
      <4>1. k \in 1..(Len(results) + 1)
        BY <2>1
      <4> QED
        BY <1>2, <4>1
    <3> QED
      BY <3>1, <3>2, <3>3
  <2>3. RequestsFollowItems'
    <3>1. Len(results') <= total' /\ phase' = "calling"
      BY <1>2, <1>8, <2>1
    <3> QED
      BY <1>1, <2>1, <2>2, <3>1 DEF RequestsFollowItems
  <2>4. InProgress'
    <3>1. Len(results') = Item /\ left' = 0
      BY <1>2, <1>8, <2>1
    <3>2. Reached' = Len(results')
      BY <3>1 DEF Reached
    <3> QED
      BY <1>1, <3>1, <3>2 DEF InProgress
  <2> QED
    BY <1>5, <2>3, <2>4
<1> QED
  BY <1>6, <1>7, <1>8

(* The steps of the loop over the items. *)
LEMMA CallingStepsFollow ==
  ASSUME IInv, Next, TypeOK', phase \notin {"editing", "resolving", "exchanging"}
  PROVE  BeforeCalls' /\ InProgress' /\ RequestsFollowItems'
<1>1. RunStep /\ UNCHANGED stored
  <2>1. RunStep
    BY DEF Next, SaveForm, ClearField, AttachCredential, TestCredential, Editing, StartRun
  <2> QED
    BY <2>1, RunsKeepWhatIsStored
<1>2. UNCHANGED <<Running, call>>
  BY <1>1, StoredFixesTheTables
<1>3. CASE RefuseMissing \/ RefuseValue \/ RefuseSecret
  <2>1. phase' = "failed" /\ results' = <<>> /\ UNCHANGED <<sent, total>>
    BY <1>3 DEF RefuseMissing, RefuseValue, RefuseSecret, Fail
  <2>2. Len(results') = 0 /\ 1..0 = {} /\ total \in Nat
    BY <2>1 DEF IInv, TypeOK
  <2>3. RequestsFollowItems'
    BY <1>2, <2>1, <2>2 DEF IInv, RequestsFollowItems
  <2> QED
    BY <2>1, <2>3 DEF BeforeCalls, InProgress
<1>4. CASE \E reply \in Replies, chunks \in ChunkCounts : SendRequest(reply, chunks)
  <2>1. PICK reply \in Replies, chunks \in ChunkCounts : SendRequest(reply, chunks)
    BY <1>4
  <2>2. /\ phase = "calling" /\ Len(results) < total /\ left = 0
        /\ sent' = Append(sent, Item) /\ UNCHANGED total
    BY <2>1 DEF SendRequest, AtItem, Fail, Return
  <2>3. chunks = 0 \/ (chunks > 0 /\ Running \in call.chunked)
    BY BoundAssumption DEF ChunkCounts
  <2>4. \/ phase' = "failed" /\ results' = <<>>
        \/ phase' = phase /\ results' = results /\ left' > 0 /\ Running \in call.chunked
        \/ phase' = phase /\ results' = Append(results, Item) /\ left' = 0
    BY <2>1, <2>3 DEF SendRequest, Fail, Return
  <2> QED
    BY <1>1, <2>2, <2>4, SendingFollows
<1>5. CASE \E reply \in Replies : SendChunk(reply)
  <2>1. PICK reply \in Replies : SendChunk(reply)
    BY <1>5
  <2>2. phase = "calling" /\ left > 0 /\ left \in Nat /\ sent' = Append(sent, Item) /\ UNCHANGED total
    BY <2>1, BoundAssumption DEF SendChunk, Fail, Return, IInv, TypeOK
  <2>3. Len(results) < total /\ Running \in call.chunked
    BY <2>2 DEF IInv, InProgress
  <2>4. \/ phase' = "failed" /\ results' = <<>>
        \/ phase' = phase /\ results' = results /\ left' > 0 /\ Running \in call.chunked
        \/ phase' = phase /\ results' = Append(results, Item) /\ left' = 0
    BY <2>1, <2>2, <2>3 DEF SendChunk, Fail, Return
  <2> QED
    BY <1>1, <2>2, <2>3, <2>4, SendingFollows
<1>6. CASE FinishRun
  <2>1. /\ phase = "calling" /\ phase' = "done" /\ Len(results) = total
        /\ UNCHANGED <<sent, total, results>>
    BY <1>6 DEF FinishRun
  <2>2. RequestsFollowItems'
    BY <1>2, <2>1 DEF IInv, RequestsFollowItems
  <2> QED
    BY <2>1, <2>2 DEF BeforeCalls, InProgress
<1> QED
  BY <1>1, <1>3, <1>4, <1>5, <1>6 DEF RunStep, ResolveCredential, ExchangeToken

(* The invariant is inductive. *)
LEMMA NextKeepsIInv == IInv /\ [Next]_vars => IInv'
<1> SUFFICES ASSUME IInv, [Next]_vars PROVE IInv'
  OBVIOUS
<1>1. TypeOK'
  BY NextKeepsTypes DEF IInv
<1>2. CASE Next
  BY <1>1, <1>2, EarlyStepsFollow, CallingStepsFollow DEF IInv
<1>3. CASE UNCHANGED vars
  <2>1. UNCHANGED <<phase, total, sent, left, results, Running, call>>
    BY <1>3 DEF vars, stored, run, Running, call
  <2> QED
    BY <1>1, <2>1 DEF IInv, BeforeCalls, InProgress, Reached, RequestsFollowItems
<1> QED
  BY <1>2, <1>3

(* Whatever a node's tables say, its requests follow its items: in order, none
   before its turn, none sent again but for the chunks of an upload, and a run
   that ends well has a result for every item. *)
THEOREM RequestsAlwaysFollowItems == Spec => []RequestsFollowItems
<1>1. Init => IInv
  <2> SUFFICES ASSUME Init PROVE IInv
    OBVIOUS
  <2>1. TypeOK
    BY InitTypeOK
  <2>2. sent = <<>> /\ results = <<>> /\ left = 0 /\ phase = "editing" /\ total \in Nat
    BY DEF Init
  <2>3. RequestsFollowItems
    BY <2>2, NothingSent
  <2> QED
    BY <2>1, <2>2, <2>3 DEF IInv, BeforeCalls, InProgress
<1> QED
  BY <1>1, NextKeepsIInv, PTL DEF Spec, IInv

-----------------------------------------------------------------------------
(* Why a run failed, and what it used, is a matter of what was stored when it
   began; and that was made by edits that the tables constrain. *)
PassInv == passed => credential # None /\ Types[credential.type].tested \subseteq Filled
CauseInv ==
  /\ phase # "failed" => cause = "none"
  /\ cause = "missing" => CanMiss(Builder, Have)
  /\ cause = "credential" => ~ CredentialUsable \/ ~ CanSign
HiddenInv ==
  /\ phase = "editing" => hidden = {}
  /\ \A f \in hidden : f \in Unseen
Reasons == PassInv /\ CauseInv /\ HiddenInv

(* What is stored decides what is asked for, what there is, and what is unseen. *)
LEMMA StoredFixesTheReasons ==
  ASSUME UNCHANGED stored
  PROVE  /\ UNCHANGED <<Builder, Have, CredentialUsable, CanSign, Unseen, Filled>>
         /\ UNCHANGED <<credential, passed>>
BY DEF stored, form, call, Running, Displayed, Builder, Read, Have, CredentialUsable, CanSign,
       Unseen, Filled

(* An edit: nothing has failed and nothing was used yet; a test that passes finds
   the fields it looks at, and another credential has not passed. *)
LEMMA EditsKeepReasons ==
  ASSUME Reasons,
         \/ \E op, filling : SaveForm(op, filling)
         \/ \E f : ClearField(f)
         \/ \E type, blank : AttachCredential(type, blank)
         \/ \E accepted \in BOOLEAN : TestCredential(accepted)
  PROVE  Reasons'
<1>1. phase = "editing" /\ UNCHANGED <<phase, cause, hidden>>
  BY DEF SaveForm, ClearField, AttachCredential, TestCredential, Editing, run
<1>2. CauseInv'
  BY <1>1 DEF Reasons, CauseInv
<1>3. HiddenInv'
  BY <1>1 DEF Reasons, HiddenInv
<1>4. PassInv'
  <2>1. CASE \E type, blank : AttachCredential(type, blank)
    BY <2>1 DEF AttachCredential, PassInv
  <2>2. CASE \E accepted \in BOOLEAN : TestCredential(accepted)
    BY <2>2 DEF TestCredential, PassInv, Filled
  <2>3. CASE UNCHANGED <<credential, passed>>
    BY <2>3 DEF Reasons, PassInv, Filled
  <2> QED
    BY <2>1, <2>2, <2>3 DEF SaveForm, ClearField
<1> QED
  BY <1>2, <1>3, <1>4 DEF Reasons

(* A step of a run fails for the reason it gives, and uses what it reads. *)
LEMMA RunsKeepReasons ==
  ASSUME Reasons, RunStep \/ \E n \in ItemCounts : StartRun(n)
  PROVE  Reasons'
<1>1. /\ UNCHANGED <<Builder, Have, CredentialUsable, CanSign, Unseen, Filled>>
      /\ UNCHANGED <<credential, passed>>
  BY RunsKeepWhatIsStored, StoredFixesTheReasons
<1>2. PassInv'
  BY <1>1 DEF Reasons, PassInv
<1>3. HiddenInv'
  <2>1. hidden' = hidden \/ hidden' = hidden \cup Unseen
    BY DEF RunStep, StartRun, ResolveCredential, ExchangeToken, RefuseMissing, RefuseValue,
           RefuseSecret, SendRequest, SendChunk, FinishRun
  <2>2. phase' # "editing"
    BY DEF RunStep, StartRun, ResolveCredential, ExchangeToken, RefuseMissing, RefuseValue,
           RefuseSecret, SendRequest, SendChunk, FinishRun, AtItem, Fail, Return
  <2> QED
    BY <1>1, <2>1, <2>2 DEF Reasons, HiddenInv
<1>4. phase # "failed" /\ cause = "none"
  BY DEF RunStep, StartRun, ResolveCredential, ExchangeToken, RefuseMissing, RefuseValue,
         RefuseSecret, SendRequest, SendChunk, FinishRun, AtItem, Reasons, CauseInv
<1>5. \/ cause' = "none"
      \/ phase' = "failed" /\ cause' \in {"token", "value", "answer"}
      \/ phase' = "failed" /\ cause' = "missing" /\ CanMiss(Builder, Have)
      \/ phase' = "failed" /\ cause' = "credential" /\ (~ CredentialUsable \/ ~ CanSign)
  BY <1>4
     DEF RunStep, StartRun, ResolveCredential, ExchangeToken, RefuseMissing, RefuseValue,
         RefuseSecret, SendRequest, SendChunk, FinishRun, Fail, Return
<1>6. CauseInv'
  BY <1>1, <1>5 DEF CauseInv
<1> QED
  BY <1>2, <1>3, <1>6 DEF Reasons

(* In every reachable state the reasons are as stated. *)
LEMMA ReasonsHold == Spec => []Reasons
<1>1. Init => Reasons
  BY DEF Init, Reasons, PassInv, CauseInv, HiddenInv
<1>2. Reasons /\ [Next]_vars => Reasons'
  <2> SUFFICES ASSUME Reasons, [Next]_vars PROVE Reasons'
    OBVIOUS
  <2>1. CASE UNCHANGED vars
    <3>1. UNCHANGED stored /\ UNCHANGED <<phase, cause, hidden>>
      BY <2>1 DEF vars, run
    <3> QED
      BY <3>1, StoredFixesTheReasons DEF Reasons, PassInv, CauseInv, HiddenInv
  <2>2. CASE RunStep \/ \E n \in ItemCounts : StartRun(n)
    BY <2>2, RunsKeepReasons
  <2> QED
    BY <2>1, <2>2, EditsKeepReasons DEF Next
<1> QED
  BY <1>1, <1>2, PTL DEF Spec

(* What is displayed and what runs are a choice the tables were compared for. *)
LEMMA ChoiceIsKnown ==
  ASSUME TypeOK
  PROVE  node \in Nodes /\ <<Displayed, Running>> \in Choices(node)
           /\ FormFits(node, Displayed, Running)
<1>1. node \in Nodes /\ operation \in Operations(node) \cup {None}
  BY DEF TypeOK
<1>2. <<Displayed, Running>> \in Choices(node)
  BY <1>1 DEF Displayed, Running, Choices, form, call
<1>3. FormFits(node, <<Displayed, Running>>[1], <<Displayed, Running>>[2])
  BY <1>1, <1>2, AgreementAssumption
<1> QED
  BY <1>1, <1>2, <1>3

-----------------------------------------------------------------------------
(* However often the operation is changed and the form saved and cleared before
   the run: with the displayed form filled in, no run of any node fails for a
   missing parameter.  That the declarations of a node agree, operation by
   operation (AgreementAssumption), is enough for every history of edits. *)
THEOREM CompleteFormIsAlwaysAccepted == Spec => []CompleteFormIsAccepted
<1>1. TypeOK /\ Reasons => CompleteFormIsAccepted
  <2> SUFFICES ASSUME TypeOK, Reasons, cause = "missing", FormIsComplete PROVE FALSE
    BY DEF CompleteFormIsAccepted
  <2> DEFINE apart == Requests[node][Displayed].onlyOne
             sure == Shown(form, Displayed) \ apart
  <2>1. sure \subseteq given /\ (apart = {} \/ Cardinality(apart \cap given) = 1)
    BY DEF FormIsComplete
  <2>2. /\ Builder.must \subseteq sure
        /\ \A clauses \in Builder.cases : \A clause \in clauses :
             clause \cap sure # {} \/ (apart # {} /\ apart \subseteq clause)
        /\ Builder.onlyOne = apart
        /\ DOMAIN call.standIn \cap apart = {}
    BY ChoiceIsKnown DEF FormFits, Builder, form, call
  <2> HIDE DEF apart, sure
  <2>3. given \subseteq Have /\ Have \subseteq given \cup DOMAIN call.standIn
    BY DEF Have
  <2>4. Builder.must \subseteq Have
    BY <2>1, <2>2, <2>3
  <2>5. IsFiniteSet({}) /\ Cardinality({}) = 0
    BY FS_EmptySet
  <2>6. apart # {} => apart \cap given # {}
    BY <2>1, <2>5
  <2>7. \A clauses \in Builder.cases : Meets(clauses, Have)
    BY <2>1, <2>2, <2>3, <2>6 DEF Meets
  <2>8. Exclusive(Builder, Have)
    <3>1. Builder.onlyOne \cap Have = apart \cap given
      BY <2>2, <2>3
    <3>2. Cardinality(apart \cap given) <= 1
      <4>1. CASE apart = {}
        <5>1. apart \cap given = {}
          BY <4>1
        <5>2. Cardinality(apart \cap given) = Cardinality({})
          BY <5>1
        <5> QED
          BY <2>5, <5>2
      <4>2. CASE Cardinality(apart \cap given) = 1
        BY <4>2
      <4> QED
        BY <2>1, <4>1, <4>2
    <3> QED
      BY <3>1, <3>2 DEF Exclusive
  <2>9. CanMiss(Builder, Have)
    BY DEF Reasons, CauseInv
  <2> QED
    BY <2>4, <2>7, <2>8, <2>9 DEF CanMiss
<1> QED
  BY <1>1, TypeCorrect, ReasonsHold, PTL

(* However credentials are attached, exchanged and tested before the run: one that
   passed its test, or has its required fields, is refused by no node for an empty
   field but a late one, and what passed is on the requests. *)
THEOREM TestedCredentialIsAlwaysAccepted == Spec => []TestedCredentialIsAccepted
<1>1. TypeOK /\ Reasons => TestedCredentialIsAccepted
  <2> SUFFICES ASSUME TypeOK, Reasons PROVE TestedCredentialIsAccepted
    OBVIOUS
  <2> DEFINE type == credential.type
             late == {f \in Types[type].fields : <<node, f>> \in LateSecrets}
             asked == call.secrets \cup Types[type].raisesWithout
                        \cup UNION {Entry(call.secretFor, choice[2]) : choice \in Choices(node)}
             required == Types[type].required \cup (Types[type].fields \cap {"access_token"})
  <2>1. ASSUME credential # None
        PROVE  /\ asked \subseteq Types[type].tested \cup late
               /\ asked \subseteq required \cup late
               /\ \/ call.secrets = {} \/ Types[type].injected = {}
                  \/ Types[type].injected \cap Types[type].tested # {}
    <3>1. node \in Nodes /\ type \in Calls[node].types
      BY <2>1 DEF TypeOK, call
    <3>2. CredentialFits(node, type)
      BY <3>1, AgreementAssumption
    <3> QED
      BY <3>2 DEF CredentialFits, call
  <2>2. Entry(call.secretFor, Running) \subseteq asked
    <3>1. <<Displayed, Running>> \in Choices(node)
      BY ChoiceIsKnown
    <3>2. \E choice \in Choices(node) : choice[2] = Running
      BY <3>1
    <3> QED
      BY <3>2
  <2>3. call.secrets \subseteq asked /\ Types[type].raisesWithout \subseteq asked
    OBVIOUS
  <2> HIDE DEF asked
  <2>4. ASSUME Promised, cause = "credential"
        PROVE  \E secret \in LateSecrets : secret[1] = node /\ secret[2] \notin Filled
    <3>1. credential # None
      BY <2>4 DEF Promised
    <3>2. ~ (call.secrets \subseteq Filled /\ Entry(call.secretFor, Running) \subseteq Filled
               /\ Types[type].raisesWithout \subseteq Filled)
      BY <2>4, <3>1 DEF Reasons, CauseInv, CredentialUsable, CanSign
    <3>3. PICK f \in asked : f \notin Filled
      BY <2>2, <2>3, <3>2
    <3>4. Types[type].tested \subseteq Filled \/ required \subseteq Filled
      BY <2>4 DEF Promised, Reasons, PassInv
    <3>5. f \in late
      BY <2>1, <3>1, <3>3, <3>4
    <3>6. <<node, f>> \in LateSecrets /\ <<node, f>>[1] = node /\ <<node, f>>[2] = f
      BY <3>5
    <3> QED
      BY <3>3, <3>6
  <2>5. ASSUME passed, sent # <<>>, call.secrets # {}
        PROVE  Types[type].injected = {} \/ Types[type].injected \cap Filled # {}
    <3>1. credential # None /\ Types[type].tested \subseteq Filled
      BY <2>5 DEF Reasons, PassInv
    <3> QED
      BY <2>1, <2>5, <3>1
  <2> QED
    BY <2>4, <2>5 DEF TestedCredentialIsAccepted
<1> QED
  BY <1>1, TypeCorrect, ReasonsHold, PTL

(* However often the operation is changed: what a request takes from the stored
   parameters without the form of its operation showing it is in SharedFields. *)
THEOREM HiddenFieldsNeverHaveEffect == Spec => []HiddenFieldsHaveNoEffect
<1>1. TypeOK /\ Reasons => HiddenFieldsHaveNoEffect
  <2> SUFFICES ASSUME TypeOK, Reasons, NEW f \in hidden
               PROVE  <<node, Running, f>> \in SharedFields
    BY DEF HiddenFieldsHaveNoEffect
  <2>1. f \in Read /\ f \in given /\ f \notin Shown(form, Displayed)
    BY DEF Reasons, HiddenInv, Unseen
  <2>2. f \in Declared(form)
    BY <2>1 DEF TypeOK
  <2>3. FormFits(node, Displayed, Running)
    BY ChoiceIsKnown
  <2>4. \A g \in (ReadBy(node, Running) \cap Declared(Forms[node])) \ Shown(Forms[node], Displayed) :
          <<node, Running, g>> \in SharedFields
    BY <2>3 DEF FormFits
  <2> QED
    BY <2>1, <2>2, <2>4 DEF Read, form
<1> QED
  BY <1>1, TypeCorrect, ReasonsHold, PTL
=============================================================================
