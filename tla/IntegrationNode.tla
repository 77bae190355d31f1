---------------------------- MODULE IntegrationNode ----------------------------
(* The life of one integration node: its form is edited and saved, a credential
   is attached and tested, and then the node runs over the items of its input.

   Every integration node of the repository has the same skeleton (execute() of
   nodes/integrations/<node>/node.py): load the credential and refuse to go on
   without its secrets, in some nodes trade it for a token, then for each item
   in turn resolve the parameters, build the request, let the credential type
   sign it, send it, judge the answer, and append one result.  The first refusal
   or failure raises NodeExecutionError: the results so far are lost and no
   further request is sent.  What differs from node to node is data, and comes
   from the tables.

   Values are abstracted to "given or empty".  A value may still be one that a
   builder refuses (not a number, too long, an expression that resolves to
   nothing for this item): RefuseValue.

   "Shown" is what spec() declares with display_options.  Nothing in the server
   holds a client to it, and the web editor draws every parameter for every
   operation, so that the stored parameters may be any declared ones. *)
EXTENDS NodeTables, Sequences

CONSTANTS
  Nodes,        \* the nodes, by the name of their directory
  Forms,        \* node -> its form
  Requests,     \* node -> operation -> its builder
  Calls,        \* node -> how it calls its service
  Types,        \* slug -> credential type
  None,         \* no operation chosen, or no credential attached
  ItemCounts,   \* how many items may arrive on the input
  MaxChunks,    \* bound: chunks of one upload
  MaxEdits,     \* bound: edits of the form and the credential before the run
  SharedFields, \* <<node, operation, parameter>>: used though not shown for it
  LateSecrets   \* <<node, field>>: asked for by the node, not by the type's test

Operations(n) == DOMAIN Requests[n]

ASSUME TableAssumption ==
  /\ Nodes \subseteq DOMAIN Forms
  /\ \A n \in Nodes : Calls[n].types \subseteq DOMAIN Types
  /\ \A n \in Nodes : None \notin Operations(n)

(* The builder of an operation, with what the node itself asks for, and all that
   the two read. *)
BuilderOf(n, op) == [Requests[n][op] EXCEPT !.must = @ \cup Entry(Calls[n].needs, op)]
ReadBy(n, op) == BuilderOf(n, op).must \cup BuilderOf(n, op).may \cup Entry(Calls[n].reads, op)

(* What may be displayed and run together: a chosen operation, or the default of
   the form and the fallback of the node. *)
Choices(n) == {<<op, op>> : op \in Operations(n)} \cup {<<Forms[n].default, Calls[n].fallback>>}

(* The form of an operation against its builder: it shows what the builder insists
   on, one of every clause whichever of the parameters that exclude each other is
   filled in, and what the builder reads, but for SharedFields. *)
FormFits(n, displayed, running) ==
  LET builder == BuilderOf(n, running)
      apart == Requests[n][displayed].onlyOne
      sure == Shown(Forms[n], displayed) \ apart
  IN  /\ builder.must \subseteq sure
      /\ \A clauses \in builder.cases : \A clause \in clauses :
           clause \cap sure # {} \/ (apart # {} /\ apart \subseteq clause)
      /\ builder.onlyOne = apart
      /\ DOMAIN Calls[n].standIn \cap apart = {}
      /\ \A f \in (ReadBy(n, running) \cap Declared(Forms[n])) \ Shown(Forms[n], displayed) :
           <<n, running, f>> \in SharedFields

(* A credential type against a node: its test, and its required fields with the
   token of an OAuth consent, cover what the node and inject() ask for, but for
   LateSecrets, and the test something of what inject() puts on a request. *)
CredentialFits(n, type) ==
  LET late == {f \in Types[type].fields : <<n, f>> \in LateSecrets}
      asked == Calls[n].secrets \cup Types[type].raisesWithout
                 \cup UNION {Entry(Calls[n].secretFor, choice[2]) : choice \in Choices(n)}
      required == Types[type].required \cup (Types[type].fields \cap {"access_token"})
  IN  /\ asked \subseteq Types[type].tested \cup late
      /\ asked \subseteq required \cup late
      /\ \/ Calls[n].secrets = {} \/ Types[type].injected = {}
         \/ Types[type].injected \cap Types[type].tested # {}

(* The declarations of a node agree: nothing in the code holds them together. *)
ASSUME AgreementAssumption ==
  \A n \in Nodes :
    /\ \A choice \in Choices(n) : FormFits(n, choice[1], choice[2])
    /\ \A type \in Calls[n].types : CredentialFits(n, type)

ASSUME BoundAssumption == ItemCounts \subseteq Nat /\ MaxChunks \in Nat /\ MaxEdits \in Nat

VARIABLES
  node,       \* which node this is
  operation,  \* the stored parameter "operation"
  given,      \* the stored parameters that have a value
  credential, \* the attached credential: its type and the fields with a value
  passed,     \* the credential passed its test since it was last changed
  edits,      \* edits so far, while the node is edited
  phase,      \* where the node is
  total,      \* items of the run
  sent,       \* the item of every request sent for an item, in order
  left,       \* chunks still to send for the current item
  results,    \* the items with a result, in order
  hidden,     \* parameters some request used that the form did not show
  cause       \* why the run failed

stored == <<node, operation, given, credential, passed>>
run == <<phase, total, sent, left, results, hidden, cause>>
vars == <<stored, edits, run>>

-----------------------------------------------------------------------------
form == Forms[node]
call == Calls[node]

(* The operation the form displays, the default while none is stored, and the one
   the node runs. *)
Displayed == IF operation = None THEN form.default ELSE operation
\* Mutant: the node does not look at the stored operation.
RunningFallback == call.fallback
Running == IF operation = None THEN call.fallback ELSE operation

Filled == IF credential = None THEN {} ELSE credential.filled

(* The parameters the builder finds: the stored ones and those for which a field
   of the credential stands in. *)
Have == given \cup {p \in DOMAIN call.standIn : call.standIn[p] \in Filled}

Builder == BuilderOf(node, Running)

\* Mutant: every stored parameter goes into the request.
ReadAll == given
Read == ReadBy(node, Running)

(* What this request uses without the form showing it. *)
Unseen == (Read \cap given) \ Shown(form, Displayed)

(* The user's ways to fill the displayed form: leave it, or fill it in, with one
   of the parameters that exclude each other. *)
Fillings(op) ==
  LET apart == Requests[node][op].onlyOne
      shown == Shown(form, op)
  IN  {{}} \cup IF apart = {} THEN {shown}
                ELSE {(shown \ apart) \cup {f} : f \in apart \cap shown}

-----------------------------------------------------------------------------
Init ==
  /\ node \in Nodes
  /\ operation = None /\ given = {} /\ credential = None
  /\ passed = FALSE /\ edits = 0
  /\ phase = "editing" /\ total = 0 /\ sent = <<>> /\ left = 0
  /\ results = <<>> /\ hidden = {} /\ cause = "none"

Editing ==
  /\ phase = "editing"
  /\ edits < MaxEdits
  /\ edits' = edits + 1
  /\ UNCHANGED <<node, run>>

(* Choosing an operation and filling in its form.  The values of parameters that
   belong to another operation stay in the stored parameters. *)
SaveForm(op, filling) ==
  /\ Editing
  /\ operation' = op
  /\ given' = given \cup filling
  /\ UNCHANGED <<credential, passed>>

(* An empty value takes the parameter out of the stored ones. *)
ClearField(f) ==
  /\ Editing
  /\ f \in given
  /\ given' = given \ {f}
  /\ UNCHANGED <<operation, credential, passed>>

(* A credential is created with its fields and attached.  The credential editor
   insists on the required fields, the endpoint on none. *)
AttachCredential(type, blank) ==
  /\ Editing
  /\ credential' = [type |-> type, filled |-> Types[type].fields \ blank]
  /\ passed' = FALSE
  /\ UNCHANGED <<operation, given>>

\* Mutant: the test does not look for empty fields.
TestOfTheServiceOnly(accepted) ==
  /\ Editing
  /\ credential # None
  /\ passed' = accepted
  /\ UNCHANGED <<operation, given, credential>>
(* The test of the credential type: refused when a field is empty, else one call
   that the service answers. *)
TestCredential(accepted) ==
  /\ Editing
  /\ credential # None
  /\ passed' = (accepted /\ Types[credential.type].tested \subseteq Filled)
  /\ UNCHANGED <<operation, given, credential>>

-----------------------------------------------------------------------------
(* The node is executed: no items on the input means one empty item. *)
StartRun(n) ==
  /\ phase = "editing"
  /\ phase' = "resolving"
  /\ total' = IF n = 0 THEN 1 ELSE n
  /\ edits' = 0
  /\ UNCHANGED <<stored, sent, left, results, hidden, cause>>

Fail(why) ==
  /\ phase' = "failed"
  /\ cause' = why
  /\ results' = <<>>
  /\ UNCHANGED <<stored, edits, total>>

(* load_credential and the checks on what it returned. *)
CredentialUsable ==
  IF credential = None THEN call.optional ELSE call.secrets \subseteq Filled

ResolveCredential ==
  /\ phase = "resolving"
  /\ IF CredentialUsable
     THEN /\ phase' = IF call.exchanges THEN "exchanging" ELSE "calling"
          /\ UNCHANGED <<stored, edits, total, sent, left, results, hidden, cause>>
     ELSE Fail("credential") /\ UNCHANGED <<sent, left, hidden>>

ExchangeToken(accepted) ==
  /\ phase = "exchanging"
  /\ IF accepted
     THEN phase' = "calling" /\ UNCHANGED <<stored, edits, total, sent, left, results, hidden, cause>>
     ELSE Fail("token") /\ UNCHANGED <<sent, left, hidden>>

(* The next item whose request is still to be built. *)
AtItem == phase = "calling" /\ left = 0 /\ Len(results) < total
Item == Len(results) + 1

(* What signs the request has what it needs: the fields this operation asks for,
   and the ones inject() raises without. *)
CanSign ==
  /\ Entry(call.secretFor, Running) \subseteq Filled
  /\ credential # None => Types[credential.type].raisesWithout \subseteq Filled

RefuseMissing ==
  /\ AtItem
  /\ CanMiss(Builder, Have)
  /\ Fail("missing") /\ UNCHANGED <<sent, left, hidden>>

RefuseValue ==
  /\ AtItem
  /\ Read \cap given # {}
  /\ Fail("value") /\ UNCHANGED <<sent, left, hidden>>

RefuseSecret ==
  /\ AtItem
  /\ ~ CanSign
  /\ CanBuild(Builder, Have)
  /\ Fail("credential") /\ UNCHANGED <<sent, left, hidden>>

(* The answers: 2xx; 2xx with a body that reports a failure; 3xx; 4xx and 5xx;
   and none at all (a refused connection, a timeout). *)
Replies == {"success", "reported", "redirect", "error", "network"}

Accepts(reply) ==
  \/ reply = "success"
  \/ reply = "reported" /\ Running \notin call.readsBody
  \/ reply = "redirect" /\ call.redirects /\ Running \notin call.confirmed

Return == results' = Append(results, Item) /\ UNCHANGED <<stored, edits, phase, total, cause>>

\* Mutant: a chunk size that does not divide the content adds an empty chunk.
OneChunkMore == IF Running \in call.chunked THEN 1..(MaxChunks + 1) ELSE {0}
(* In how many chunks an item may be uploaded: none but for a chunked operation. *)
ChunkCounts == IF Running \in call.chunked THEN 1..MaxChunks ELSE {0}

\* Mutant: a request that got no answer is tried again.
SendAgain(reply, chunks) ==
  /\ AtItem
  /\ CanBuild(Builder, Have) /\ CanSign
  /\ sent' = Append(sent, Item)
  /\ hidden' = hidden \cup Unseen
  /\ left' = 0
  /\ IF reply = "network"
     THEN UNCHANGED <<stored, edits, phase, total, results, cause>>
     ELSE Return
SendRequest(reply, chunks) ==
  /\ AtItem
  /\ CanBuild(Builder, Have) /\ CanSign
  /\ sent' = Append(sent, Item)
  /\ hidden' = hidden \cup Unseen
  /\ IF Accepts(reply)
     THEN /\ left' = chunks
          /\ IF chunks = 0 THEN Return ELSE UNCHANGED <<stored, edits, phase, total, results, cause>>
     ELSE left' = 0 /\ Fail("answer")

(* The chunks of an upload: the answer to the last one is the result. *)
SendChunk(reply) ==
  /\ phase = "calling"
  /\ left > 0
  /\ sent' = Append(sent, Item)
  /\ hidden' = hidden
  /\ IF reply \in {"error", "network"}
     THEN left' = 0 /\ Fail("answer")
     ELSE /\ left' = left - 1
          /\ IF left = 1 THEN Return ELSE UNCHANGED <<stored, edits, phase, total, results, cause>>

\* Mutant: the last item is waited for for ever.
FinishNever ==
  /\ phase = "calling"
  /\ Len(results) = total + 1
  /\ phase' = "done"
  /\ UNCHANGED <<stored, edits, total, sent, left, results, hidden, cause>>
FinishRun ==
  /\ phase = "calling"
  /\ Len(results) = total
  /\ phase' = "done"
  /\ UNCHANGED <<stored, edits, total, sent, left, results, hidden, cause>>

RunStep ==
  \/ ResolveCredential
  \/ \E accepted \in BOOLEAN : ExchangeToken(accepted)
  \/ RefuseMissing
  \/ RefuseValue
  \/ RefuseSecret
  \/ \E reply \in Replies, chunks \in ChunkCounts : SendRequest(reply, chunks)
  \/ \E reply \in Replies : SendChunk(reply)
  \/ FinishRun

Next ==
  \/ \E op \in Operations(node) : \E filling \in Fillings(op) : SaveForm(op, filling)
  \/ \E f \in Declared(form) : ClearField(f)
  \/ \E type \in call.types :
       \E blank \in {{}} \cup {{f} : f \in Types[type].fields} : AttachCredential(type, blank)
  \/ \E accepted \in BOOLEAN : TestCredential(accepted)
  \/ \E n \in ItemCounts : StartRun(n)
  \/ RunStep

(* Every HTTP client of the nodes has a timeout, so each call of a run is
   answered or fails; nothing makes a user start one. *)
Spec == Init /\ [][Next]_vars /\ WF_vars(RunStep)

-----------------------------------------------------------------------------
Phases == {"editing", "resolving", "exchanging", "calling", "done", "failed"}
Causes == {"none", "credential", "token", "missing", "value", "answer"}

(* The stored parameters are declared ones, the credential is of a type of the
   slot, the counters are within the run. *)
TypeOK ==
  /\ node \in Nodes
  /\ operation \in Operations(node) \cup {None}
  /\ given \subseteq Declared(form)
  /\ credential = None \/ /\ credential.type \in call.types
                          /\ credential.filled \subseteq Types[credential.type].fields
  /\ passed \in BOOLEAN
  /\ edits \in 0..MaxEdits
  /\ phase \in Phases
  /\ total \in Nat
  /\ sent \in Seq(Nat)
  /\ left \in 0..MaxChunks
  /\ results \in Seq(Nat)
  /\ cause \in Causes

FormIsComplete ==
  LET apart == Requests[node][Displayed].onlyOne
  IN  /\ Shown(form, Displayed) \ apart \subseteq given
      /\ apart = {} \/ Cardinality(apart \cap given) = 1
(* A node whose displayed form is filled in never fails for a missing parameter:
   spec() shows, for each operation, everything that its builder in operations.py
   and execute() refuse to do without. *)
CompleteFormIsAccepted == cause = "missing" => ~ FormIsComplete

Promised ==
  credential # None /\
    LET type == Types[credential.type]
    IN  passed \/ type.required \cup (type.fields \cap {"access_token"}) \subseteq Filled
(* A credential that passed its test, or that has its required fields (and the
   token that the consent of an OAuth type stores) filled in, works: it is not
   refused by the node for an empty field, nor by inject(), but for the fields
   LateSecrets names.  The requests sent with one that passed carry something of
   it: what test() asks for covers what execute() asks for and what inject() puts
   on a request. *)
TestedCredentialIsAccepted ==
  /\ Promised /\ cause = "credential"
       => \E secret \in LateSecrets : secret[1] = node /\ secret[2] \notin Filled
  /\ passed /\ sent # <<>> /\ call.secrets # {}
       => LET injected == Types[credential.type].injected
          IN  injected = {} \/ injected \cap Filled # {}

(* A parameter given for another operation, which display_options hide for the one
   that runs, has no effect on the request; SharedFields names the ones that do. *)
HiddenFieldsHaveNoEffect ==
  \A f \in hidden : <<node, Running, f>> \in SharedFields

(* The requests of a run follow the items: in order, every item before the current
   one answered, none after it touched, the current one twice only while its
   chunks go out; a run that is done has one result per item, and one that failed
   has none and stops at the item that failed.  But for the chunks of an upload no
   item is sent twice: what was paid, posted or mailed is not sent again because
   another item failed. *)
RequestsFollowItems ==
  /\ phase # "failed" => results = [i \in 1..Len(results) |-> i]
  /\ Len(results) <= total
  /\ phase = "done" => Len(results) = total
  /\ phase = "failed" => results = <<>>
  /\ \A i \in 1..Len(sent) : sent[i] \in 1..total
  /\ \A i, j \in 1..Len(sent) : i <= j => sent[i] <= sent[j]
  /\ \A k \in 1..Len(results) : \E i \in 1..Len(sent) : sent[i] = k
  /\ sent # <<>> => phase \in {"calling", "done", "failed"}
  /\ Running \notin call.chunked => \A i, j \in 1..Len(sent) : sent[i] = sent[j] => i = j

(* A run that started ends: every call is answered, refused or times out, and the
   loop over the items and over the chunks comes to its end. *)
RunEnds == phase = "resolving" ~> phase \in {"done", "failed"}
=============================================================================
