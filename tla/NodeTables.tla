------------------------------ MODULE NodeTables ------------------------------
(* The vocabulary of the node and credential tables.

   An integration node is three declarations that the code keeps in different
   files and that nothing holds together: the form of spec() (which parameters
   it declares for which operation), the request builders of operations.py
   (which parameters an operation refuses to do without, and which it reads),
   and execute() with its helpers (how the credential is resolved, in which
   order things are refused, which answers count as failures).  A credential
   type is a fourth one, used by all of these.  The Nodes* modules and
   CredentialTypes write these declarations down with the constructors below;
   IntegrationNode runs them against each other. *)
EXTENDS FiniteSets, Naturals

-----------------------------------------------------------------------------
(* The form: the operation it shows first, the parameters shown for every
   operation, and the ones whose display_options name an operation.  A second
   condition (the price of a limit order, shown when order_type is "limit") is
   left out: such a parameter counts as shown for the operation, and the builder
   reads it in the same case only. *)
Form(default, always, byOp) == [default |-> default, always |-> always, byOp |-> byOp]

(* The entry of a table for an operation, nothing when it has none. *)
Entry(table, op) == IF op \in DOMAIN table THEN table[op] ELSE {}

Shown(form, op) == form.always \cup Entry(form.byOp, op)
Declared(form) == form.always \cup UNION {form.byOp[op] : op \in DOMAIN form.byOp}

-----------------------------------------------------------------------------
(* The builder of one operation: the parameters it raises without, and the ones
   it reads if they are there.  A clause is a set of parameters of which one has
   to be there; which clauses apply may hang on the value of a parameter (a
   limit order needs a price, a market order does not), so a builder has a set
   of cases, each a set of clauses.  Of "onlyOne", two at once are refused. *)
Op(must, may) == [must |-> must, may |-> may, cases |-> {{}}, onlyOne |-> {}]
OneOf(builder, clauses) == [builder EXCEPT !.cases = {clauses}]
Cases(builder, cases) == [builder EXCEPT !.cases = cases]
OnlyOne(builder, fields) == [builder EXCEPT !.onlyOne = fields]

Meets(clauses, have) == \A clause \in clauses : clause \cap have # {}
Exclusive(builder, have) == Cardinality(builder.onlyOne \cap have) <= 1

(* With these parameters the builder can produce a request, or can refuse
   because one is missing (or one too many is there).  Both are possible when
   the case depends on a value. *)
CanBuild(builder, have) ==
  /\ builder.must \subseteq have
  /\ \E clauses \in builder.cases : Meets(clauses, have)
  /\ Exclusive(builder, have)
CanMiss(builder, have) ==
  \/ ~ builder.must \subseteq have
  \/ \E clauses \in builder.cases : ~ Meets(clauses, have)
  \/ ~ Exclusive(builder, have)

-----------------------------------------------------------------------------
(* How a node calls its service: the operation it runs when none is chosen, the
   credential types of its slot and the credential fields it refuses to do
   without.  The rest are the habits of single nodes, by operation where they
   depend on it: *)
Call(fallback, types, secrets) ==
  [fallback |-> fallback, types |-> types, secrets |-> secrets,
   optional |-> FALSE, exchanges |-> FALSE, redirects |-> TRUE,
   readsBody |-> {}, confirmed |-> {}, chunked |-> {}, standIn |-> <<>>,
   secretFor |-> <<>>, needs |-> <<>>, reads |-> <<>>]

(* It runs without a credential, *)
Optional(call) == [call EXCEPT !.optional = TRUE]
(* it trades the credential for a token in a request of its own, before the items, *)
Exchanging(call) == [call EXCEPT !.exchanges = TRUE]
(* it takes a redirect (3xx) for a failure, *)
RefusesRedirect(call) == [call EXCEPT !.redirects = FALSE]
(* it reads in the body of a 2xx answer whether the call failed, *)
ReadsBody(call, ops) == [call EXCEPT !.readsBody = ops]
(* it wants the body of any answer to say that the call succeeded, *)
Confirmed(call, ops) == [call EXCEPT !.readsBody = ops, !.confirmed = ops]
(* it sends one item as a session request and one request per chunk, *)
Chunked(call, ops) == [call EXCEPT !.chunked = ops]
(* it takes a field of the credential when the parameter is empty, *)
StandIn(call, keyOf) == [call EXCEPT !.standIn = keyOf]
(* it asks for further fields of the credential, *)
SecretFor(call, keys) == [call EXCEPT !.secretFor = keys]
(* it asks for, or reads, parameters itself, outside the builder. *)
NodeNeeds(call, params) == [call EXCEPT !.needs = params]
NodeReads(call, params) == [call EXCEPT !.reads = params]

-----------------------------------------------------------------------------
(* A credential type: the fields it declares, the ones marked required, the ones
   inject() puts on the request, the ones test() answers "is required" about;
   and the ones without which inject() raises. *)
Credential(fields, required, injected, tested) ==
  [fields |-> fields, required |-> required, injected |-> injected,
   tested |-> tested, raisesWithout |-> {}]
RaisesWithout(type, keys) == [type EXCEPT !.raisesWithout = keys]
=============================================================================
