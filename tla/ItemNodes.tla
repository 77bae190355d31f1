------------------------------- MODULE ItemNodes -------------------------------
(* The nodes that combine and route items: merge, switch and compare_datasets.
   One action is one iteration of a node's loop.  The input is chosen as the loop
   reads it: what a node has computed after n items is what it computes for an
   input of these n items, so every state is judged as if the input ended here. *)
EXTENDS Naturals, Sequences, Functions

CONSTANTS
  Keys,         \* the values of the join key
  NoKey,        \* the one of them that stands for an absent key or null
  Payloads,     \* the rest of an item
  FieldValues,  \* the values of the field a switch looks at, and of its cases
  ValuesMatch(_, _),  \* _values_match: equal, or equal as text if just one is a string
  Ports,        \* the declared outputs of a switch
  CasePorts,    \* the ports its cases name
  MaxItems,     \* bound: items on one input
  MaxCases      \* bound: cases of a switch

ASSUME ItemAssumption ==
  /\ Ports # {} /\ MaxItems \in Nat /\ MaxCases \in Nat
  /\ \A a, b \in FieldValues : ValuesMatch(a, b) \in BOOLEAN

Items == [key : Keys, payload : Payloads]
Cases == [value : FieldValues, port : CasePorts]

-----------------------------------------------------------------------------
(* merge. *)
VARIABLES
  left,    \* the keys of the items of input_a read so far
  right,   \* the keys of the items of input_b
  index,   \* key -> the places in input_b of its items
  out      \* the merged items: the places in input_a and input_b they are made of

mergeVars == <<left, right, index, out>>

MergeInit == left = <<>> /\ right = <<>> /\ index = [k \in Keys |-> <<>>] /\ out = <<>>

\* Mutant: the index keeps one item of a key instead of a list of them.
IndexRightOverwriting(key) ==
  /\ left = <<>> /\ Len(right) < MaxItems
  /\ right' = Append(right, key)
  /\ index' = [index EXCEPT ![key] = <<Len(right) + 1>>]
  /\ UNCHANGED <<left, out>>
(* _combine_by_key, the loop over the right items. *)
IndexRight(key) ==
  /\ left = <<>> /\ Len(right) < MaxItems
  /\ right' = Append(right, key)
  /\ index' = [index EXCEPT ![key] = Append(@, Len(right) + 1)]
  /\ UNCHANGED <<left, out>>

(* The loop over the left items: one merged item for each right item of the key. *)
JoinLeft(key) ==
  /\ Len(left) < MaxItems
  /\ left' = Append(left, key)
  /\ out' = out \o [m \in DOMAIN index[key] |-> <<Len(left) + 1, index[key][m]>>]
  /\ UNCHANGED <<right, index>>

MergeNext == \E key \in Keys : IndexRight(key) \/ JoinLeft(key)

CombineByPosition(l, r) ==
  [i \in 1..(IF Len(l) < Len(r) THEN Len(l) ELSE Len(r)) |-> <<i, i>>]

-----------------------------------------------------------------------------
(* switch. *)
VARIABLES
  cases,     \* the cases that name a port, in order
  fallback,  \* fallback_port, a declared one
  routed,    \* the field's value in the items routed so far
  buckets,   \* port -> the places of its items
  raised     \* a case of an unknown port was reached: the node fails

switchVars == <<cases, fallback, routed, buckets, raised>>

SwitchInit ==
  /\ cases \in UNION {[1..n -> Cases] : n \in 0..MaxCases}
  /\ fallback \in Ports
  /\ routed = <<>> /\ buckets = [p \in Ports |-> <<>>] /\ raised = FALSE

(* The loop over the cases ends at the first one that matches. *)
Matching(value) == {c \in DOMAIN cases : ValuesMatch(value, cases[c].value)}
Reached(value) == {c \in DOMAIN cases : \A b \in 1..(c - 1) : b \notin Matching(value)}
KnownPorts(value) == \A c \in Reached(value) : cases[c].port \in Ports

\* Mutant: the search goes on after a match.
TargetOfLast(value) ==
  IF Matching(value) = {} THEN fallback
  ELSE cases[CHOOSE c \in Matching(value) : \A b \in Matching(value) : b <= c].port
Target(value) ==
  IF Matching(value) = {} THEN fallback
  ELSE cases[CHOOSE c \in Matching(value) : \A b \in Matching(value) : c <= b].port

RouteItem(value) ==
  /\ ~ raised /\ Len(routed) < MaxItems
  /\ KnownPorts(value)
  /\ routed' = Append(routed, value)
  /\ buckets' = [buckets EXCEPT ![Target(value)] = Append(@, Len(routed) + 1)]
  /\ UNCHANGED <<cases, fallback, raised>>
RouteRaises(value) ==
  /\ ~ raised /\ Len(routed) < MaxItems
  /\ ~ KnownPorts(value)
  /\ raised' = TRUE
  /\ UNCHANGED <<cases, fallback, routed, buckets>>

SwitchNext == \E value \in FieldValues : RouteItem(value) \/ RouteRaises(value)

-----------------------------------------------------------------------------
(* compare_datasets. *)
VARIABLES
  input_a, input_b,         \* the items read so far
  left_index, right_index,  \* the dicts: their keys in the order of insertion, and what they hold
  seen_a, seen_b,           \* the keys of left_index and right_index looked at
  ports                     \* port -> the keys of its items

compareVars == <<input_a, input_b, left_index, right_index, seen_a, seen_b, ports>>

ComparePorts == {"a_only", "b_only", "same", "diff"}
NoIndex == [order |-> <<>>, held |-> [k \in {} |-> <<>>]]
Has(dict, key) == key \in DOMAIN dict.held

CompareInit ==
  /\ input_a = <<>> /\ input_b = <<>> /\ left_index = NoIndex /\ right_index = NoIndex
  /\ seen_a = 0 /\ seen_b = 0 /\ ports = [p \in ComparePorts |-> <<>>]

(* A key keeps the place of its first item and holds its last one. *)
Insert(dict, item) ==
  [order |-> IF Has(dict, item.key) THEN dict.order ELSE Append(dict.order, item.key),
   held |-> [k \in DOMAIN dict.held \cup {item.key} |->
               IF k = item.key THEN item.payload ELSE dict.held[k]]]

ReadA(item) ==
  /\ input_b = <<>> /\ seen_a = 0 /\ Len(input_a) < MaxItems
  /\ input_a' = Append(input_a, item)
  /\ left_index' = Insert(left_index, item)
  /\ UNCHANGED <<input_b, right_index, seen_a, seen_b, ports>>
ReadB(item) ==
  /\ seen_a = 0 /\ seen_b = 0 /\ Len(input_b) < MaxItems
  /\ input_b' = Append(input_b, item)
  /\ right_index' = Insert(right_index, item)
  /\ UNCHANGED <<input_a, left_index, seen_a, seen_b, ports>>

PortOf(key) ==
  IF ~ Has(right_index, key) THEN "a_only"
  ELSE IF left_index.held[key] = right_index.held[key] THEN "same" ELSE "diff"

(* The loop over left_index.items(). *)
CompareKey ==
  /\ seen_a < Len(left_index.order)
  /\ LET key == left_index.order[seen_a + 1]
     IN  ports' = [ports EXCEPT ![PortOf(key)] = Append(@, key)]
  /\ seen_a' = seen_a + 1
  /\ UNCHANGED <<input_a, input_b, left_index, right_index, seen_b>>

(* The comprehension over right_index.items(). *)
CollectB ==
  /\ seen_a = Len(left_index.order) /\ seen_b < Len(right_index.order)
  /\ LET key == right_index.order[seen_b + 1]
     IN  ports' = IF Has(left_index, key) THEN ports
                  ELSE [ports EXCEPT !["b_only"] = Append(@, key)]
  /\ seen_b' = seen_b + 1
  /\ UNCHANGED <<input_a, input_b, left_index, right_index, seen_a>>

CompareNext ==
  \/ \E item \in Items : ReadA(item) \/ ReadB(item)
  \/ CompareKey
  \/ CollectB

Compared == seen_a = Len(left_index.order) /\ seen_b = Len(right_index.order)

-----------------------------------------------------------------------------
Before(p, q) == p[1] < q[1] \/ (p[1] = q[1] /\ p[2] < q[2])
(* merge joins every item of the left input with every item of the right one that
   has the same key, and with no other, in the order of the left input and then of
   the right; by position it pairs as many as both have.  (Nothing is said of the
   items that have no key: merge_node/node.py:8-9 likens the join to SQL's, which
   never joins them, and the code joins them with one another.) *)
JoinsMatchTheKeys ==
  /\ {p \in Range(out) : left[p[1]] # NoKey}
       = {p \in (DOMAIN left) \X (DOMAIN right) : left[p[1]] = right[p[2]] /\ left[p[1]] # NoKey}
  /\ \A m, n \in DOMAIN out : m < n => Before(out[m], out[n])
  /\ Range(CombineByPosition(left, right)) = {<<i, i>> : i \in DOMAIN left \cap DOMAIN right}

Increasing(places) == \A m, n \in DOMAIN places : m < n => places[m] < places[n]
FirstMatch(value, c) ==
  /\ ValuesMatch(value, cases[c].value)
  /\ \A b \in 1..(c - 1) : ~ ValuesMatch(value, cases[b].value)
BelongsTo(value, port) ==
  \/ \E c \in DOMAIN cases : FirstMatch(value, c) /\ cases[c].port = port
  \/ (\A c \in DOMAIN cases : ~ ValuesMatch(value, cases[c].value)) /\ port = fallback
SwitchedRightly ==
  \A port \in Ports :
    /\ Increasing(buckets[port])
    /\ Range(buckets[port]) = {i \in DOMAIN routed : BelongsTo(routed[i], port)}

KeysOf(items) == {items[i].key : i \in DOMAIN items}
Single(items, k) == \A i, j \in DOMAIN items : items[i].key = k /\ items[j].key = k => i = j
Once(k) == Single(input_a, k) /\ Single(input_b, k)
Equal(k) ==
  \E i \in DOMAIN input_a, j \in DOMAIN input_b :
    /\ input_a[i].key = k /\ input_b[j].key = k
    /\ input_a[i].payload = input_b[j].payload
On(port) == Range(ports[port]) \ {NoKey}
ComparedRightly ==
  Compared =>
    LET A == KeysOf(input_a) \ {NoKey}
        B == KeysOf(input_b) \ {NoKey}
    IN  /\ On("a_only") = A \ B
        /\ On("b_only") = B \ A
        /\ On("same") \cup On("diff") = A \cap B
        /\ \A k \in A \cup B :
             Once(k) =>
               /\ \A p \in ComparePorts : \A m, n \in DOMAIN ports[p] :
                    ports[p][m] = k /\ ports[p][n] = k => m = n
               /\ k \in On("same") => Equal(k)
               /\ k \in On("diff") => ~ Equal(k)

(* switch sends every item to one port, that of the first case it matches or else
   the fallback, and each port keeps the order of the input.  compare_datasets
   reports every key of either input on the side or sides it is found on; a key
   that occurs once on a side is reported once, and as "same" exactly if the items
   are equal.  (Of a key that several items of a side have, the code routes the
   last item and drops the others, where compare_datasets/node.py:4-7 speaks of
   "the items"; which of them are reported is left open, and so is what happens to
   items without the key.) *)
RoutingIsExact == SwitchedRightly /\ ComparedRightly
=============================================================================
