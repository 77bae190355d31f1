------------------------------ MODULE FieldNodes ------------------------------
(* The nodes that rewrite the fields of an item: set, transform and rename_keys,
   with the dotted paths of nodes/utils/paths.py.  One of them runs, reading its
   list of entries as it goes; an iteration of its loop is one action, and every
   state is judged as if the list ended here.

   A payload is the set of its leaves, each a path and what is found there: a
   path is the sequence of its segments, an empty dict a leaf of its own.  No
   path leads into a list, which is a leaf like a scalar. *)
EXTENDS Naturals, Sequences, Functions

CONSTANTS
  Segments,    \* the keys of a dict
  Blank,       \* the empty segment
  Names,       \* the paths the parameters of a node name
  Leaves,      \* scalars and lists
  Empty,       \* the dict without keys
  Bodies,      \* the payloads an item may come with
  Values,      \* the values an entry may assign, as the leaves they consist of
  NotDict,     \* stands for the value of an entry that is not a dict
  MaxEntries   \* bound: entries and removals of a node

Trees == SUBSET (Seq(Segments \cup {Blank}) \X (Leaves \cup {Empty}))

ASSUME FieldAssumption ==
  /\ Names \subseteq Seq(Segments \cup {Blank}) /\ <<>> \notin Names
  /\ Bodies \subseteq Trees /\ Values \subseteq Trees
  /\ Empty \notin Leaves /\ NotDict \notin Values /\ MaxEntries \in Nat

(* An assignment; it is dropped if it has no name or is not even a dict. *)
Entries == [name : Names, value : Values] \cup [name : {<<>>}, value : Values \cup {NotDict}]
Mappings == [from : Names, to : Names]

-----------------------------------------------------------------------------
(* paths.py. *)
(* The second path is the first or goes on from it. *)
Under(p, q) == Len(p) <= Len(q) /\ \A i \in 1..Len(p) : p[i] = q[i]
Overlaps(p, q) == Under(p, q) \/ Under(q, p)

(* _split refuses a path with an empty segment. *)
Malformed(path) == Blank \in Range(path)

(* What is found at the path, {} if nothing. *)
GetPath(tree, path) ==
  {<<SubSeq(l[1], Len(path) + 1, Len(l[1])), l[2]>> : l \in {x \in tree : Under(path, x[1])}}

\* Mutant: a scalar on the way is not replaced by a dict.
SetPathBeside(tree, path, value) ==
  {l \in tree : ~ Under(path, l[1])} \cup {<<path \o l[1], l[2]>> : l \in value}
(* What was at the path, below it or in its way is gone. *)
SetPath(tree, path, value) ==
  {l \in tree : ~ Overlaps(path, l[1])} \cup {<<path \o l[1], l[2]>> : l \in value}

(* The dict the path was deleted from stays, be it empty. *)
DelPath(tree, path) ==
  LET parent == SubSeq(path, 1, Len(path) - 1)
      rest == {l \in tree : ~ Under(path, l[1])}
  IN  IF rest = tree \/ parent = <<>> \/ \E l \in rest : Under(parent, l[1]) THEN rest
      ELSE rest \cup {<<parent, Empty>>}

-----------------------------------------------------------------------------
VARIABLES
  kind,          \* the node that runs
  original,      \* the payload of the item
  mode,          \* "replace": the mode of transform, or keep_only_set
  drop_missing,  \* the parameter of rename_keys
  entries,       \* the assignments or mappings read so far
  named,         \* how many of the assignments have a name
  removals,      \* the removals carried out so far
  payload,       \* what the node has made of the payload
  outcome        \* "raised" once a path was refused or a source missing

fieldVars == <<kind, original, mode, drop_missing, entries, named, removals, payload, outcome>>

Base == IF mode = "replace" THEN {} ELSE original

(* transform returns the item as it is, "replace" or not, until a name is found. *)
FieldInit ==
  /\ kind \in {"set", "transform", "rename_keys"}
  /\ original \in Bodies
  /\ mode \in (IF kind = "rename_keys" THEN {"merge"} ELSE {"merge", "replace"})
  /\ drop_missing \in (IF kind = "rename_keys" THEN BOOLEAN ELSE {TRUE})
  /\ entries = <<>> /\ named = 0 /\ removals = <<>> /\ outcome = "fine"
  /\ payload = IF kind = "set" THEN Base ELSE original

Raise == outcome' = "raised" /\ UNCHANGED payload
Leave == UNCHANGED <<payload, outcome>>
Write(tree, path, value) ==
  IF Malformed(path) THEN Raise
  ELSE payload' = SetPath(tree, path, value) /\ UNCHANGED outcome

Step(node) ==
  /\ kind = node /\ outcome = "fine" /\ Len(entries) + Len(removals) < MaxEntries
  /\ UNCHANGED <<kind, original, mode, drop_missing>>

(* _coerce_assignments drops the entries without a name. *)
Read(entry) ==
  /\ entries' = Append(entries, entry)
  /\ named' = IF entry.name = <<>> THEN named ELSE named + 1
  /\ UNCHANGED removals

(* set: the named assignments in turn, then the removals. *)
Assign(entry) ==
  /\ Step("set") /\ removals = <<>> /\ Read(entry)
  /\ IF entry.name = <<>> THEN Leave ELSE Write(payload, entry.name, entry.value)
Remove(path) ==
  /\ Step("set") /\ removals' = Append(removals, path) /\ UNCHANGED <<entries, named>>
  /\ IF Malformed(path) THEN Raise
     ELSE payload' = DelPath(payload, path) /\ UNCHANGED outcome

(* transform: the names of the named assignments, paired with the resolved values
   of all of them: the name after n others gets the value at place n + 1. *)
Transform(entry) ==
  /\ Step("transform") /\ Read(entry)
  /\ LET tree == IF named = 0 THEN Base ELSE payload
         value == Append(entries, entry)[named + 1].value
     IN  IF entry.name = <<>> THEN Leave
         ELSE IF value = NotDict THEN payload' = tree /\ UNCHANGED outcome
         ELSE Write(tree, entry.name, value)

(* rename_keys: each mapping in turn, on the payload as the ones before left it. *)
Rename(mapping) ==
  /\ Step("rename_keys") /\ entries' = Append(entries, mapping) /\ UNCHANGED <<named, removals>>
  /\ LET source == mapping.from
         value == GetPath(payload, source)
     IN  IF source = mapping.to THEN Leave
         ELSE IF Malformed(source) THEN Raise
         ELSE IF value = {} THEN (IF drop_missing THEN Leave ELSE Raise)
         ELSE Write(DelPath(payload, source), mapping.to, value)

FieldNext ==
  \/ \E entry \in Entries : Assign(entry) \/ Transform(entry)
  \/ \E path \in Names : Remove(path)
  \/ \E mapping \in Mappings : Rename(mapping)

-----------------------------------------------------------------------------
(* A leaf that no entry from a place on overwrites, buries or extends. *)
Survives(list, l, place) ==
  \A d \in place..Len(list) : list[d].name # <<>> => ~ Overlaps(list[d].name, l[1])
(* The leaves an entry assigns. *)
Put(entry) == {<<entry.name \o l[1], l[2]>> : l \in entry.value}
(* The leaves of the base and of the entries that have a name, as far as no later
   entry concerns them. *)
Placed(list, base) ==
  {l \in base : Survives(list, l, 1)}
  \cup UNION {{l \in Put(list[e]) : Survives(list, l, e + 1)} :
                e \in {d \in DOMAIN list : list[d].name # <<>>}}
(* The values of a payload; an emptied dict is none. *)
Held(tree) == {l \in tree : l[2] # Empty}
Contents(tree) == {l[2] : l \in Held(tree)}

BlanksComeLast ==
  \A d, e \in DOMAIN entries : d < e /\ entries[d].name = <<>> => entries[e].name = <<>>
(* The mappings lead to places where nothing was and no other mapping leads to. *)
NewTargets ==
  /\ \A e \in DOMAIN entries, l \in Held(original) : ~ Overlaps(entries[e].to, l[1])
  /\ \A d, e \in DOMAIN entries : d # e => ~ Overlaps(entries[d].to, entries[e].to)

(* A node that does not raise puts every value where its entry says, also where the
   paths of entries lead through one another: set and transform keep exactly the
   leaves that no later entry overwrites or replaces by a dict, and set then loses
   what is at or below a removed path and nothing else.  Of transform this is said
   unless an entry without a name comes before one with a name, for then the names
   are paired with the values of other entries, and unless it has nothing to
   replace the item by.  rename_keys to new places loses no value, although it
   takes apart and merges the dicts it moves them between. *)
FieldsGetTheirValues ==
  outcome = "fine" =>
    /\ kind = "set" =>
         Held(payload) = {l \in Held(Placed(entries, Base)) :
                            \A r \in Range(removals) : ~ Under(r, l[1])}
    /\ kind = "transform" /\ BlanksComeLast /\ (named > 0 \/ mode = "merge") =>
         payload = Placed(entries, Base)
    /\ kind = "rename_keys" /\ NewTargets => Contents(payload) = Contents(original)
=============================================================================
