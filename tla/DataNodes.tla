------------------------------- MODULE DataNodes -------------------------------
(* The nodes that combine, route, rewrite and split items, each computing a pure
   function of its input in loops.  One of them runs. *)
EXTENDS ItemNodes, FieldNodes, TextSplitter

VARIABLE node  \* the node that runs

Nodes == {"merge", "switch", "compare_datasets", "fields", "text_splitter"}

vars == <<node, mergeVars, switchVars, compareVars, fieldVars, textVars>>

(* The parameters of the nodes that do not run make no difference. *)
Init ==
  /\ node \in Nodes
  /\ MergeInit /\ SwitchInit /\ CompareInit /\ FieldInit /\ TextInit
  /\ node # "switch" => cases = <<>> /\ fallback = CHOOSE p \in Ports : TRUE
  /\ node # "fields" => kind = "set" /\ mode = "merge" /\ original = CHOOSE b \in Bodies : TRUE
  /\ node # "text_splitter" => overlap = 0

Merge ==
  /\ node = "merge" /\ MergeNext
  /\ UNCHANGED <<node, switchVars, compareVars, fieldVars, textVars>>
Switch ==
  /\ node = "switch" /\ SwitchNext
  /\ UNCHANGED <<node, mergeVars, compareVars, fieldVars, textVars>>
CompareDatasets ==
  /\ node = "compare_datasets" /\ CompareNext
  /\ UNCHANGED <<node, mergeVars, switchVars, fieldVars, textVars>>
RewriteFields ==
  /\ node = "fields" /\ FieldNext
  /\ UNCHANGED <<node, mergeVars, switchVars, compareVars, textVars>>
SplitText ==
  /\ node = "text_splitter" /\ TextNext
  /\ UNCHANGED <<node, mergeVars, switchVars, compareVars, fieldVars>>

Next == Merge \/ Switch \/ CompareDatasets \/ RewriteFields \/ SplitText

Spec == Init /\ [][Next]_vars
=============================================================================
