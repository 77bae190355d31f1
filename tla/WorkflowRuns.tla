----------------------------- MODULE WorkflowRuns -----------------------------
(* Runs of workflows that call each other, and the static data their nodes share.

   A run of a workflow (WorkflowExecutor.run) starts from a copy of the row's
   static data and executes the nodes one after the other; in which order is the
   subject of WorkflowExecutor, here a workflow is the sequence of its nodes.
   Nodes of the kinds "memory", "summary", "vector" and "batches" read and write
   the copy.  A node of the kind "call" runs another workflow to its end, with
   static data of its own, before its own run goes on: the runs in progress form
   a stack.

   A node applies its operation once per item, so one operation of a node here
   stands for one item; the sessions, namespaces and node ids that the stores are
   keyed by are abstracted to one of each, as no operation relates two keys. *)
EXTENDS Integers, Sequences, FiniteSets, SequencesExt

CONSTANTS
  Workflows,   \* the workflows that have a row
  NodeKinds,   \* workflow -> the kinds of its nodes, in the order they run
  ProjectOf,   \* workflow -> its project
  Unknown,     \* an id that has no row
  Unlimited,   \* the window of memory_buffer
  Windows,     \* the sizes of memory_window and the caps of memory_summary
  BatchSize,   \* batch_size of split_in_batches
  Ids,         \* ids of vector records
  Vectors,     \* their vectors, sequences of numbers
  Score(_, _), \* how similar two vectors of one dimension are, by the metric
  MaxDepth     \* runs in progress for which the interpreter's stack has room

Kinds == {"memory", "summary", "vector", "batches", "call"}

ASSUME WorkflowAssumption ==
  /\ NodeKinds \in [Workflows -> Seq(Kinds)]
  /\ DOMAIN ProjectOf = Workflows
  /\ Unknown \notin Workflows
ASSUME SizeAssumption ==
  /\ Windows \subseteq Nat \ {0} /\ BatchSize \in Nat \ {0} /\ MaxDepth \in Nat \ {0}
  /\ Unlimited \notin Windows
ASSUME ScoreAssumption == \A a, b \in Vectors : Len(a) = Len(b) => Score(a, b) \in Int

VARIABLES
  row,     \* workflow -> the static data of its row
  stack    \* the runs in progress, the innermost last

vars == <<row, stack>>

(* static_data, by the keys the nodes use. *)
NoData == [history |-> <<>>, tail |-> <<>>, summary |-> "", cursor |-> 0, records |-> <<>>]

(* A run: the nodes it has executed, its static data, and a record of what was
   asked of the stores since they were last cleared: every message said, the
   smallest window used, every message told to the summary and every one handed
   out, and the latest vector of every id. *)
NewRun(w) ==
  [workflow |-> w, done |-> 0, failed |-> FALSE, static |-> row[w],
   said |-> row[w].history, least |-> Unlimited, told |-> row[w].tail, handed |-> <<>>,
   latest |-> [i \in {row[w].records[k].id : k \in DOMAIN row[w].records} |->
                 (CHOOSE r \in Range(row[w].records) : r.id = i).vector]]

Top == stack[Len(stack)]

(* Every message has a number of its own within the run. *)
Messages(n) == [k \in 1..n |-> Top.done * 10 + k]

-----------------------------------------------------------------------------
Init == row = [w \in Workflows |-> NoData] /\ stack = <<>>

StartRun(w) ==
  /\ stack = <<>>
  /\ stack' = <<NewRun(w)>>
  /\ row' = row

AtNode(kind) ==
  /\ stack # <<>>
  /\ ~ Top.failed
  /\ Top.done < Len(NodeKinds[Top.workflow])
  /\ NodeKinds[Top.workflow][Top.done + 1] = kind

(* The node has run and left its run as given. *)
Executed(run) ==
  /\ stack' = [stack EXCEPT ![Len(stack)] = [run EXCEPT !.done = @ + 1]]
  /\ row' = row

(* An exception of a node: recorded, with continue_on_fail, or the end of its run. *)
Raise(continue) ==
  IF continue THEN Executed(Top)
  ELSE /\ stack' = [stack EXCEPT ![Len(stack)].failed = TRUE]
       /\ row' = row

(* A disabled or pinned node, a load or a query: nothing changes. *)
ReadOnly(kind) == AtNode(kind) /\ kind # "call" /\ Executed(Top)
NodeRaises(kind, continue) == AtNode(kind) /\ Raise(continue)

-----------------------------------------------------------------------------
(* nodes/ai/memory_store.py: the last n messages of a sequence. *)
LastOf(s, n) == IF n = Unlimited \/ Len(s) <= n THEN s ELSE SubSeq(s, Len(s) - n + 1, Len(s))

Smaller(m, n) == IF m = Unlimited THEN n ELSE IF n = Unlimited \/ m < n THEN m ELSE n

AppendHistory(n, window) ==
  /\ AtNode("memory")
  /\ Executed([Top EXCEPT !.static.history = LastOf(@ \o Messages(n), window),
                          !.said = @ \o Messages(n),
                          !.least = Smaller(@, window)])

ClearHistory ==
  /\ AtNode("memory")
  /\ Executed([Top EXCEPT !.static.history = <<>>, !.said = <<>>, !.least = Unlimited])

(* The messages beyond the cap are returned to the workflow, oldest first. *)
Cut(combined, cap) == IF Len(combined) > cap THEN Len(combined) - cap ELSE 0

\* Mutant: the cut is one short, so the first message that is kept is handed out too.
AppendSummaryOverlapping(n, cap) ==
  /\ AtNode("summary")
  /\ LET combined == Top.static.tail \o Messages(n)
         cut == Cut(combined, cap)
     IN  Executed([Top EXCEPT
           !.static.tail = SubSeq(combined, cut + 1, Len(combined)),
           !.told = @ \o Messages(n),
           !.handed = @ \o SubSeq(combined, 1, cut + 1)])
AppendSummary(n, cap) ==
  /\ AtNode("summary")
  /\ LET combined == Top.static.tail \o Messages(n)
         cut == Cut(combined, cap)
     IN  Executed([Top EXCEPT
           !.static.tail = SubSeq(combined, cut + 1, Len(combined)),
           !.told = @ \o Messages(n),
           !.handed = @ \o SubSeq(combined, 1, cut)])

ReplaceSummary ==
  /\ AtNode("summary")
  /\ Executed([Top EXCEPT !.static.summary = "text"])

ClearSummary ==
  /\ AtNode("summary")
  /\ Executed([Top EXCEPT !.static.tail = <<>>, !.static.summary = "", !.told = <<>>, !.handed = <<>>])

-----------------------------------------------------------------------------
(* nodes/ai/vector_memory/store.py: a list of records, searched by id from the
   front. *)
With(f, i, v) == [j \in DOMAIN f \cup {i} |-> IF j = i THEN v ELSE f[j]]
Without(f, i) == [j \in DOMAIN f \ {i} |-> f[j]]
Places(records, i) == {k \in DOMAIN records : records[k].id = i}
First(places) == CHOOSE k \in places : \A j \in places : k <= j

\* Mutant: a record is added without looking for one of the same id.
UpsertAppending(i, v) ==
  /\ AtNode("vector")
  /\ Executed([Top EXCEPT !.static.records = Append(@, [id |-> i, vector |-> v]),
                          !.latest = With(@, i, v)])
Upsert(i, v) ==
  /\ AtNode("vector")
  /\ LET records == Top.static.records
         places == Places(records, i)
         entry == [id |-> i, vector |-> v]
     IN  Executed([Top EXCEPT
           !.static.records = IF places = {} THEN Append(@, entry)
                              ELSE [@ EXCEPT ![First(places)] = entry],
           !.latest = With(@, i, v)])

Delete(i) ==
  /\ AtNode("vector")
  /\ LET places == Places(Top.static.records, i)
     IN  Executed([Top EXCEPT
           !.static.records = IF places = {} THEN @ ELSE RemoveAt(@, First(places)),
           !.latest = Without(@, i)])

ClearVectors ==
  /\ AtNode("vector")
  /\ Executed([Top EXCEPT !.static.records = <<>>, !.latest = <<>>])

(* query(): the records of the right dimension, by falling score and in the order
   of the list where scores are equal (the sort is stable); a record's rank is how
   many come before it, and one. *)
Fitting(records, v) == {k \in DOMAIN records : Len(records[k].vector) = Len(v)}
Before(records, v, j, k) ==
  LET score(n) == Score(records[n].vector, v)
  IN  score(j) > score(k) \/ (score(j) = score(k) /\ j < k)
Rank(records, v, k) == Cardinality({j \in Fitting(records, v) : Before(records, v, j, k)}) + 1
Ranked(records, v) ==
  [p \in 1..Cardinality(Fitting(records, v)) |->
     records[CHOOSE k \in Fitting(records, v) : Rank(records, v, k) = p]]
Query(records, v, k) ==
  LET ranked == Ranked(records, v)
  IN  SubSeq(ranked, 1, IF k < Len(ranked) THEN k ELSE Len(ranked))

-----------------------------------------------------------------------------
(* split_in_batches: the next batch, or the whole input on "done" and back to
   the front.  The node runs once in a run. *)
SplitInBatches(items, reset) ==
  /\ AtNode("batches")
  /\ LET cursor == IF reset THEN 0 ELSE Top.static.cursor
     IN  Executed([Top EXCEPT !.static.cursor = IF cursor >= items THEN 0 ELSE cursor + BatchSize])

-----------------------------------------------------------------------------
(* The loader finds a workflow by its id and the project of the caller. *)
Loads(target) == target \in Workflows /\ ProjectOf[target] = ProjectOf[Top.workflow]

(* The child starts with the static data of its own row. *)
Call(target) ==
  /\ AtNode("call")
  /\ Loads(target)
  /\ Len(stack) < MaxDepth
  /\ stack' = Append(stack, NewRun(target))
  /\ row' = row

(* No such workflow in this project, or one more run exceeds the recursion limit
   of the interpreter. *)
CallRaises(target, continue) ==
  /\ AtNode("call")
  /\ ~ Loads(target) \/ Len(stack) = MaxDepth
  /\ Raise(continue)

RunOver == stack # <<>> /\ (Top.failed \/ Top.done = Len(NodeKinds[Top.workflow]))

(* The outermost run ends: the worker saves the execution.  The static data the
   nodes wrote goes with the run. *)
EndRun ==
  /\ RunOver
  /\ Len(stack) = 1
  /\ stack' = <<>>
  /\ row' = row

\* Mutants: the child hands its static data to the caller; a child that failed is
\* left for the caller to deal with.
ReturnWithData ==
  /\ RunOver
  /\ Len(stack) > 1
  /\ stack' = [Front(stack) EXCEPT ![Len(stack) - 1].done = @ + 1,
                                   ![Len(stack) - 1].static = Top.static]
  /\ row' = row
ReturnSuccess ==
  /\ RunOver
  /\ ~ Top.failed
  /\ Len(stack) > 1
  /\ stack' = [Front(stack) EXCEPT ![Len(stack) - 1].done = @ + 1]
  /\ row' = row
(* A child ends, well or with an error: the items of its terminal nodes are the
   output of the calling node, which has succeeded. *)
ReturnToCaller ==
  /\ RunOver
  /\ Len(stack) > 1
  /\ stack' = [Front(stack) EXCEPT ![Len(stack) - 1].done = @ + 1]
  /\ row' = row

RunStep ==
  \/ \E kind \in Kinds : ReadOnly(kind)
  \/ \E kind \in Kinds, continue \in BOOLEAN : NodeRaises(kind, continue)
  \/ \E n \in 1..2, window \in Windows \cup {Unlimited} : AppendHistory(n, window)
  \/ ClearHistory
  \/ \E n \in 1..2, cap \in Windows : AppendSummary(n, cap)
  \/ ReplaceSummary
  \/ ClearSummary
  \/ \E i \in Ids, v \in Vectors : Upsert(i, v)
  \/ \E i \in Ids : Delete(i)
  \/ ClearVectors
  \/ \E items \in 0..(BatchSize + 1), reset \in BOOLEAN : SplitInBatches(items, reset)
  \/ \E target \in Workflows : Call(target)
  \/ \E target \in Workflows \cup {Unknown}, continue \in BOOLEAN : CallRaises(target, continue)
  \/ EndRun
  \/ ReturnToCaller

Next == (\E w \in Workflows : StartRun(w)) \/ RunStep

(* A run in progress goes on: the executor's loop has nothing to wait for but its
   nodes, whose calls time out.  Nothing makes anyone start a run. *)
Spec == Init /\ [][Next]_vars /\ WF_vars(RunStep)

-----------------------------------------------------------------------------
Runs == {stack[d] : d \in DOMAIN stack}

(* memory_buffer and memory_window share one history: whatever mix of the two
   wrote it, in nested runs of the same workflow too, it is the latest messages
   of this run, in order, without a gap, and at least as many as the smallest
   window has room for. *)
HistoryIsTheLatest ==
  \A run \in Runs :
    LET kept == Len(run.static.history)
    IN  /\ IsSuffix(run.static.history, run.said)
        /\ run.least = Unlimited => kept = Len(run.said)
        /\ run.least # Unlimited => kept >= run.least \/ kept = Len(run.said)

(* memory_summary: every message is either in the tail or was handed out to be
   summarised, once, and in the order they came in. *)
NothingEscapesTheSummary ==
  \A run \in Runs : run.handed \o run.static.tail = run.told

(* The list of records is a map from ids to the latest vectors. *)
RecordsAreTheLatest(run) ==
  LET records == run.static.records
  IN  /\ \A i \in DOMAIN run.latest : \E r \in Range(records) : r.id = i /\ r.vector = run.latest[i]
      /\ Len(records) = Cardinality(DOMAIN run.latest)

(* A query returns as many as it may of the right dimension, none of the ones it
   leaves out being more similar, with every top_k up to one more than there are. *)
QueriesFindTheNearest(run) ==
  \A v \in Vectors, k \in 1..(Len(run.static.records) + 1) :
    LET found == Query(run.static.records, v, k)
        fitting == {i \in DOMAIN run.latest : Len(run.latest[i]) = Len(v)}
        missed == fitting \ {r.id : r \in Range(found)}
    IN  /\ Len(found) = k \/ missed = {}
        /\ \A r \in Range(found), i \in missed : Score(r.vector, v) >= Score(run.latest[i], v)

(* vector_memory: whatever was upserted, deleted and cleared in whichever order,
   the list of records is a map from ids to the latest vectors, and a query finds
   the nearest of them. *)
VectorStoreIsAMap ==
  \A run \in Runs : RecordsAreTheLatest(run) /\ QueriesFindTheNearest(run)

(* A run comes to its end whatever workflows call each other or themselves: a
   recursion is cut off by the interpreter, as an exception of the node that
   calls, and a failed child does not hold up its caller. *)
RunsEnd == stack # <<>> ~> stack = <<>>

(* What the documentation says of static data: what the nodes of a run leave there
   is what the next run of the workflow finds. *)
StaticDataPersists ==
  [][RunOver /\ Len(stack') < Len(stack) => row'[Top.workflow] = Top.static]_vars
=============================================================================
