------------------------- MODULE WorkflowRunsProofs -------------------------
(***************************************************************************)
(* What holds of the stores the nodes keep in static data, for every set   *)
(* of workflows, every program, any depth of calls, any windows and caps,  *)
(* and any ids and vectors.                                                *)
(***************************************************************************)
EXTENDS WorkflowRuns, SequenceTheorems, FiniteSetTheorems, TLAPS

-----------------------------------------------------------------------------
(* The type.                                                                *)

Record == [id : Ids, vector : Vectors]
Data == [history : Seq(Nat), tail : Seq(Nat), summary : {"", "text"}, cursor : Nat,
         records : Seq(Record)]
Map == UNION {[I -> Vectors] : I \in SUBSET Ids}
Run == [workflow : Workflows, done : Nat, failed : BOOLEAN, static : Data, said : Seq(Nat),
        least : Windows \cup {Unlimited}, told : Seq(Nat), handed : Seq(Nat), latest : Map]

-----------------------------------------------------------------------------
(* The inductive invariant: three facts about a run, place by place.        *)

\* The history h is the end of what was said, and long enough.
Recent(h, said, least) ==
  /\ Len(h) <= Len(said)
  /\ \A i \in 1 .. Len(h) : h[i] = said[Len(said) - Len(h) + i]
  /\ least = Unlimited => Len(h) = Len(said)
  /\ least # Unlimited => Len(h) >= least \/ Len(h) = Len(said)

\* The records have ids of their own, which are those of the map, and its vectors.
Represents(records, latest) ==
  /\ \A j, k \in 1 .. Len(records) : records[j].id = records[k].id => j = k
  /\ DOMAIN latest = {records[k].id : k \in 1 .. Len(records)}
  /\ \A k \in 1 .. Len(records) : latest[records[k].id] = records[k].vector
  /\ IsFiniteSet(DOMAIN latest) /\ Len(records) = Cardinality(DOMAIN latest)

RunOK(run) ==
  /\ run \in Run
  /\ Recent(run.static.history, run.said, run.least)
  /\ run.handed \o run.static.tail = run.told
  /\ Represents(run.static.records, run.latest)

Inv ==
  /\ row = [w \in Workflows |-> NoData]
  /\ stack \in Seq(Run)
  /\ \A d \in 1 .. Len(stack) : RunOK(stack[d])

-----------------------------------------------------------------------------
(* Lemmas about the stores.                                                 *)

\* A sequence that agrees with the end of another one is a suffix of it.
LEMMA AgreesAtTheEnd ==
  ASSUME NEW s \in Seq(Nat), NEW t \in Seq(Nat), Len(s) <= Len(t),
         \A i \in 1 .. Len(s) : s[i] = t[Len(t) - Len(s) + i]
  PROVE  IsSuffix(s, t)
<1> DEFINE n == Len(s)
           rs == Reverse(s)
           rt == Reverse(t)
<1>1. n \in Nat /\ Len(t) \in Nat
  OBVIOUS
<1>2. rs \in Seq(Nat) /\ rt \in Seq(Nat) /\ Len(rs) = n /\ Len(rt) = Len(t)
  <2>1. \A i \in 1 .. n : s[(n - i) + 1] \in Nat
    OBVIOUS
  <2>2. \A i \in 1 .. Len(t) : t[(Len(t) - i) + 1] \in Nat
    OBVIOUS
  <2> QED
    BY <1>1, <2>1, <2>2 DEF Reverse
<1>3. \A i \in 1 .. n : rs[i] = s[(n - i) + 1] /\ rt[i] = t[(Len(t) - i) + 1]
  BY <1>1 DEF Reverse
<1>4. \A i \in 1 .. n : rs[i] = rt[i]
  <2> TAKE i \in 1 .. n
  <2>1. (n - i) + 1 \in 1 .. n /\ (Len(t) - n) + ((n - i) + 1) = (Len(t) - i) + 1
    BY <1>1
  <2> QED
    BY <1>3, <2>1
<1> HIDE DEF rs, rt
<1>5. SubSeq(rs, 1, n) = SubSeq(rt, 1, n)
  BY <1>1, <1>2, <1>4
<1> QED
  BY <1>1, <1>2, <1>5 DEF IsSuffix, IsPrefix, rs, rt

\* memory_store.py: what a write with a window keeps is still the end of what
\* was said.
LEMMA WindowKeepsTheEnd ==
  ASSUME NEW h \in Seq(Nat), NEW said \in Seq(Nat), NEW least \in Windows \cup {Unlimited},
         NEW m \in Seq(Nat), NEW window \in Windows \cup {Unlimited}, Recent(h, said, least)
  PROVE  /\ LastOf(h \o m, window) \in Seq(Nat)
         /\ Smaller(least, window) \in Windows \cup {Unlimited}
         /\ Recent(LastOf(h \o m, window), said \o m, Smaller(least, window))
<1> DEFINE c == h \o m
           s == said \o m
<1>1. /\ c \in Seq(Nat) /\ s \in Seq(Nat)
      /\ Len(c) = Len(h) + Len(m) /\ Len(s) = Len(said) + Len(m)
      /\ Len(h) \in Nat /\ Len(m) \in Nat /\ Len(said) \in Nat /\ Len(h) <= Len(said)
  BY DEF Recent
<1>2. \A i \in 1 .. Len(c) : c[i] = s[(Len(s) - Len(c)) + i]
  <2> TAKE i \in 1 .. Len(c)
  <2>1. CASE i <= Len(h)
    <3>1. c[i] = h[i] /\ h[i] = said[Len(said) - Len(h) + i]
      BY <1>1, <2>1 DEF Recent
    <3>2. (Len(s) - Len(c)) + i = Len(said) - Len(h) + i /\ Len(said) - Len(h) + i \in 1 .. Len(said)
      BY <1>1, <2>1
    <3> QED
      BY <1>1, <3>1, <3>2
  <2>2. CASE i > Len(h)
    <3>1. c[i] = m[i - Len(h)] /\ i - Len(h) \in 1 .. Len(m)
      BY <1>1, <2>2
    <3>2. (Len(s) - Len(c)) + i = Len(said) + (i - Len(h))
      BY <1>1
    <3>3. s[Len(said) + (i - Len(h))] = m[i - Len(h)]
      BY <1>1, <3>1
    <3> QED
      BY <3>1, <3>2, <3>3
  <2> QED
    BY <1>1, <2>1, <2>2
<1>3. Smaller(least, window) \in Windows \cup {Unlimited}
  BY DEF Smaller
<1> HIDE DEF c, s
<1>4. CASE window = Unlimited \/ Len(c) <= window
  <2>1. LastOf(c, window) = c
    BY <1>4 DEF LastOf
  <2>2. Smaller(least, window) = Unlimited => Len(c) = Len(s)
    BY <1>1, SizeAssumption DEF Smaller, Recent
  <2>3. Smaller(least, window) # Unlimited => Len(c) >= Smaller(least, window) \/ Len(c) = Len(s)
    <3>1. CASE least = Unlimited
      BY <1>1, <3>1 DEF Recent
    <3>2. CASE least # Unlimited
      <4>1. Smaller(least, window) \in Nat /\ Smaller(least, window) <= least /\ least \in Nat
        BY <3>2, SizeAssumption DEF Smaller
      <4>2. Len(h) >= least \/ Len(h) = Len(said)
        BY <3>2 DEF Recent
      <4>3. CASE Len(h) = Len(said)
        BY <1>1, <4>3
      <4>4. CASE Len(h) >= least
        <5>1. \A a, b, d, e \in Nat : a <= b /\ d >= b => d + e >= a
          OBVIOUS
        <5> QED
          BY <1>1, <4>1, <4>4, <5>1
      <4> QED
        BY <4>2, <4>3, <4>4
    <3> QED
      BY <3>1, <3>2
  <2>4. Recent(c, s, Smaller(least, window))
    BY <1>1, <1>2, <2>2, <2>3 DEF Recent
  <2> QED
    BY <1>1, <1>3, <2>1, <2>4 DEF c, s
<1>5. CASE window # Unlimited /\ ~(Len(c) <= window)
  <2> DEFINE l == SubSeq(c, Len(c) - window + 1, Len(c))
  <2>1. window \in Nat \ {0} /\ Len(c) \in Nat /\ window < Len(c)
    BY <1>1, <1>5, SizeAssumption
  <2>2. LastOf(c, window) = l
    BY <1>5 DEF LastOf
  <2>3. /\ l \in Seq(Nat) /\ Len(l) = window
        /\ \A i \in 1 .. window : l[i] = c[(Len(c) - window) + i]
    <3> DEFINE a == Len(c) - window + 1
    <3>1. a \in Int /\ Len(c) \in Int /\ a <= Len(c) /\ Len(c) - a + 1 = window
      BY <2>1
    <3>2. \A i \in a .. Len(c) : c[i] \in Nat
      <4> TAKE i \in a .. Len(c)
      <4>1. i \in 1 .. Len(c)
        BY <2>1
      <4> QED
        BY <1>1, <4>1, ElementOfSeq
    <3>3. \A i \in 1 .. window : a + i - 1 = (Len(c) - window) + i
      BY <2>1
    <3> HIDE DEF a
    <3>4. /\ SubSeq(c, a, Len(c)) \in Seq(Nat) /\ Len(SubSeq(c, a, Len(c))) = window
          /\ \A i \in 1 .. window : SubSeq(c, a, Len(c))[i] = c[a + i - 1]
      BY <3>1, <3>2, SubSeqProperties
    <3> QED
      BY <3>3, <3>4 DEF a
  <2> HIDE DEF l
  <2>4. \A i \in 1 .. Len(l) : l[i] = s[(Len(s) - Len(l)) + i]
    <3> TAKE i \in 1 .. Len(l)
    <3>1. (Len(c) - window) + i \in 1 .. Len(c)
      BY <2>1, <2>3
    <3>2. c[(Len(c) - window) + i] = s[(Len(s) - Len(c)) + ((Len(c) - window) + i)]
      BY <1>2, <3>1
    <3>3. (Len(s) - Len(c)) + ((Len(c) - window) + i) = (Len(s) - Len(l)) + i
      BY <1>1, <2>1, <2>3
    <3> QED
      BY <2>3, <3>2, <3>3
  <2>5. Smaller(least, window) # Unlimited /\ window >= Smaller(least, window)
    BY <1>5, SizeAssumption DEF Smaller
  <2>6. Recent(l, s, Smaller(least, window))
    BY <1>1, <2>1, <2>3, <2>4, <2>5 DEF Recent
  <2> QED
    BY <1>3, <2>2, <2>3, <2>6 DEF c, s
<1> QED
  BY <1>4, <1>5

\* Concatenation of messages is associative.
LEMMA Associative ==
  ASSUME NEW s \in Seq(Nat), NEW t \in Seq(Nat), NEW u \in Seq(Nat)
  PROVE  (s \o t) \o u = s \o (t \o u)
BY SMTT(30)

\* memory_summary: cutting the oldest messages off loses none and repeats none.
LEMMA CutLosesNothing ==
  ASSUME NEW c \in Seq(Nat), NEW cap \in Nat
  PROVE  /\ SubSeq(c, 1, Cut(c, cap)) \in Seq(Nat)
         /\ SubSeq(c, Cut(c, cap) + 1, Len(c)) \in Seq(Nat)
         /\ SubSeq(c, 1, Cut(c, cap)) \o SubSeq(c, Cut(c, cap) + 1, Len(c)) = c
<1> DEFINE cut == Cut(c, cap)
           out == SubSeq(c, 1, cut)
           rest == SubSeq(c, cut + 1, Len(c))
<1>1. Len(c) \in Nat
  OBVIOUS
<1>2. cut \in 0 .. Len(c)
  BY <1>1 DEF Cut
<1> HIDE DEF cut
<1>3. out \in Seq(Nat) /\ rest \in Seq(Nat)
  <2>1. \A i \in 1 .. cut : c[i] \in Nat
    BY <1>1, <1>2
  <2>2. \A i \in cut + 1 .. Len(c) : c[i] \in Nat
    BY <1>1, <1>2
  <2> QED
    BY <1>1, <1>2, <2>1, <2>2, SubSeqProperties
<1>4. out \o rest = c
  <2>1. 1 \in 1 .. Len(c) + 1 /\ cut \in (1 - 1) .. Len(c) /\ Len(c) \in cut .. Len(c)
    BY <1>1, <1>2
  <2>2. out \o rest = SubSeq(c, 1, Len(c))
    BY <1>1, <2>1, ConcatAdjacentSubSeq
  <2> QED
    BY <1>1, <2>2, SubSeqFull
<1> QED
  BY <1>3, <1>4 DEF cut

\* What a map of the store is.
LEMMA MapIs ==
  ASSUME NEW f
  PROVE  f \in Map <=> f \in [DOMAIN f -> Vectors] /\ DOMAIN f \subseteq Ids
BY DEF Map

\* vector_memory/store.py: an upsert replaces the record of the id, or adds one.
LEMMA UpsertRepresents ==
  ASSUME NEW records \in Seq(Record), NEW latest \in Map, NEW i \in Ids, NEW v \in Vectors,
         Represents(records, latest)
  PROVE  LET places == Places(records, i)
             entry == [id |-> i, vector |-> v]
             new == IF places = {} THEN Append(records, entry)
                    ELSE [records EXCEPT ![First(places)] = entry]
         IN  new \in Seq(Record) /\ With(latest, i, v) \in Map
             /\ Represents(new, With(latest, i, v))
<1> DEFINE places == Places(records, i)
           entry == [id |-> i, vector |-> v]
           m == With(latest, i, v)
           n == Len(records)
<1>1. /\ n \in Nat /\ Len(records) = n /\ DOMAIN records = 1 .. n
      /\ entry \in Record /\ entry.id = i /\ entry.vector = v
  BY DEF Record
<1>a. /\ \A j, k \in 1 .. n : records[j].id = records[k].id => j = k
      /\ DOMAIN latest = {records[k].id : k \in 1 .. n}
      /\ \A k \in 1 .. n : latest[records[k].id] = records[k].vector
      /\ IsFiniteSet(DOMAIN latest) /\ n = Cardinality(DOMAIN latest)
  BY DEF Represents
<1>2. /\ DOMAIN m = DOMAIN latest \cup {i} /\ m[i] = v
      /\ \A j \in DOMAIN latest : j # i => m[j] = latest[j]
  BY DEF With
<1>3. m \in Map
  <2>1. latest \in [DOMAIN latest -> Vectors] /\ DOMAIN latest \subseteq Ids
    BY MapIs
  <2>2. m \in [DOMAIN latest \cup {i} -> Vectors]
    BY <2>1 DEF With
  <2> HIDE DEF m
  <2> QED
    BY <1>2, <2>1, <2>2, MapIs
<1>4. IsFiniteSet(DOMAIN m) /\ Cardinality(DOMAIN m) = IF i \in DOMAIN latest THEN n ELSE n + 1
  BY <1>2, <1>a, FS_AddElement, ZenonT(60)
<1> HIDE DEF m, n, entry
<1>5. CASE places = {}
  <2> DEFINE new == Append(records, entry)
  <2>1. \A k \in 1 .. n : records[k].id # i
    BY <1>1, <1>5 DEF Places
  <2>2. /\ new \in Seq(Record) /\ Len(new) = n + 1 /\ new[n + 1] = entry
        /\ \A k \in 1 .. n : new[k] = records[k]
    BY <1>1, AppendProperties
  <2> HIDE DEF new
  <2>3. \A k \in 1 .. n + 1 : k \in 1 .. n \/ k = n + 1
    BY <1>1
  <2>4. \A j, k \in 1 .. n + 1 : new[j].id = new[k].id => j = k
    BY <1>a, <1>1, <2>1, <2>2, <2>3
  <2>5. DOMAIN m = {new[k].id : k \in 1 .. n + 1}
    <3>1. \A k \in 1 .. n + 1 : new[k].id \in DOMAIN m
      BY <1>a, <1>1, <1>2, <2>2, <2>3
    <3>2. \A j \in DOMAIN m : \E k \in 1 .. n + 1 : new[k].id = j
      <4>1. n + 1 \in 1 .. n + 1 /\ \A k \in 1 .. n : k \in 1 .. n + 1
        BY <1>1
      <4>2. \A k \in 1 .. n : k \in 1 .. n + 1 /\ new[k].id = records[k].id
        BY <2>2, <4>1
      <4>3. \A j \in DOMAIN latest : \E k \in 1 .. n + 1 : new[k].id = j
        <5> TAKE j \in DOMAIN latest
        <5>1. PICK k \in 1 .. n : j = records[k].id
          BY <1>a
        <5> QED
          BY <4>2, <5>1
      <4>4. new[n + 1].id = i
        BY <1>1, <2>2
      <4> QED
        BY <1>2, <4>1, <4>3, <4>4
    <3> QED
      BY <3>1, <3>2
  <2>6. \A k \in 1 .. n + 1 : m[new[k].id] = new[k].vector
    <3> TAKE k \in 1 .. n + 1
    <3>1. CASE k = n + 1
      BY <1>1, <1>2, <2>2, <3>1
    <3>2. CASE k \in 1 .. n
      <4>1. records[k].id \in DOMAIN latest /\ records[k].id # i /\ new[k] = records[k]
        BY <1>a, <2>1, <2>2, <3>2
      <4> QED
        BY <1>a, <1>2, <3>2, <4>1, ZenonT(60)
    <3> QED
      BY <2>3, <3>1, <3>2
  <2>7. i \notin DOMAIN latest
    BY <1>a, <2>1
  <2>8. Represents(new, m)
    BY <1>4, <2>2, <2>4, <2>5, <2>6, <2>7 DEF Represents
  <2> QED
    BY <1>3, <1>5, <2>2, <2>8 DEF new, m, entry
<1>6. CASE places # {}
  <2> DEFINE p == First(places)
             new == [records EXCEPT ![p] = entry]
  <2>1. PICK q \in 1 .. n : records[q].id = i
    BY <1>1, <1>6 DEF Places
  <2>2. places = {q}
    BY <1>a, <1>1, <2>1 DEF Places
  <2>3. p = q
    BY <1>1, <2>2 DEF First
  <2> HIDE DEF p
  <2>4. /\ new \in Seq(Record) /\ Len(new) = n
        /\ \A k \in 1 .. n : new[k] = IF k = q THEN entry ELSE records[k]
    BY <1>1, <2>3, ExceptSeq
  <2> HIDE DEF new
  <2>5. \A k \in 1 .. n : new[k].id = records[k].id
    BY <1>1, <2>1, <2>4
  <2>6. i \in DOMAIN latest
    BY <1>a, <2>1
  <2>7. \A k \in 1 .. n : m[new[k].id] = new[k].vector
    <3> TAKE k \in 1 .. n
    <3>1. CASE k = q
      BY <1>1, <1>2, <2>4, <3>1
    <3>2. CASE k # q
      <4>1. records[k].id \in DOMAIN latest /\ records[k].id # i /\ new[k] = records[k]
        BY <1>a, <2>1, <2>4, <3>2
      <4> QED
        BY <1>a, <1>2, <4>1, ZenonT(60)
    <3> QED
      BY <3>1, <3>2
  <2>8. DOMAIN m = {new[k].id : k \in 1 .. n}
    <3>1. {new[k].id : k \in 1 .. n} = {records[k].id : k \in 1 .. n}
      BY <2>5
    <3> QED
      BY <1>a, <1>2, <2>6, <3>1
  <2>9. \A j, k \in 1 .. n : new[j].id = new[k].id => j = k
    BY <1>a, <2>5
  <2>10. Represents(new, m)
    BY <1>4, <2>4, <2>6, <2>7, <2>8, <2>9 DEF Represents
  <2> QED
    BY <1>3, <1>6, <2>4, <2>10 DEF new, p, m, entry
<1> QED
  BY <1>5, <1>6

\* vector_memory/store.py: a delete takes the record of the id out.
LEMMA DeleteRepresents ==
  ASSUME NEW records \in Seq(Record), NEW latest \in Map, NEW i \in Ids,
         Represents(records, latest)
  PROVE  LET places == Places(records, i)
             new == IF places = {} THEN records ELSE RemoveAt(records, First(places))
         IN  new \in Seq(Record) /\ Without(latest, i) \in Map
             /\ Represents(new, Without(latest, i))
<1> DEFINE places == Places(records, i)
           m == Without(latest, i)
           n == Len(records)
<1>1. n \in Nat /\ Len(records) = n /\ DOMAIN records = 1 .. n
  OBVIOUS
<1>a. /\ \A j, k \in 1 .. n : records[j].id = records[k].id => j = k
      /\ DOMAIN latest = {records[k].id : k \in 1 .. n}
      /\ \A k \in 1 .. n : latest[records[k].id] = records[k].vector
      /\ IsFiniteSet(DOMAIN latest) /\ n = Cardinality(DOMAIN latest)
  BY DEF Represents
<1>2. DOMAIN m = DOMAIN latest \ {i} /\ \A j \in DOMAIN latest : j # i => m[j] = latest[j]
  BY DEF Without
<1>3. m \in Map
  <2>1. latest \in [DOMAIN latest -> Vectors] /\ DOMAIN latest \subseteq Ids
    BY MapIs
  <2>2. m \in [DOMAIN latest \ {i} -> Vectors]
    BY <2>1 DEF Without
  <2> HIDE DEF m
  <2> QED
    BY <1>2, <2>1, <2>2, MapIs
<1>4. IsFiniteSet(DOMAIN m) /\ Cardinality(DOMAIN m) = IF i \in DOMAIN latest THEN n - 1 ELSE n
  BY <1>2, <1>a, FS_RemoveElement, ZenonT(60)
<1> HIDE DEF m, n
<1>5. CASE places = {}
  <2>1. \A k \in 1 .. n : records[k].id # i
    BY <1>1, <1>5 DEF Places
  <2>2. i \notin DOMAIN latest
    BY <1>a, <2>1
  <2>3. Represents(records, m)
    BY <1>a, <1>1, <1>2, <1>4, <2>1, <2>2, ZenonT(60) DEF Represents
  <2> QED
    BY <1>3, <1>5, <2>3 DEF m
<1>6. CASE places # {}
  <2> DEFINE p == First(places)
             front == SubSeq(records, 1, p - 1)
             back == SubSeq(records, p + 1, n)
             new == front \o back
  <2>1. PICK q \in 1 .. n : records[q].id = i
    BY <1>1, <1>6 DEF Places
  <2>2. places = {q}
    BY <1>a, <1>1, <2>1 DEF Places
  <2>3. p = q
    BY <1>1, <2>2 DEF First
  <2> HIDE DEF p
  <2>4. front \in Seq(Record) /\ Len(front) = p - 1 /\ \A k \in 1 .. p - 1 : front[k] = records[k]
    BY <1>1, <2>3
  <2>5. back \in Seq(Record) /\ Len(back) = n - p /\ \A k \in 1 .. n - p : back[k] = records[p + k]
    <3>1. \A k \in p + 1 .. n : records[k] \in Record
      BY <1>1, <2>3
    <3>2. p + 1 \in Int /\ n \in Int /\ n - (p + 1) + 1 = n - p
      BY <1>1, <2>3
    <3>3. /\ back \in Seq(Record) /\ Len(back) = (IF p + 1 <= n THEN n - (p + 1) + 1 ELSE 0)
          /\ \A k \in 1 .. n - (p + 1) + 1 : back[k] = records[(p + 1) + k - 1]
      BY <3>1, <3>2, SubSeqProperties
    <3>4. \A k \in 1 .. n - p : (p + 1) + k - 1 = p + k
      BY <1>1, <2>3
    <3>5. (IF p + 1 <= n THEN n - (p + 1) + 1 ELSE 0) = n - p
      BY <1>1, <2>3
    <3> HIDE DEF back
    <3> QED
      BY <3>2, <3>3, <3>4, <3>5
  <2> HIDE DEF front, back
  <2>c. /\ new \in Seq(Record) /\ Len(new) = Len(front) + Len(back)
        /\ \A k \in 1 .. Len(front) + Len(back) :
             new[k] = IF k <= Len(front) THEN front[k] ELSE back[k - Len(front)]
    BY <2>4, <2>5, ConcatProperties
  <2> HIDE DEF new
  <2>6. new \in Seq(Record) /\ Len(new) = n - 1
    BY <1>1, <2>3, <2>4, <2>5, <2>c
  <2>7. \A k \in 1 .. n - 1 : new[k] = IF k < p THEN records[k] ELSE records[k + 1]
    <3> TAKE k \in 1 .. n - 1
    <3>1. CASE k < p
      BY <1>1, <2>3, <2>4, <2>5, <2>c, <3>1
    <3>2. CASE k >= p
      <4>1. k - (p - 1) \in 1 .. n - p /\ p + (k - (p - 1)) = k + 1
        BY <1>1, <2>3, <3>2
      <4>2. new[k] = back[k - (p - 1)]
        BY <1>1, <2>3, <2>4, <2>5, <2>c, <3>2, <4>1
      <4> QED
        BY <1>1, <2>3, <2>5, <3>2, <4>1, <4>2
    <3> QED
      BY <1>1, <2>3, <3>1, <3>2
  <2>8. \A j, k \in 1 .. n - 1 : new[j].id = new[k].id => j = k
    <3> TAKE j, k \in 1 .. n - 1
    <3> HAVE new[j].id = new[k].id
    <3>1. \A l \in 1 .. n - 1 : l \in 1 .. n /\ l + 1 \in 1 .. n
      BY <1>1
    <3>2. \A a, b \in 1 .. n : records[a].id = records[b].id => a = b
      BY <1>a
    <3>3. PICK a \in 1 .. n : new[j] = records[a] /\ a = IF j < p THEN j ELSE j + 1
      BY <2>7, <3>1
    <3>4. PICK b \in 1 .. n : new[k] = records[b] /\ b = IF k < p THEN k ELSE k + 1
      BY <2>7, <3>1
    <3>5. a = b
      BY <3>2, <3>3, <3>4
    <3> QED
      BY <1>1, <2>3, <3>3, <3>4, <3>5
  <2>9. {new[k].id : k \in 1 .. n - 1} = {records[k].id : k \in 1 .. n} \ {i}
    <3>1. ASSUME NEW k \in 1 .. n - 1
          PROVE  \E a \in 1 .. n : new[k] = records[a] /\ a # q
      BY <1>1, <2>3, <2>7
    <3>2. ASSUME NEW a \in 1 .. n, a # q
          PROVE  \E k \in 1 .. n - 1 : new[k] = records[a]
      <4>1. CASE a < q
        BY <1>1, <2>3, <2>7, <4>1
      <4>2. CASE a > q
        <5>1. a - 1 \in 1 .. n - 1 /\ ~(a - 1 < q) /\ (a - 1) + 1 = a
          BY <1>1, <4>2
        <5> QED
          BY <2>3, <2>7, <5>1
      <4> QED
        BY <1>1, <3>2, <4>1, <4>2
    <3>3. \A a \in 1 .. n : records[a].id = i <=> a = q
      BY <1>a, <2>1
    <3>4. \A k \in 1 .. n - 1 : new[k].id \in {records[a].id : a \in 1 .. n} \ {i}
      BY <3>1, <3>3
    <3>5. \A j \in {records[a].id : a \in 1 .. n} \ {i} : \E k \in 1 .. n - 1 : new[k].id = j
      BY <3>2, <3>3
    <3> QED
      BY <3>4, <3>5
  <2>10. \A k \in 1 .. n - 1 : m[new[k].id] = new[k].vector
    <3> TAKE k \in 1 .. n - 1
    <3>1. PICK a \in 1 .. n : new[k] = records[a] /\ a # q
      BY <1>1, <2>3, <2>7
    <3>2. records[a].id # i /\ records[a].id \in DOMAIN latest
      BY <1>a, <2>1, <3>1
    <3>3. latest[records[a].id] = records[a].vector
      BY <1>a
    <3>4. m[records[a].id] = latest[records[a].id]
      BY <1>2, <3>2
    <3> QED
      BY <3>1, <3>3, <3>4
  <2>11. i \in DOMAIN latest
    BY <1>a, <2>1
  <2>12. Represents(new, m)
    BY <1>a, <1>2, <1>4, <2>6, <2>8, <2>9, <2>10, <2>11 DEF Represents
  <2>13. RemoveAt(records, p) = new
    BY DEF RemoveAt, new, front, back, n
  <2> QED
    BY <1>3, <1>6, <2>6, <2>12, <2>13 DEF p, m
<1> QED
  BY <1>5, <1>6

-----------------------------------------------------------------------------
(* Queries of the vector store.                                             *)

\* The ranks of a finite set that a strict total order B sorts are a bijection to
\* the places 1, 2, ..., and follow the order.
LEMMA RanksAreThePlaces ==
  ASSUME NEW F, IsFiniteSet(F), NEW below \in [F -> SUBSET F],
         \A j \in F : j \notin below[j],
         \A j, k \in F : j \in below[k] => below[j] \subseteq below[k],
         \A j, k \in F : j = k \/ j \in below[k] \/ k \in below[j],
         NEW rank, rank = [k \in F |-> Cardinality(below[k]) + 1]
  PROVE  /\ Cardinality(F) \in Nat
         /\ rank \in [F -> 1 .. Cardinality(F)]
         /\ \A j, k \in F : j \in below[k] => rank[j] < rank[k]
         /\ \A p \in 1 .. Cardinality(F) : \E k \in F : rank[k] = p
<1>1. PICK n \in Nat : n = Cardinality(F)
  BY FS_CardinalityType
<1>2. ASSUME NEW k \in F
      PROVE  IsFiniteSet(below[k]) /\ Cardinality(below[k]) \in Nat /\ Cardinality(below[k]) < n
  <2>1. PICK S : S = below[k] /\ S \in SUBSET F /\ S # F
    OBVIOUS
  <2>2. /\ IsFiniteSet(S) /\ Cardinality(S) <= Cardinality(F)
        /\ Cardinality(F) = Cardinality(S) => F = S
    BY <2>1, FS_Subset
  <2>3. Cardinality(S) \in Nat
    BY <2>2, FS_CardinalityType
  <2> QED
    BY <1>1, <2>1, <2>2, <2>3
<1>3. \A k \in F : rank[k] = Cardinality(below[k]) + 1
  OBVIOUS
<1>4. ASSUME NEW j \in F, NEW k \in F, j \in below[k]
      PROVE  rank[j] < rank[k]
  <2>1. PICK S, T : S = below[j] /\ T = below[k]
    OBVIOUS
  <2>2. S \in SUBSET T /\ S # T
    BY <1>4, <2>1
  <2>3. IsFiniteSet(T) /\ Cardinality(S) \in Nat /\ Cardinality(T) \in Nat
    BY <1>2, <2>1
  <2>4. Cardinality(S) <= Cardinality(T) /\ (Cardinality(T) = Cardinality(S) => T = S)
    BY <2>2, <2>3, FS_Subset
  <2>5. rank[j] = Cardinality(S) + 1 /\ rank[k] = Cardinality(T) + 1
    BY <1>3, <2>1
  <2> QED
    BY <2>2, <2>3, <2>4, <2>5
<1>5. \A k \in F : rank[k] \in 1 .. n
  <2>1. \A c \in Nat : c < n => c + 1 \in 1 .. n
    BY <1>1
  <2> QED
    BY <1>2, <1>3, <2>1
<1>6. rank \in [F -> 1 .. n]
  BY <1>5
<1>7. ASSUME NEW j \in F, NEW k \in F, rank[j] = rank[k] PROVE j = k
  <2>1. ~ (rank[j] < rank[k]) /\ ~ (rank[k] < rank[j])
    BY <1>1, <1>6, <1>7
  <2>2. j \notin below[k] /\ k \notin below[j]
    BY <1>4, <2>1
  <2> QED
    BY <2>2
<1>8. rank \in Injection(F, 1 .. n)
  BY ONLY <1>6, <1>7 DEF Injection, IsInjective
<1>9. IsFiniteSet(1 .. n) /\ Cardinality(1 .. n) = n
  <2>1. 1 \in Int /\ n \in Int
    BY <1>1
  <2>2. IsFiniteSet(1 .. n) /\ Cardinality(1 .. n) = IF 1 > n THEN 0 ELSE n - 1 + 1
    BY ONLY <2>1, FS_Interval
  <2> QED
    BY <1>1, <2>2
<1>10. rank \in Surjection(F, 1 .. n)
  BY ONLY <1>1, <1>8, <1>9, FS_Injection
<1>11. \A p \in 1 .. n : \E k \in F : rank[k] = p
  BY ONLY <1>10 DEF Surjection
<1> QED
  BY <1>1, <1>4, <1>6, <1>11

\* store.py query: the sort puts every record that fits at a place of its own, by
\* falling score.
LEMMA RankedIsSorted ==
  ASSUME NEW records \in Seq(Record), NEW v \in Vectors
  PROVE  /\ Cardinality(Fitting(records, v)) \in Nat
         /\ \A k \in Fitting(records, v) :
              \E p \in 1 .. Cardinality(Fitting(records, v)) : Ranked(records, v)[p] = records[k]
         /\ \A p, q \in 1 .. Cardinality(Fitting(records, v)) :
              p < q => Score(Ranked(records, v)[p].vector, v) >= Score(Ranked(records, v)[q].vector, v)
         /\ \A p \in 1 .. Cardinality(Fitting(records, v)) :
              \E k \in Fitting(records, v) : Ranked(records, v)[p] = records[k]
<1>1. PICK F : F = Fitting(records, v)
  OBVIOUS
<1>2. F \subseteq 1 .. Len(records) /\ Len(records) \in Nat /\ F \subseteq Nat
  BY <1>1 DEF Fitting
<1>3. IsFiniteSet(F)
  <2>1. \A k \in F : k <= Len(records)
    BY <1>2
  <2> QED
    BY <1>2, <2>1, FS_BoundedSetOfNaturals
<1>4. PICK score \in [F -> Int] : \A k \in F : score[k] = Score(records[k].vector, v)
  <2>1. \A k \in F : records[k] \in Record /\ Len(records[k].vector) = Len(v)
    BY <1>1, <1>2 DEF Fitting
  <2>2. \A k \in F : Score(records[k].vector, v) \in Int
    BY <2>1, ScoreAssumption DEF Record
  <2>3. [k \in F |-> Score(records[k].vector, v)] \in [F -> Int]
    BY <2>2
  <2> QED
    BY <2>3
<1>5. PICK below \in [F -> SUBSET F] :
        below = [k \in F |-> {j \in F : Before(records, v, j, k)}]
  OBVIOUS
<1>6. \A j, k \in F : j \in below[k] <=> score[j] > score[k] \/ (score[j] = score[k] /\ j < k)
  BY <1>4, <1>5 DEF Before
<1>7. /\ \A j \in F : j \notin below[j]
      /\ \A i, j, k \in F : i \in below[j] /\ j \in below[k] => i \in below[k]
      /\ \A j, k \in F : j = k \/ j \in below[k] \/ k \in below[j]
  BY ONLY <1>2, <1>4, <1>6
<1>8. \A j, k \in F : j \in below[k] => below[j] \subseteq below[k]
  BY <1>5, <1>7
<1>9. PICK rank : rank = [k \in F |-> Cardinality(below[k]) + 1]
  OBVIOUS
<1>10. PICK n \in Nat :
         /\ n = Cardinality(F)
         /\ rank \in [F -> 1 .. n]
         /\ \A j, k \in F : j \in below[k] => rank[j] < rank[k]
         /\ \A p \in 1 .. n : \E k \in F : rank[k] = p
  <2>1. below \in [F -> SUBSET F]
    OBVIOUS
  <2>2. \A j \in F : j \notin below[j]
    BY <1>7
  <2>3. \A j, k \in F : j = k \/ j \in below[k] \/ k \in below[j]
    BY <1>7
  <2>4. /\ Cardinality(F) \in Nat
        /\ rank \in [F -> 1 .. Cardinality(F)]
        /\ \A j, k \in F : j \in below[k] => rank[j] < rank[k]
        /\ \A p \in 1 .. Cardinality(F) : \E k \in F : rank[k] = p
    BY ONLY <1>3, <1>8, <1>9, <2>1, <2>2, <2>3, RanksAreThePlaces
  <2> QED
    BY ONLY <2>4
<1>11. \A k \in F : Rank(records, v, k) = rank[k]
  BY <1>1, <1>5, <1>9 DEF Rank
<1>12. PICK at : at = [p \in 1 .. n |-> CHOOSE k \in F : Rank(records, v, k) = p]
  OBVIOUS
<1>13. \A p \in 1 .. n : at[p] \in F /\ rank[at[p]] = p
  BY <1>10, <1>11, <1>12
<1>14. \A p \in 1 .. n : Ranked(records, v)[p] = records[at[p]]
  BY <1>1, <1>10, <1>12 DEF Ranked
<1>15. ASSUME NEW k \in F
       PROVE  \E p \in 1 .. n : Ranked(records, v)[p] = records[k]
  <2>1. PICK p \in 1 .. n : p = rank[k]
    BY <1>10
  <2>2. PICK j \in F : j = at[p] /\ rank[j] = p
    BY <1>13
  <2>3. ~ (rank[j] < rank[k]) /\ ~ (rank[k] < rank[j])
    BY <1>10, <2>1, <2>2
  <2>4. j = k
    BY <1>7, <1>10, <2>3
  <2> QED
    BY <1>14, <2>2, <2>4
<1>16. ASSUME NEW p \in 1 .. n, NEW q \in 1 .. n, p < q
       PROVE  Score(Ranked(records, v)[p].vector, v) >= Score(Ranked(records, v)[q].vector, v)
  <2>1. PICK j \in F, k \in F : j = at[p] /\ k = at[q] /\ rank[j] = p /\ rank[k] = q
    BY <1>13
  <2>2. k \notin below[j]
    BY ONLY <1>10, <1>16, <2>1
  <2>3. score[j] >= score[k]
    BY ONLY <1>4, <1>6, <2>1, <2>2
  <2> QED
    BY <1>4, <1>14, <2>1, <2>3
<1> QED
  BY <1>1, <1>10, <1>13, <1>14, <1>15, <1>16, ZenonT(60)

\* store.py query with any top_k: it returns top_k records, or all that fit, and
\* none it leaves out is more similar than one it returns.
LEMMA QueryFindsTheNearest ==
  ASSUME NEW records \in Seq(Record), NEW latest \in Map, Represents(records, latest),
         NEW v \in Vectors, NEW k \in Nat \ {0},
         NEW found, found = Query(records, v, k)
  PROVE  \A i \in DOMAIN latest :
           Len(latest[i]) = Len(v) /\ (\A r \in Range(found) : r.id # i)
             => Len(found) = k /\ \A r \in Range(found) : Score(r.vector, v) >= Score(latest[i], v)
<1> DEFINE F == Fitting(records, v)
           n == Cardinality(F)
           ranked == Ranked(records, v)
           m == IF k < n THEN k ELSE n
<1>1. /\ n \in Nat
      /\ \A i \in F : \E p \in 1 .. n : ranked[p] = records[i]
      /\ \A p, q \in 1 .. n : p < q => Score(ranked[p].vector, v) >= Score(ranked[q].vector, v)
      /\ \A p \in 1 .. n : \E i \in F : ranked[p] = records[i]
  BY RankedIsSorted
<1>2. F \subseteq 1 .. Len(records) /\ \A i \in F : records[i] \in Record
  BY DEF Fitting
<1>3. DOMAIN ranked = 1 .. n
  BY DEF Ranked
<1>4. \A p \in 1 .. n : ranked[p] \in Record
  BY <1>1, <1>2
<1>5. ranked \in Seq(Record) /\ Len(ranked) = n
  <2>1. ranked = [p \in 1 .. n |-> ranked[p]]
    BY DEF Ranked
  <2> HIDE DEF ranked, n
  <2>2. ranked \in [1 .. n -> Record]
    BY <1>4, <2>1
  <2> QED
    BY <1>1, <1>3, <2>2
<1>6. m \in Nat /\ m <= n /\ (m = k \/ m = n)
  BY <1>1
<1>7. found = SubSeq(ranked, 1, m)
  BY <1>5 DEF Query
<1> HIDE DEF F, n, ranked, m
<1>8. Len(found) = m /\ DOMAIN found = 1 .. m /\ \A p \in 1 .. m : found[p] = ranked[p]
  BY <1>5, <1>6, <1>7
<1>9. Range(found) = {ranked[p] : p \in 1 .. m}
  BY <1>8 DEF Range
<1>10. ASSUME NEW i \in DOMAIN latest, Len(latest[i]) = Len(v), \A r \in Range(found) : r.id # i
       PROVE  \E q \in 1 .. n : q > m /\ ranked[q].vector = latest[i]
  <2>1. i \in DOMAIN latest /\ Len(latest[i]) = Len(v) /\ \A r \in Range(found) : r.id # i
    BY <1>10
  <2>2. PICK j \in 1 .. Len(records) : records[j].id = i /\ latest[i] = records[j].vector
    <3>1. /\ DOMAIN latest = {records[j].id : j \in 1 .. Len(records)}
          /\ \A j \in 1 .. Len(records) : latest[records[j].id] = records[j].vector
      BY ONLY Represents(records, latest) DEF Represents
    <3>2. PICK j \in 1 .. Len(records) : i = records[j].id
      BY ONLY <2>1, <3>1
    <3> QED
      BY ONLY <3>1, <3>2
  <2>3. j \in F
    BY <2>1, <2>2 DEF F, Fitting
  <2>4. PICK q \in 1 .. n : ranked[q] = records[j]
    BY <1>1, <2>3
  <2>5. ~ (q <= m)
    BY <1>1, <1>6, <1>9, <2>1, <2>2, <2>4
  <2> QED
    BY <1>1, <1>6, <2>2, <2>4, <2>5
<1>11. ASSUME NEW i \in DOMAIN latest, Len(latest[i]) = Len(v), \A r \in Range(found) : r.id # i
       PROVE  Len(found) = k /\ \A r \in Range(found) : Score(r.vector, v) >= Score(latest[i], v)
  <2>1. PICK q \in 1 .. n : q > m /\ ranked[q].vector = latest[i]
    BY <1>10, <1>11
  <2>2. Len(found) = k
    BY <1>1, <1>6, <1>8, <2>1
  <2>3. ASSUME NEW r \in Range(found) PROVE Score(r.vector, v) >= Score(latest[i], v)
    <3>1. PICK p \in 1 .. m : r = ranked[p]
      BY <1>9
    <3>2. p \in 1 .. n /\ p < q
      BY <1>1, <1>6, <2>1, <3>1
    <3> QED
      BY <1>1, <2>1, <3>1, <3>2
  <2> QED
    BY <2>2, <2>3
<1> QED
  BY <1>11

-----------------------------------------------------------------------------
(* Every operation of a node leaves its run in order.                       *)

\* A run begins in order.
LEMMA NewRunOK ==
  ASSUME row = [w \in Workflows |-> NoData], NEW w \in Workflows
  PROVE  RunOK(NewRun(w))
<1> DEFINE run == NewRun(w)
<1>1. row[w] = NoData
  OBVIOUS
<1>e. <<>> \in Seq(Nat) /\ <<>> \in Seq(Record) /\ 0 \in Nat
  OBVIOUS
<1>2. /\ NoData.history = <<>> /\ NoData.tail = <<>> /\ NoData.records = <<>> /\ NoData \in Data
  <2>1. NoData.history = <<>> /\ NoData.tail = <<>> /\ NoData.records = <<>>
    BY DEF NoData
  <2>2. NoData \in Data
    BY <1>e DEF NoData, Data
  <2> QED
    BY <2>1, <2>2
<1>3. {row[w].records[k].id : k \in DOMAIN row[w].records} = {}
  BY <1>1, <1>2
<1>4. run.latest \in Map /\ DOMAIN run.latest = {}
  <2>1. DOMAIN run.latest = {}
    BY <1>3 DEF NewRun
  <2>2. run.latest \in [{} -> Vectors]
    BY <1>3 DEF NewRun
  <2> QED
    BY <2>1, <2>2 DEF Map
<1>5. /\ run.static = NoData /\ run.said = <<>> /\ run.least = Unlimited
      /\ run.told = <<>> /\ run.handed = <<>>
  BY <1>1, <1>2 DEF NewRun
<1>6. run \in Run
  <2>1. run = [workflow |-> w, done |-> 0, failed |-> FALSE, static |-> NoData, said |-> <<>>,
               least |-> Unlimited, told |-> <<>>, handed |-> <<>>, latest |-> run.latest]
    BY <1>1, <1>2 DEF NewRun
  <2> HIDE DEF run
  <2>2. Unlimited \in Windows \cup {Unlimited} /\ FALSE \in BOOLEAN /\ NoData \in Data
    BY <1>2
  <2> QED
    <3>1. [workflow |-> w, done |-> 0, failed |-> FALSE, static |-> NoData, said |-> <<>>,
           least |-> Unlimited, told |-> <<>>, handed |-> <<>>, latest |-> run.latest] \in Run
      BY <1>e, <1>4, <2>2 DEF Run
    <3> QED
      BY <2>1, <3>1
<1> HIDE DEF run
<1>7. Recent(run.static.history, run.said, run.least)
  BY <1>2, <1>5 DEF Recent
<1>8. run.handed \o run.static.tail = run.told
  BY <1>2, <1>5
<1>9. Represents(run.static.records, run.latest)
  <2>1. IsFiniteSet({}) /\ Cardinality({}) = 0
    BY FS_EmptySet
  <2>2. Len(<<>>) = 0 /\ 1 .. 0 = {}
    OBVIOUS
  <2> QED
    BY <1>2, <1>4, <1>5, <2>1, <2>2 DEF Represents
<1> QED
  BY <1>6, <1>7, <1>8, <1>9 DEF RunOK, run

\* A run goes on, or fails.
LEMMA OnwardOK ==
  ASSUME NEW run, RunOK(run)
  PROVE  RunOK([run EXCEPT !.done = @ + 1]) /\ RunOK([run EXCEPT !.failed = TRUE])
<1>1. run \in Run
  BY DEF RunOK
<1>2. ASSUME NEW next, next \in Run, next.static = run.static, next.said = run.said,
             next.least = run.least, next.told = run.told, next.handed = run.handed,
             next.latest = run.latest
      PROVE  RunOK(next)
  BY <1>2 DEF RunOK
<1>3. RunOK([run EXCEPT !.done = @ + 1])
  <2>0. run.done + 1 \in Nat
    <3>1. run.done \in Nat
      BY <1>1 DEF Run
    <3> QED
      BY <3>1
  <2>1. [run EXCEPT !.done = @ + 1] \in Run
    BY <1>1, <2>0 DEF Run
  <2> QED
    BY <1>1, <1>2, <2>1 DEF Run
<1>4. RunOK([run EXCEPT !.failed = TRUE])
  <2>1. [run EXCEPT !.failed = TRUE] \in Run
    BY <1>1 DEF Run
  <2> QED
    BY <1>1, <1>2, <2>1 DEF Run
<1> QED
  BY <1>3, <1>4

\* A new history, with what was said and the smallest window.
LEMMA HistoryOK ==
  ASSUME NEW run, RunOK(run), NEW h \in Seq(Nat), NEW s \in Seq(Nat),
         NEW l \in Windows \cup {Unlimited}, Recent(h, s, l)
  PROVE  RunOK([run EXCEPT !.static.history = h, !.said = s, !.least = l])
<1> DEFINE next == [run EXCEPT !.static.history = h, !.said = s, !.least = l]
<1>1. run \in Run
  BY DEF RunOK
<1>2. next \in Run
  BY <1>1 DEF Run, Data
<1>3. /\ next.static.history = h /\ next.said = s /\ next.least = l
      /\ next.handed = run.handed /\ next.told = run.told /\ next.static.tail = run.static.tail
      /\ next.static.records = run.static.records /\ next.latest = run.latest
  BY <1>1 DEF Run, Data
<1> HIDE DEF next
<1>4. RunOK(next)
  BY <1>2, <1>3 DEF RunOK
<1> QED
  BY <1>4 DEF next

\* A new tail of the summary, with what was told and handed out.
LEMMA SummaryOK ==
  ASSUME NEW run, RunOK(run), NEW tail \in Seq(Nat), NEW told \in Seq(Nat),
         NEW handed \in Seq(Nat), NEW summary \in {"", "text"}, handed \o tail = told
  PROVE  /\ RunOK([run EXCEPT !.static.tail = tail, !.told = told, !.handed = handed])
         /\ RunOK([run EXCEPT !.static.tail = tail, !.static.summary = summary, !.told = told,
                              !.handed = handed])
         /\ RunOK([run EXCEPT !.static.summary = summary])
<1>1. run \in Run
  BY DEF RunOK
<1>2. ASSUME NEW next, next \in Run, next.handed \o next.static.tail = next.told,
             next.said = run.said, next.least = run.least,
             next.static.history = run.static.history,
             next.static.records = run.static.records, next.latest = run.latest
      PROVE  RunOK(next)
  BY <1>2 DEF RunOK
<1>3. RunOK([run EXCEPT !.static.tail = tail, !.told = told, !.handed = handed])
  <2> DEFINE next == [run EXCEPT !.static.tail = tail, !.told = told, !.handed = handed]
  <2>1. next \in Run
    BY <1>1 DEF Run, Data
  <2>2. /\ next.static.tail = tail /\ next.told = told /\ next.handed = handed
        /\ next.said = run.said /\ next.least = run.least
        /\ next.static.history = run.static.history
        /\ next.static.records = run.static.records /\ next.latest = run.latest
    BY <1>1 DEF Run, Data
  <2> HIDE DEF next
  <2>3. RunOK(next)
    BY <1>2, <2>1, <2>2
  <2> QED
    BY <2>3 DEF next
<1>4. RunOK([run EXCEPT !.static.tail = tail, !.static.summary = summary, !.told = told,
                        !.handed = handed])
  <2> DEFINE next == [run EXCEPT !.static.tail = tail, !.static.summary = summary, !.told = told,
                                 !.handed = handed]
  <2>1. next \in Run
    BY <1>1 DEF Run, Data
  <2>2. /\ next.static.tail = tail /\ next.told = told /\ next.handed = handed
        /\ next.said = run.said /\ next.least = run.least
        /\ next.static.history = run.static.history
        /\ next.static.records = run.static.records /\ next.latest = run.latest
    BY <1>1 DEF Run, Data
  <2> HIDE DEF next
  <2>3. RunOK(next)
    BY <1>2, <2>1, <2>2
  <2> QED
    BY <2>3 DEF next
<1>5. RunOK([run EXCEPT !.static.summary = summary])
  <2> DEFINE next == [run EXCEPT !.static.summary = summary]
  <2>1. next \in Run
    BY <1>1 DEF Run, Data
  <2>2. /\ next.static.tail = run.static.tail /\ next.told = run.told /\ next.handed = run.handed
        /\ next.said = run.said /\ next.least = run.least
        /\ next.static.history = run.static.history
        /\ next.static.records = run.static.records /\ next.latest = run.latest
    BY <1>1 DEF Run, Data
  <2> HIDE DEF next
  <2>3. next.handed \o next.static.tail = next.told
    BY <2>2 DEF RunOK
  <2>4. RunOK(next)
    BY <1>2, <2>1, <2>2, <2>3
  <2> QED
    BY <2>4 DEF next
<1> QED
  BY <1>3, <1>4, <1>5

\* New records, with the map they stand for.
LEMMA RecordsOK ==
  ASSUME NEW run, RunOK(run), NEW records \in Seq(Record), NEW latest \in Map,
         Represents(records, latest)
  PROVE  RunOK([run EXCEPT !.static.records = records, !.latest = latest])
<1> DEFINE next == [run EXCEPT !.static.records = records, !.latest = latest]
<1>1. run \in Run
  BY DEF RunOK
<1>2. next \in Run
  BY <1>1 DEF Run, Data
<1>3. /\ next.static.history = run.static.history /\ next.said = run.said /\ next.least = run.least
      /\ next.handed = run.handed /\ next.told = run.told /\ next.static.tail = run.static.tail
      /\ next.static.records = records /\ next.latest = latest
  BY <1>1 DEF Run, Data
<1> HIDE DEF next
<1>4. RunOK(next)
  BY <1>2, <1>3 DEF RunOK
<1> QED
  BY <1>4 DEF next

\* A new cursor.
LEMMA CursorOK ==
  ASSUME NEW run, RunOK(run), NEW c \in Nat
  PROVE  RunOK([run EXCEPT !.static.cursor = c])
<1> DEFINE next == [run EXCEPT !.static.cursor = c]
<1>1. run \in Run
  BY DEF RunOK
<1>2. next \in Run
  BY <1>1 DEF Run, Data
<1>3. /\ next.static.history = run.static.history /\ next.said = run.said /\ next.least = run.least
      /\ next.handed = run.handed /\ next.told = run.told /\ next.static.tail = run.static.tail
      /\ next.static.records = run.static.records /\ next.latest = run.latest
  BY <1>1 DEF Run, Data
<1> HIDE DEF next
<1>4. RunOK(next)
  BY <1>2, <1>3 DEF RunOK
<1> QED
  BY <1>4 DEF next

-----------------------------------------------------------------------------
(* Every step keeps the invariant.                                          *)

\* The innermost run is in order.
LEMMA TopIs ==
  ASSUME Inv, stack # <<>>
  PROVE  Len(stack) \in Nat /\ Len(stack) \in 1 .. Len(stack) /\ RunOK(Top) /\ Top \in Run
<1>1. Len(stack) \in Nat /\ Len(stack) # 0
  BY DEF Inv
<1>2. Len(stack) \in 1 .. Len(stack)
  BY <1>1
<1>3. RunOK(Top)
  BY <1>2 DEF Inv, Top
<1> QED
  BY <1>1, <1>2, <1>3 DEF RunOK

\* Replacing the innermost run by one that is in order.
LEMMA ReplaceTop ==
  ASSUME Inv, stack # <<>>, NEW run, RunOK(run), row' = row,
         stack' = [stack EXCEPT ![Len(stack)] = run]
  PROVE  Inv'
<1>1. Len(stack) \in 1 .. Len(stack) /\ stack \in Seq(Run) /\ run \in Run
  BY TopIs DEF Inv, RunOK
<1>2. /\ stack' \in Seq(Run) /\ Len(stack') = Len(stack)
      /\ \A d \in 1 .. Len(stack) : stack'[d] = IF d = Len(stack) THEN run ELSE stack[d]
  BY <1>1, ExceptSeq
<1>3. \A d \in 1 .. Len(stack') : RunOK(stack'[d])
  BY <1>2 DEF Inv
<1> QED
  BY <1>2, <1>3 DEF Inv

\* A node has run and left its run in order.
LEMMA ExecutedOK ==
  ASSUME Inv, stack # <<>>, NEW run, RunOK(run), Executed(run)
  PROVE  Inv'
<1>1. PICK next : next = [run EXCEPT !.done = @ + 1]
  OBVIOUS
<1>2. RunOK(next)
  BY <1>1, OnwardOK
<1>3. stack' = [stack EXCEPT ![Len(stack)] = next] /\ row' = row
  BY <1>1 DEF Executed
<1> QED
  BY <1>2, <1>3, ReplaceTop

\* An exception, with or without continue_on_fail.
LEMMA RaiseOK ==
  ASSUME Inv, stack # <<>>, NEW continue \in BOOLEAN, Raise(continue)
  PROVE  Inv'
<1>1. PICK run : run = Top /\ RunOK(run)
  BY TopIs
<1>2. CASE continue
  <2>1. Executed(run)
    BY <1>1, <1>2 DEF Raise
  <2> QED
    BY <1>1, <2>1, ExecutedOK
<1>3. CASE ~continue
  <2>1. PICK next : next = [run EXCEPT !.failed = TRUE]
    OBVIOUS
  <2>2. RunOK(next)
    BY <1>1, <2>1, OnwardOK
  <2>3. stack' = [stack EXCEPT ![Len(stack)] = next] /\ row' = row
    BY <1>1, <1>3, <2>1 DEF Raise, Top
  <2> QED
    BY <2>2, <2>3, ReplaceTop
<1> QED
  BY <1>2, <1>3

\* A message is a number.
LEMMA MessagesAre ==
  ASSUME Inv, stack # <<>>, NEW n \in 1 .. 2
  PROVE  Messages(n) \in Seq(Nat)
<1>1. PICK d : d = Top.done /\ d \in Nat
  BY TopIs DEF Run
<1>2. \A k \in 1 .. n : d * 10 + k \in Nat
  BY <1>1
<1>3. Messages(n) = [k \in 1 .. n |-> d * 10 + k]
  BY <1>1 DEF Messages
<1> QED
  BY <1>2, <1>3

\* memory_buffer and memory_window append: the history stays the end of what was said.
LEMMA AppendHistoryOK ==
  ASSUME Inv, NEW n \in 1 .. 2, NEW window \in Windows \cup {Unlimited},
         AppendHistory(n, window)
  PROVE  Inv'
<1>1. stack # <<>>
  BY DEF AppendHistory, AtNode
<1>2. PICK run : run = Top /\ RunOK(run) /\ run \in Run
  BY <1>1, TopIs
<1>3. PICK m : m = Messages(n) /\ m \in Seq(Nat)
  BY <1>1, MessagesAre
<1>4. /\ run.static.history \in Seq(Nat) /\ run.said \in Seq(Nat)
      /\ run.least \in Windows \cup {Unlimited}
  BY <1>2 DEF Run, Data
<1>5. PICK h : h = LastOf(run.static.history \o m, window)
  OBVIOUS
<1>6. PICK s : s = run.said \o m
  OBVIOUS
<1>7. PICK l : l = Smaller(run.least, window)
  OBVIOUS
<1>8. Recent(run.static.history, run.said, run.least)
  BY <1>2 DEF RunOK
<1>9. /\ h \in Seq(Nat) /\ s \in Seq(Nat) /\ l \in Windows \cup {Unlimited}
      /\ Recent(h, s, l)
  BY <1>3, <1>4, <1>5, <1>6, <1>7, <1>8, WindowKeepsTheEnd
<1>10. PICK next : next = [run EXCEPT !.static.history = h, !.said = s, !.least = l]
  OBVIOUS
<1>11. RunOK(next)
  BY <1>2, <1>9, <1>10, HistoryOK
<1>12. Executed(next)
  BY <1>2, <1>3, <1>5, <1>6, <1>7, <1>10 DEF AppendHistory
<1> QED
  BY <1>1, <1>11, <1>12, ExecutedOK

\* The history is cleared, and with it what counts as said.
LEMMA ClearHistoryOK ==
  ASSUME Inv, ClearHistory
  PROVE  Inv'
<1>1. stack # <<>>
  BY DEF ClearHistory, AtNode
<1>2. PICK run : run = Top /\ RunOK(run)
  BY <1>1, TopIs
<1>3. <<>> \in Seq(Nat) /\ Unlimited \in Windows \cup {Unlimited}
  OBVIOUS
<1>4. Recent(<<>>, <<>>, Unlimited)
  BY DEF Recent
<1>5. PICK next : next = [run EXCEPT !.static.history = <<>>, !.said = <<>>, !.least = Unlimited]
  OBVIOUS
<1>6. RunOK(next)
  BY <1>2, <1>3, <1>4, <1>5, HistoryOK
<1>7. Executed(next)
  BY <1>2, <1>5 DEF ClearHistory
<1> QED
  BY <1>1, <1>6, <1>7, ExecutedOK

\* memory_summary appends: what is cut off goes to the workflow, the rest stays.
LEMMA AppendSummaryOK ==
  ASSUME Inv, NEW n \in 1 .. 2, NEW cap \in Windows, AppendSummary(n, cap)
  PROVE  Inv'
<1>1. stack # <<>>
  BY DEF AppendSummary, AtNode
<1>2. PICK run : run = Top /\ RunOK(run) /\ run \in Run
  BY <1>1, TopIs
<1>3. PICK m : m = Messages(n) /\ m \in Seq(Nat)
  BY <1>1, MessagesAre
<1>4. /\ run.static.tail \in Seq(Nat) /\ run.told \in Seq(Nat) /\ run.handed \in Seq(Nat)
      /\ cap \in Nat
  BY <1>2, SizeAssumption DEF Run, Data
<1>5. PICK c : c = run.static.tail \o m
  OBVIOUS
<1>6. PICK tail : tail = SubSeq(c, Cut(c, cap) + 1, Len(c))
  OBVIOUS
<1>o. PICK out : out = SubSeq(c, 1, Cut(c, cap))
  OBVIOUS
<1>7. PICK handed : handed = run.handed \o out
  OBVIOUS
<1>8. PICK told : told = run.told \o m
  OBVIOUS
<1>9. run.handed \o run.static.tail = run.told
  BY <1>2 DEF RunOK
<1>10. /\ tail \in Seq(Nat) /\ handed \in Seq(Nat) /\ told \in Seq(Nat)
       /\ handed \o tail = told
  <2>1. PICK old : old = run.handed /\ old \in Seq(Nat)
    BY <1>4
  <2>2. PICK t : t = run.static.tail /\ t \in Seq(Nat)
    BY <1>4
  <2>3. c \in Seq(Nat)
    BY <1>3, <1>4, <1>5
  <2>4. out \in Seq(Nat) /\ tail \in Seq(Nat) /\ out \o tail = c
    BY <1>4, <1>6, <1>o, <2>3, CutLosesNothing
  <2>5. handed \in Seq(Nat) /\ told \in Seq(Nat)
    BY <1>3, <1>4, <1>7, <1>8, <2>4
  <2>6. (old \o out) \o tail = old \o (out \o tail)
    BY <2>1, <2>4, Associative
  <2>7. (old \o t) \o m = old \o (t \o m)
    BY <1>3, <2>1, <2>2, Associative
  <2> QED
    BY <1>5, <1>7, <1>8, <1>9, <2>1, <2>2, <2>4, <2>5, <2>6, <2>7
<1>11. PICK next : next = [run EXCEPT !.static.tail = tail, !.told = told, !.handed = handed]
  OBVIOUS
<1>12. RunOK(next)
  BY <1>2, <1>10, <1>11, SummaryOK
<1>13. Executed(next)
  BY <1>2, <1>3, <1>5, <1>6, <1>o, <1>7, <1>8, <1>11 DEF AppendSummary
<1> QED
  BY <1>1, <1>12, <1>13, ExecutedOK

\* The text of the summary is replaced, or the summary cleared.
LEMMA OtherSummaryOK ==
  ASSUME Inv, ReplaceSummary \/ ClearSummary
  PROVE  Inv'
<1>1. stack # <<>>
  BY DEF ReplaceSummary, ClearSummary, AtNode
<1>2. PICK run : run = Top /\ RunOK(run)
  BY <1>1, TopIs
<1>3. <<>> \in Seq(Nat) /\ <<>> \o <<>> = <<>>
  OBVIOUS
<1>4. CASE ReplaceSummary
  <2>1. PICK next : next = [run EXCEPT !.static.summary = "text"]
    OBVIOUS
  <2>2. RunOK(next)
    BY <1>2, <1>3, <2>1, SummaryOK
  <2>3. Executed(next)
    BY <1>2, <1>4, <2>1 DEF ReplaceSummary
  <2> QED
    BY <1>1, <2>2, <2>3, ExecutedOK
<1>5. CASE ClearSummary
  <2>1. PICK next : next = [run EXCEPT !.static.tail = <<>>, !.static.summary = "", !.told = <<>>,
                                       !.handed = <<>>]
    OBVIOUS
  <2>2. RunOK(next)
    BY <1>2, <1>3, <2>1, SummaryOK
  <2>3. Executed(next)
    BY <1>2, <1>5, <2>1 DEF ClearSummary
  <2> QED
    BY <1>1, <2>2, <2>3, ExecutedOK
<1> QED
  BY <1>4, <1>5

\* vector_memory writes a record: the map has its vector.
LEMMA UpsertOK ==
  ASSUME Inv, NEW i \in Ids, NEW v \in Vectors, Upsert(i, v)
  PROVE  Inv'
<1>1. stack # <<>>
  BY DEF Upsert, AtNode
<1>2. PICK run : run = Top /\ RunOK(run) /\ run \in Run
  BY <1>1, TopIs
<1>3. PICK old : old = run.static.records /\ old \in Seq(Record)
  BY <1>2 DEF Run, Data
<1>4. PICK map : map = run.latest /\ map \in Map
  BY <1>2 DEF Run
<1>5. Represents(old, map)
  BY <1>2, <1>3, <1>4 DEF RunOK
<1>6. PICK records : records = IF Places(old, i) = {} THEN Append(old, [id |-> i, vector |-> v])
                               ELSE [old EXCEPT ![First(Places(old, i))] = [id |-> i, vector |-> v]]
  OBVIOUS
<1>7. PICK latest : latest = With(map, i, v)
  OBVIOUS
<1>8. records \in Seq(Record) /\ latest \in Map /\ Represents(records, latest)
  BY <1>3, <1>4, <1>5, <1>6, <1>7, UpsertRepresents
<1>9. PICK next : next = [run EXCEPT !.static.records = records, !.latest = latest]
  OBVIOUS
<1>10. RunOK(next)
  BY <1>2, <1>8, <1>9, RecordsOK
<1>11. Executed(next)
  BY <1>2, <1>3, <1>4, <1>6, <1>7, <1>9 DEF Upsert
<1> QED
  BY <1>1, <1>10, <1>11, ExecutedOK

\* vector_memory deletes a record: the map loses the id.
LEMMA DeleteOK ==
  ASSUME Inv, NEW i \in Ids, Delete(i)
  PROVE  Inv'
<1>1. stack # <<>>
  BY DEF Delete, AtNode
<1>2. PICK run : run = Top /\ RunOK(run) /\ run \in Run
  BY <1>1, TopIs
<1>3. PICK old : old = run.static.records /\ old \in Seq(Record)
  BY <1>2 DEF Run, Data
<1>4. PICK map : map = run.latest /\ map \in Map
  BY <1>2 DEF Run
<1>5. Represents(old, map)
  BY <1>2, <1>3, <1>4 DEF RunOK
<1>6. PICK records : records = IF Places(old, i) = {} THEN old
                               ELSE RemoveAt(old, First(Places(old, i)))
  OBVIOUS
<1>7. PICK latest : latest = Without(map, i)
  OBVIOUS
<1>8. records \in Seq(Record) /\ latest \in Map /\ Represents(records, latest)
  BY <1>3, <1>4, <1>5, <1>6, <1>7, DeleteRepresents
<1>9. PICK next : next = [run EXCEPT !.static.records = records, !.latest = latest]
  OBVIOUS
<1>10. RunOK(next)
  BY <1>2, <1>8, <1>9, RecordsOK
<1>11. Executed(next)
  BY <1>2, <1>3, <1>4, <1>6, <1>7, <1>9 DEF Delete
<1> QED
  BY <1>1, <1>10, <1>11, ExecutedOK

\* The records are cleared: they stand for the empty map.
LEMMA ClearVectorsOK ==
  ASSUME Inv, ClearVectors
  PROVE  Inv'
<1>1. stack # <<>>
  BY DEF ClearVectors, AtNode
<1>2. PICK run : run = Top /\ RunOK(run)
  BY <1>1, TopIs
<1>3. <<>> \in Seq(Record) /\ Len(<<>>) = 0 /\ DOMAIN <<>> = {} /\ 1 .. 0 = {}
  OBVIOUS
<1>4. <<>> \in Map
  <2>1. <<>> \in [{} -> Vectors]
    OBVIOUS
  <2> QED
    BY <2>1 DEF Map
<1>5. Represents(<<>>, <<>>)
  BY <1>3, FS_EmptySet DEF Represents
<1>6. PICK next : next = [run EXCEPT !.static.records = <<>>, !.latest = <<>>]
  OBVIOUS
<1>7. RunOK(next)
  BY <1>2, <1>3, <1>4, <1>5, <1>6, RecordsOK
<1>8. Executed(next)
  BY <1>2, <1>6 DEF ClearVectors
<1> QED
  BY <1>1, <1>7, <1>8, ExecutedOK

\* split_in_batches moves its cursor, which stays a number.
LEMMA SplitInBatchesOK ==
  ASSUME Inv, NEW items \in Nat, NEW reset \in BOOLEAN, SplitInBatches(items, reset)
  PROVE  Inv'
<1>1. stack # <<>>
  BY DEF SplitInBatches, AtNode
<1>2. PICK run : run = Top /\ RunOK(run) /\ run \in Run
  BY <1>1, TopIs
<1>3. PICK old : old = IF reset THEN 0 ELSE run.static.cursor
  OBVIOUS
<1>4. old \in Nat
  BY <1>2, <1>3 DEF Run, Data
<1>5. PICK c : c = IF old >= items THEN 0 ELSE old + BatchSize
  OBVIOUS
<1>6. c \in Nat
  BY <1>4, <1>5, SizeAssumption
<1>7. PICK next : next = [run EXCEPT !.static.cursor = c]
  OBVIOUS
<1>8. RunOK(next)
  BY <1>2, <1>6, <1>7, CursorOK
<1>9. Executed(next)
  BY <1>2, <1>3, <1>5, <1>7 DEF SplitInBatches
<1> QED
  BY <1>1, <1>8, <1>9, ExecutedOK

\* A run begins, as the outermost one or called by the innermost one.
LEMMA BeginOK ==
  ASSUME Inv, NEW w \in Workflows, StartRun(w) \/ Call(w)
  PROVE  Inv'
<1>1. PICK run : run = NewRun(w) /\ RunOK(run) /\ run \in Run
  <2>1. RunOK(NewRun(w))
    BY NewRunOK DEF Inv
  <2> QED
    BY <2>1 DEF RunOK
<1>2. row' = row /\ stack' = Append(stack, run)
  <2>1. CASE StartRun(w)
    BY <1>1, <2>1 DEF StartRun
  <2>2. CASE Call(w)
    BY <1>1, <2>2 DEF Call
  <2> QED
    BY <2>1, <2>2
<1>3. stack \in Seq(Run) /\ Len(stack) \in Nat
  BY DEF Inv
<1>4. /\ stack' \in Seq(Run) /\ Len(stack') = Len(stack) + 1 /\ stack'[Len(stack) + 1] = run
      /\ \A d \in 1 .. Len(stack) : stack'[d] = stack[d]
  BY <1>1, <1>2, <1>3, AppendProperties
<1>5. \A d \in 1 .. Len(stack') : d \in 1 .. Len(stack) \/ d = Len(stack) + 1
  BY <1>3, <1>4
<1>6. \A d \in 1 .. Len(stack') : RunOK(stack'[d])
  BY <1>1, <1>4, <1>5 DEF Inv
<1> QED
  BY <1>2, <1>4, <1>6 DEF Inv

\* The outermost run ends.
LEMMA EndRunOK ==
  ASSUME Inv, EndRun
  PROVE  Inv'
<1>1. row' = row /\ stack' = <<>>
  BY DEF EndRun
<1>2. stack' \in Seq(Run) /\ Len(stack') = 0 /\ 1 .. 0 = {}
  BY <1>1
<1> QED
  BY <1>1, <1>2 DEF Inv

\* A child returns to its caller.
LEMMA ReturnToCallerOK ==
  ASSUME Inv, ReturnToCaller
  PROVE  Inv'
<1> DEFINE n == Len(stack) - 1
<1>1. stack \in Seq(Run) /\ Len(stack) \in Nat /\ Len(stack) > 1
  BY DEF Inv, ReturnToCaller
<1>2. n \in Nat /\ n \in 1 .. n /\ \A d \in 1 .. n : d \in 1 .. Len(stack)
  BY <1>1
<1>3. PICK front : front = Front(stack)
  OBVIOUS
<1>4. front \in Seq(Run) /\ Len(front) = n /\ \A d \in 1 .. n : front[d] = stack[d]
  <2>1. front = SubSeq(stack, 1, n)
    BY <1>3 DEF Front
  <2>2. 1 \in Int /\ n \in Int /\ 1 <= n /\ n - 1 + 1 = n
    BY <1>2
  <2>3. \A d \in 1 .. n : stack[d] \in Run
    BY <1>1, <1>2, ElementOfSeq
  <2>4. \A d \in 1 .. n : 1 + d - 1 = d
    BY <1>2
  <2> HIDE DEF n
  <2> QED
    BY <2>1, <2>2, <2>3, <2>4, SubSeqProperties
<1>5. PICK next : next = [front[n] EXCEPT !.done = @ + 1]
  OBVIOUS
<1>6. RunOK(next) /\ next \in Run
  <2>1. RunOK(front[n])
    BY <1>2, <1>4 DEF Inv
  <2>2. RunOK(next)
    BY <1>5, <2>1, OnwardOK
  <2> QED
    BY <2>2 DEF RunOK
<1>7. stack' = [front EXCEPT ![n] = next] /\ row' = row
  BY <1>3, <1>5 DEF ReturnToCaller
<1> HIDE DEF n
<1>8. /\ stack' \in Seq(Run) /\ Len(stack') = n
      /\ \A d \in 1 .. n : stack'[d] = IF d = n THEN next ELSE front[d]
  BY <1>2, <1>4, <1>6, <1>7, ExceptSeq
<1>9. \A d \in 1 .. Len(stack') : RunOK(stack'[d])
  BY <1>2, <1>4, <1>6, <1>8 DEF Inv
<1> QED
  BY <1>7, <1>8, <1>9 DEF Inv

\* In every reachable state every run in progress is in order.
LEMMA InvHolds == Spec => []Inv
<1>1. Init => Inv
  <2>1. <<>> \in Seq(Run) /\ Len(<<>>) = 0 /\ 1 .. 0 = {}
    OBVIOUS
  <2> QED
    BY <2>1 DEF Init, Inv
<1>2. Inv /\ [Next]_vars => Inv'
  <2> SUFFICES ASSUME Inv, [Next]_vars PROVE Inv'
    OBVIOUS
  <2>1. ASSUME NEW kind \in Kinds, ReadOnly(kind) PROVE Inv'
    <3>1. stack # <<>> /\ Executed(Top)
      BY <2>1 DEF ReadOnly, AtNode
    <3>2. PICK run : run = Top /\ RunOK(run)
      BY <3>1, TopIs
    <3>3. Executed(run)
      BY <3>1, <3>2
    <3> QED
      BY <3>1, <3>2, <3>3, ExecutedOK
  <2>2. ASSUME NEW kind \in Kinds, NEW continue \in BOOLEAN, NodeRaises(kind, continue)
        PROVE  Inv'
    BY <2>2, RaiseOK DEF NodeRaises, AtNode
  <2>3. ASSUME NEW target, NEW continue \in BOOLEAN, CallRaises(target, continue)
        PROVE  Inv'
    BY <2>3, RaiseOK DEF CallRaises, AtNode
  <2>4. \A items \in 0 .. (BatchSize + 1) : items \in Nat
    BY SizeAssumption
  <2>5. CASE UNCHANGED vars
    BY <2>5 DEF Inv, vars
  <2>6. CASE RunStep
    BY <2>1, <2>2, <2>3, <2>4, <2>6, AppendHistoryOK, ClearHistoryOK, AppendSummaryOK,
       OtherSummaryOK, UpsertOK, DeleteOK, ClearVectorsOK, SplitInBatchesOK, BeginOK, EndRunOK,
       ReturnToCallerOK DEF RunStep
  <2> QED
    BY <2>5, <2>6, BeginOK DEF Next
<1> QED
  BY <1>1, <1>2, PTL DEF Spec

-----------------------------------------------------------------------------
(* The results.                                                             *)

\* memory_buffer and memory_window on one history, in any mix, at any depth of
\* calls and with windows of any size: what a run finds there is the latest
\* messages of this run, without a gap, as many as the smallest window has room for.
THEOREM HistoryIsAlwaysTheLatest == Spec => []HistoryIsTheLatest
<1>1. Inv => HistoryIsTheLatest
  <2> SUFFICES ASSUME Inv, NEW run \in Runs
               PROVE  LET kept == Len(run.static.history)
                      IN  /\ IsSuffix(run.static.history, run.said)
                          /\ run.least = Unlimited => kept = Len(run.said)
                          /\ run.least # Unlimited => kept >= run.least \/ kept = Len(run.said)
    BY DEF HistoryIsTheLatest
  <2>1. RunOK(run)
    BY DEF Inv, Runs
  <2>2. run.static.history \in Seq(Nat) /\ run.said \in Seq(Nat)
    BY <2>1 DEF RunOK, Run, Data
  <2>3. Recent(run.static.history, run.said, run.least)
    BY <2>1 DEF RunOK
  <2>4. IsSuffix(run.static.history, run.said)
    BY <2>2, <2>3, AgreesAtTheEnd DEF Recent
  <2> QED
    BY <2>3, <2>4 DEF Recent
<1> QED
  BY <1>1, InvHolds, PTL

\* memory_summary with any caps: no message is lost or handed out twice.
THEOREM NothingEverEscapesTheSummary == Spec => []NothingEscapesTheSummary
<1>1. Inv => NothingEscapesTheSummary
  <2> SUFFICES ASSUME Inv, NEW run \in Runs
               PROVE  run.handed \o run.static.tail = run.told
    BY DEF NothingEscapesTheSummary
  <2>1. RunOK(run)
    BY DEF Inv, Runs
  <2> QED
    BY <2>1 DEF RunOK
<1> QED
  BY <1>1, InvHolds, PTL

\* vector_memory: after any upserts, deletes and clears, of any ids and vectors and
\* with any metric, the list holds one record for every id that is in the map,
\* with its latest vector, and no other; and a query with any top_k returns the
\* nearest of them.
THEOREM VectorStoreIsAlwaysAMap == Spec => []VectorStoreIsAMap
<1>1. Inv => VectorStoreIsAMap
  <2> SUFFICES ASSUME Inv, NEW run \in Runs
               PROVE  RecordsAreTheLatest(run) /\ QueriesFindTheNearest(run)
    BY DEF VectorStoreIsAMap
  <2>1. RunOK(run)
    BY DEF Inv, Runs
  <2>2. PICK records : records = run.static.records /\ records \in Seq(Record)
    BY <2>1 DEF RunOK, Run, Data
  <2>3. PICK latest : latest = run.latest /\ latest \in Map
    BY <2>1 DEF RunOK, Run
  <2>4. Represents(records, latest)
    BY <2>1, <2>2, <2>3 DEF RunOK
  <2>5. ASSUME NEW i \in DOMAIN latest
        PROVE  \E r \in Range(records) : r.id = i /\ r.vector = latest[i]
    <3>1. PICK k \in 1 .. Len(records) : i = records[k].id /\ latest[records[k].id] = records[k].vector
      BY <2>4 DEF Represents
    <3>2. records[k] \in Range(records)
      BY <2>2 DEF Range
    <3> QED
      BY <3>1, <3>2
  <2>6. Len(records) = Cardinality(DOMAIN latest)
    BY <2>4 DEF Represents
  <2>7. RecordsAreTheLatest(run)
    BY <2>2, <2>3, <2>5, <2>6 DEF RecordsAreTheLatest
  <2>8. QueriesFindTheNearest(run)
    <3> SUFFICES ASSUME NEW v \in Vectors, NEW k \in 1 .. (Len(run.static.records) + 1)
                 PROVE  LET found == Query(run.static.records, v, k)
                            fitting == {i \in DOMAIN run.latest : Len(run.latest[i]) = Len(v)}
                            missed == fitting \ {r.id : r \in Range(found)}
                        IN  /\ Len(found) = k \/ missed = {}
                            /\ \A r \in Range(found), i \in missed :
                                 Score(r.vector, v) >= Score(run.latest[i], v)
      BY DEF QueriesFindTheNearest
    <3>1. k \in Nat \ {0}
      BY <2>2
    <3>2. PICK found : found = Query(records, v, k)
      OBVIOUS
    <3>3. \A i \in DOMAIN latest :
             Len(latest[i]) = Len(v) /\ (\A r \in Range(found) : r.id # i)
               => Len(found) = k /\ \A r \in Range(found) : Score(r.vector, v) >= Score(latest[i], v)
      BY ONLY v \in Vectors, <2>2, <2>3, <2>4, <3>1, <3>2, QueryFindsTheNearest
    <3>4. PICK missed : missed = {i \in DOMAIN latest : Len(latest[i]) = Len(v)}
                                   \ {r.id : r \in Range(found)}
      OBVIOUS
    <3>5. /\ Len(found) = k \/ missed = {}
          /\ \A r \in Range(found), i \in missed : Score(r.vector, v) >= Score(latest[i], v)
      BY <3>3, <3>4
    <3> QED
      BY <2>2, <2>3, <3>2, <3>4, <3>5
  <2> QED
    BY <2>7, <2>8
<1> QED
  BY <1>1, InvHolds, PTL
=============================================================================
