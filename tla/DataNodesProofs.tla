--------------------------- MODULE DataNodesProofs ---------------------------
(***************************************************************************)
(* What merge, switch, compare_datasets, set, transform, rename_keys and   *)
(* text_splitter compute, for every input: any keys, payloads, cases and   *)
(* relation between values, any fields, any sizes of chunk, overlap and    *)
(* pieces, and any bounds on how long the input gets.  Each proof is that  *)
(* of a loop: the invariant says what the loop has computed of what it has *)
(* read.                                                                   *)
(***************************************************************************)
EXTENDS DataNodes, WellFoundedInduction, TLAPS

-----------------------------------------------------------------------------
(* Lists that grow at their end.                                            *)

\* What append does to a list.
LEMMA AppendIs ==
  ASSUME NEW S, NEW s \in Seq(S), NEW x \in S, NEW t, t = Append(s, x)
  PROVE  /\ t \in Seq(S) /\ Len(t) = Len(s) + 1 /\ DOMAIN t = 1 .. Len(s) + 1
         /\ Len(s) \in Nat /\ DOMAIN s = 1 .. Len(s)
         /\ t[Len(s) + 1] = x /\ \A i \in 1 .. Len(s) : t[i] = s[i] /\ i \in DOMAIN t
OBVIOUS

\* A larger place at the end of increasing places.
LEMMA AppendLarger ==
  ASSUME NEW s \in Seq(Nat), NEW x \in Nat, Increasing(s), \A y \in Range(s) : y < x,
         NEW t, t = Append(s, x)
  PROVE  t \in Seq(Nat) /\ Increasing(t) /\ Range(t) = Range(s) \cup {x}
<1>1. t \in Seq(Nat)
  OBVIOUS
<1>2. /\ DOMAIN t = 1 .. Len(s) + 1 /\ Len(s) \in Nat /\ DOMAIN s = 1 .. Len(s)
      /\ t[Len(s) + 1] = x /\ \A i \in 1 .. Len(s) : t[i] = s[i] /\ s[i] \in Nat
  OBVIOUS
<1>3. \A i \in 1 .. Len(s) : s[i] < x
  BY <1>2 DEF Range
<1>4. Increasing(t)
  BY <1>2, <1>3 DEF Increasing
<1>5. \A i \in DOMAIN t : t[i] \in Range(s) \cup {x}
  <2> TAKE i \in DOMAIN t
  <2>1. i = Len(s) + 1 \/ i \in 1 .. Len(s)
    BY <1>2
  <2> QED
    BY <1>2, <2>1 DEF Range
<1>6. Len(s) + 1 \in DOMAIN t /\ \A i \in DOMAIN s : i \in DOMAIN t
  BY <1>2
<1>7. Range(t) = Range(s) \cup {x}
  BY <1>2, <1>5, <1>6 DEF Range
<1> QED
  BY <1>1, <1>4, <1>7

\* A new key at the end of distinct ones.
LEMMA AppendNew ==
  ASSUME NEW s \in Seq(Keys), NEW x \in Keys, IsInjective(s), x \notin Range(s),
         NEW t, t = Append(s, x)
  PROVE  t \in Seq(Keys) /\ IsInjective(t) /\ Range(t) = Range(s) \cup {x}
<1>1. /\ DOMAIN t = 1 .. Len(s) + 1 /\ Len(s) \in Nat /\ DOMAIN s = 1 .. Len(s)
      /\ t[Len(s) + 1] = x /\ \A i \in 1 .. Len(s) : t[i] = s[i]
      /\ t \in Seq(Keys)
  BY AppendIs
<1>2. \A i \in 1 .. Len(s) : s[i] # x
  BY <1>1 DEF Range
<1>3. IsInjective(t)
  BY <1>1, <1>2 DEF IsInjective
<1>4. \A i \in DOMAIN t : t[i] \in Range(s) \cup {x}
  <2> TAKE i \in DOMAIN t
  <2>1. i = Len(s) + 1 \/ i \in 1 .. Len(s)
    BY <1>1
  <2> QED
    BY <1>1, <2>1 DEF Range
<1>5. Len(s) + 1 \in DOMAIN t /\ \A i \in DOMAIN s : i \in DOMAIN t
  BY <1>1
<1>6. Range(t) = Range(s) \cup {x}
  BY <1>1, <1>4, <1>5 DEF Range
<1> QED
  BY <1>1, <1>3, <1>6

\* A non-empty set of places has a first one.
LEMMA FirstPlace ==
  ASSUME NEW I \in SUBSET Nat, I # {}
  PROVE  \E i \in I : \A j \in I : i <= j
<1>1. PICK i \in I : \A j \in I : <<j, i>> \notin OpToRel(<, Nat)
  BY NatLessThanWellFounded, WFMin
<1>2. \A j \in I : ~ (j < i)
  BY <1>1 DEF OpToRel
<1> QED
  BY <1>2

-----------------------------------------------------------------------------
(* merge.                                                                   *)

\* The index lists the places of every key in order, and the merged items are
\* those of the left items read so far.
MergeInv ==
  /\ left \in Seq(Keys) /\ right \in Seq(Keys)
  /\ index \in [Keys -> Seq(Nat)]
  /\ \A k \in Keys : /\ Increasing(index[k])
                     /\ Range(index[k]) = {j \in 1 .. Len(right) : right[j] = k}
  /\ out \in Seq(Nat \X Nat)
  /\ Range(out) = {p \in (1 .. Len(left)) \X (1 .. Len(right)) : left[p[1]] = right[p[2]]}
  /\ \A m, n \in 1 .. Len(out) : m < n => Before(out[m], out[n])

\* _combine_by_key: a right item goes to the end of the list of its key.
LEMMA IndexRightOK ==
  ASSUME MergeInv, NEW key \in Keys, IndexRight(key)
  PROVE  MergeInv'
<1>1. /\ left = <<>> /\ left' = left /\ out' = out
      /\ right' = Append(right, key)
      /\ index' = [index EXCEPT ![key] = Append(index[key], Len(right) + 1)]
  BY DEF IndexRight
<1>2. PICK n \in Nat : n = Len(right)
  BY DEF MergeInv
<1>3. /\ right' \in Seq(Keys) /\ Len(right') = n + 1 /\ right'[n + 1] = key
      /\ \A i \in 1 .. n : right'[i] = right[i]
  BY <1>1, <1>2, AppendIs DEF MergeInv
<1>4. PICK places \in Seq(Nat) :
        /\ places = index[key] /\ Increasing(places)
        /\ Range(places) = {j \in 1 .. n : right[j] = key}
  BY <1>2 DEF MergeInv
<1>5. PICK longer : longer = Append(places, n + 1)
  OBVIOUS
<1>6. longer \in Seq(Nat) /\ Increasing(longer) /\ Range(longer) = Range(places) \cup {n + 1}
  <2>1. PICK x \in Nat : x = n + 1
    OBVIOUS
  <2>2. (\A y \in Range(places) : y < x) /\ longer = Append(places, x)
    BY <1>4, <1>5, <2>1
  <2>3. Increasing(places)
    BY <1>4
  <2>4. longer \in Seq(Nat) /\ Increasing(longer) /\ Range(longer) = Range(places) \cup {x}
    BY ONLY x \in Nat, places \in Seq(Nat), <2>2, <2>3, AppendLarger
  <2> QED
    BY <2>1, <2>4
<1>8. index' = [index EXCEPT ![key] = longer]
  BY <1>1, <1>2, <1>4, <1>5
<1>9. index' \in [Keys -> Seq(Nat)]
  BY <1>6, <1>8 DEF MergeInv
<1>10. ASSUME NEW k \in Keys
       PROVE  Increasing(index'[k]) /\ Range(index'[k]) = {j \in 1 .. n + 1 : right'[j] = k}
  <2>1. CASE k = key
    <3>1. {j \in 1 .. n + 1 : right'[j] = key} = {j \in 1 .. n : right[j] = key} \cup {n + 1}
      BY <1>3
    <3>2. index'[k] = longer
      BY <1>8, <2>1 DEF MergeInv
    <3> QED
      BY <1>4, <1>6, <2>1, <3>1, <3>2
  <2>2. CASE k # key
    <3>1. {j \in 1 .. n + 1 : right'[j] = k} = {j \in 1 .. n : right[j] = k}
      BY <1>3, <2>2
    <3>2. index'[k] = index[k]
      BY <1>8, <2>2 DEF MergeInv
    <3>3. Increasing(index[k]) /\ Range(index[k]) = {j \in 1 .. n : right[j] = k}
      BY <1>2 DEF MergeInv
    <3> QED
      BY <3>1, <3>2, <3>3
  <2> QED
    BY <2>1, <2>2
<1>11. Range(out) = {} /\ Len(left) = 0
  BY <1>1 DEF MergeInv
<1>12. {p \in (1 .. Len(left')) \X (1 .. Len(right')) : left'[p[1]] = right'[p[2]]} = {}
  BY <1>1, <1>11
<1>13. /\ left' \in Seq(Keys) /\ out' \in Seq(Nat \X Nat) /\ Range(out') = {}
       /\ \A i, j \in 1 .. Len(out') : i < j => Before(out'[i], out'[j])
  BY <1>1, <1>11 DEF MergeInv
<1>14. \A k \in Keys : /\ Increasing(index[k])'
                       /\ Range(index[k])' = {j \in 1 .. Len(right') : right'[j] = k}
  BY <1>3, <1>10 DEF Increasing, Range
<1> QED
  BY <1>3, <1>9, <1>12, <1>13, <1>14 DEF MergeInv, Before, Range

\* _combine_by_key: a left item is merged with the right items of its key, in order.
LEMMA JoinLeftOK ==
  ASSUME MergeInv, NEW key \in Keys, JoinLeft(key)
  PROVE  MergeInv'
<1>a. PICK n \in Nat, places \in Seq(Nat) : n = Len(left) /\ places = index[key]
  <2>1. Len(left) \in Nat /\ index[key] \in Seq(Nat)
    BY DEF MergeInv
  <2> QED
    BY <2>1
<1>0. PICK made : /\ n = Len(left) /\ places = index[key]
                  /\ made = [m \in DOMAIN places |-> <<n + 1, places[m]>>]
  BY <1>a
<1>1. /\ n = Len(left) /\ places = index[key]
      /\ made = [m \in DOMAIN places |-> <<n + 1, places[m]>>]
      /\ left' = Append(left, key) /\ out' = out \o made
      /\ right' = right /\ index' = index
  BY <1>0 DEF JoinLeft
<1>2. /\ left' \in Seq(Keys) /\ Len(left') = n + 1 /\ left'[n + 1] = key
      /\ \A i \in 1 .. n : left'[i] = left[i]
  BY <1>1, AppendIs DEF MergeInv
<1>3. /\ Increasing(places) /\ DOMAIN places = 1 .. Len(places) /\ Len(places) \in Nat
      /\ Range(places) = {j \in 1 .. Len(right) : right[j] = key}
  BY <1>1 DEF MergeInv
<1>4. /\ made \in Seq(Nat \X Nat) /\ Len(made) = Len(places)
      /\ \A m \in 1 .. Len(places) : made[m] = <<n + 1, places[m]>>
  BY <1>1, <1>3, SMTT(30)
<1>5. PICK a \in Nat, b \in Nat : a = Len(out) /\ b = Len(places) /\ DOMAIN out = 1 .. a
  <2>1. out \in Seq(Nat \X Nat)
    BY DEF MergeInv
  <2>2. Len(out) \in Nat /\ DOMAIN out = 1 .. Len(out)
    BY <2>1
  <2> QED
    BY <1>3, <2>2
<1>6. /\ out' \in Seq(Nat \X Nat) /\ Len(out') = a + b
      /\ \A m \in 1 .. a : out'[m] = out[m]
      /\ \A m \in 1 .. b : out'[a + m] = <<n + 1, places[m]>>
  BY <1>1, <1>4, <1>5 DEF MergeInv
<1>7. \A m \in 1 .. a + b : m \in 1 .. a \/ m - a \in 1 .. b
  BY <1>5
<1>8. \A m \in 1 .. a : out[m] \in Range(out)
  BY <1>5 DEF Range
<1>r. PICK new \in Seq(Nat \X Nat) :
        /\ new = out' /\ DOMAIN new = 1 .. a + b
        /\ \A m \in 1 .. a : new[m] = out[m]
        /\ \A m \in 1 .. b : new[a + m] = <<n + 1, places[m]>>
  <2>1. DOMAIN out' = 1 .. a + b
    BY <1>6
  <2> QED
    BY <1>6, <2>1
<1>9. \A p \in Range(out) : p[1] \in 1 .. n /\ p[2] \in 1 .. Len(right) /\ left[p[1]] = right[p[2]]
                            /\ p = <<p[1], p[2]>>
  BY <1>1 DEF MergeInv
<1>10. ASSUME NEW i \in 1 .. a + b, NEW j \in 1 .. a + b, i < j
       PROVE  Before(out'[i], out'[j])
  <2>1. CASE j \in 1 .. a
    <3>1. i \in 1 .. a
      BY <1>10, <2>1
    <3>2. Before(out[i], out[j])
      BY <1>5, <1>10, <2>1, <3>1 DEF MergeInv
    <3> QED
      BY <1>6, <2>1, <3>1, <3>2
  <2>2. CASE i \in 1 .. a /\ j - a \in 1 .. b
    <3>1. out'[i] = out[i] /\ out[i][1] \in 1 .. n
      BY <1>6, <1>8, <1>9, <2>2
    <3>2. out'[j] = <<n + 1, places[j - a]>>
      <4>1. PICK m \in 1 .. b : m = j - a /\ a + m = j
        BY <2>2
      <4> QED
        BY <1>6, <4>1
    <3> QED
      BY <3>1, <3>2, SMTT(30) DEF Before
  <2>3. CASE i - a \in 1 .. b /\ j - a \in 1 .. b
    <3>1. PICK l \in 1 .. b, m \in 1 .. b : l = i - a /\ m = j - a /\ a + l = i /\ a + m = j /\ l < m
      BY <1>10, <2>3
    <3>2. places[l] < places[m]
      BY <1>3, <1>5, <3>1 DEF Increasing
    <3>3. out'[i] = <<n + 1, places[l]>> /\ out'[j] = <<n + 1, places[m]>>
      BY <1>6, <3>1
    <3> QED
      BY <3>2, <3>3 DEF Before
  <2> QED
    BY <1>5, <1>7, <1>10, <2>1, <2>2, <2>3
<1>11. ASSUME NEW p \in Range(out')
       PROVE  p \in (1 .. n + 1) \X (1 .. Len(right)) /\ left'[p[1]] = right[p[2]]
  <2>1. PICK i \in 1 .. a + b : p = out'[i]
    BY <1>6 DEF Range
  <2>2. CASE i \in 1 .. a
    <3>1. p = out[i] /\ p \in Range(out)
      BY <1>6, <1>8, <2>1, <2>2
    <3>2. p = <<p[1], p[2]>> /\ p[1] \in 1 .. n /\ p[2] \in 1 .. Len(right) /\ left[p[1]] = right[p[2]]
      BY <1>9, <3>1
    <3> QED
      BY <1>2, <3>2
  <2>3. CASE i - a \in 1 .. b
    <3>1. PICK m \in 1 .. b : a + m = i
      BY <2>3
    <3>2. p = <<n + 1, places[m]>>
      BY <1>6, <2>1, <3>1
    <3>3. places[m] \in Range(places)
      BY <1>3, <1>5 DEF Range
    <3>4. places[m] \in 1 .. Len(right) /\ right[places[m]] = key
      BY <1>3, <3>3
    <3> QED
      BY <1>2, <3>2, <3>4
  <2> QED
    BY <1>7, <2>2, <2>3
<1>12. ASSUME NEW i \in 1 .. n + 1, NEW j \in 1 .. Len(right), left'[i] = right[j]
       PROVE  <<i, j>> \in Range(out')
  <2>1. CASE i \in 1 .. n
    <3>1. <<i, j>> \in Range(out)
      <4>1. left[i] = right[j]
        BY <1>2, <1>12, <2>1
      <4>2. <<i, j>>[1] = i /\ <<i, j>>[2] = j /\ <<i, j>> \in (1 .. Len(left)) \X (1 .. Len(right))
        BY <1>1, <2>1
      <4> QED
        BY <4>1, <4>2 DEF MergeInv
    <3>2. PICK m \in 1 .. a : out[m] = <<i, j>>
      BY <1>5, <3>1 DEF Range
    <3>3. m \in 1 .. a + b /\ new[m] = <<i, j>>
      <4>1. m \in 1 .. a + b
        OBVIOUS
      <4>2. new[m] = out[m]
        BY <1>r
      <4> QED
        BY <3>2, <4>1, <4>2
    <3>4. <<i, j>> \in Range(new)
      BY <1>r, <3>3 DEF Range
    <3> QED
      BY <1>r, <3>4
  <2>2. CASE i = n + 1
    <3>1. j \in Range(places)
      BY <1>2, <1>3, <1>12, <2>2
    <3>2. PICK m \in 1 .. b : places[m] = j
      BY <1>3, <1>5, <3>1 DEF Range
    <3>3. a + m \in 1 .. a + b /\ new[a + m] = <<i, j>>
      <4>1. a + m \in 1 .. a + b
        OBVIOUS
      <4>2. new[a + m] = <<n + 1, places[m]>>
        BY <1>r
      <4> QED
        BY <2>2, <3>2, <4>1, <4>2
    <3>4. <<i, j>> \in Range(new)
      BY <1>r, <3>3 DEF Range
    <3> QED
      BY <1>r, <3>4
  <2> QED
    BY <2>1, <2>2
<1>13. Range(out') = {p \in (1 .. n + 1) \X (1 .. Len(right)) : left'[p[1]] = right[p[2]]}
  BY <1>11, <1>12
<1>14. /\ Range(out)' = {p \in (1 .. Len(left')) \X (1 .. Len(right')) : left'[p[1]] = right'[p[2]]}
       /\ \A i, j \in 1 .. Len(out') : i < j => Before(out[i], out[j])'
  <2>1. Range(out)' = Range(out') /\ \A i, j : Before(out[i], out[j])' = Before(out'[i], out'[j])
    BY DEF Range, Before
  <2> QED
    BY <1>1, <1>2, <1>6, <1>10, <1>13, <2>1
<1>15. /\ right' \in Seq(Keys) /\ index' \in [Keys -> Seq(Nat)]
       /\ \A k \in Keys : /\ Increasing(index'[k])
                          /\ Range(index'[k]) = {j \in 1 .. Len(right') : right'[j] = k}
  BY <1>1 DEF MergeInv
<1> QED
  BY <1>2, <1>6, <1>14, <1>15 DEF MergeInv, Increasing, Range, Before

\* By position as many items are paired as both inputs have.
LEMMA PairsByPosition ==
  ASSUME NEW l \in Seq(Keys), NEW r \in Seq(Keys)
  PROVE  Range(CombineByPosition(l, r)) = {<<i, i>> : i \in DOMAIN l \cap DOMAIN r}
<1>1. PICK n : n = IF Len(l) < Len(r) THEN Len(l) ELSE Len(r)
  OBVIOUS
<1>2. DOMAIN l \cap DOMAIN r = 1 .. n
  BY <1>1
<1>3. CombineByPosition(l, r) = [i \in 1 .. n |-> <<i, i>>]
  BY <1>1 DEF CombineByPosition
<1> QED
  BY <1>2, <1>3 DEF Range

\* The invariant of merge says what is wanted of it.
LEMMA MergeInvSuffices ==
  ASSUME MergeInv
  PROVE  JoinsMatchTheKeys
<1>1. left \in Seq(Keys) /\ right \in Seq(Keys) /\ out \in Seq(Nat \X Nat)
  BY DEF MergeInv
<1>2. DOMAIN left = 1 .. Len(left) /\ DOMAIN right = 1 .. Len(right) /\ DOMAIN out = 1 .. Len(out)
  BY <1>1
<1>3. Range(CombineByPosition(left, right)) = {<<i, i>> : i \in DOMAIN left \cap DOMAIN right}
  BY <1>1, PairsByPosition
<1>4. Range(out) = {p \in (DOMAIN left) \X (DOMAIN right) : left[p[1]] = right[p[2]]}
  BY <1>2 DEF MergeInv
<1>5. {p \in Range(out) : left[p[1]] # NoKey}
        = {p \in (DOMAIN left) \X (DOMAIN right) : left[p[1]] = right[p[2]] /\ left[p[1]] # NoKey}
  BY <1>4
<1> QED
  BY <1>2, <1>3, <1>5 DEF MergeInv, JoinsMatchTheKeys

-----------------------------------------------------------------------------
(* switch.                                                                  *)

SwitchInv ==
  /\ cases \in Seq(Cases) /\ fallback \in Ports
  /\ routed \in Seq(FieldValues) /\ buckets \in [Ports -> Seq(Nat)]
  /\ \A p \in Ports : /\ Increasing(buckets[p])
                      /\ Range(buckets[p]) = {i \in 1 .. Len(routed) : BelongsTo(routed[i], p)}

\* The loop over the cases finds the one port the item belongs to.
LEMMA TargetIs ==
  ASSUME SwitchInv, NEW value \in FieldValues, KnownPorts(value)
  PROVE  Target(value) \in Ports /\ \A p \in Ports : BelongsTo(value, p) <=> p = Target(value)
<1>1. DOMAIN cases \in SUBSET Nat /\ fallback \in Ports
  BY DEF SwitchInv
<1>2. CASE Matching(value) = {}
  <2>1. \A c \in DOMAIN cases : ~ ValuesMatch(value, cases[c].value)
    BY <1>2 DEF Matching
  <2>2. Target(value) = fallback
    BY <1>2 DEF Target
  <2> QED
    BY <1>1, <2>1, <2>2 DEF BelongsTo, FirstMatch
<1>3. CASE Matching(value) # {}
  <2>1. PICK M : M = Matching(value) /\ M \in SUBSET Nat /\ M # {} /\ M \subseteq DOMAIN cases
    BY <1>1, <1>3 DEF Matching
  <2>2. PICK c : c = CHOOSE d \in M : \A b \in M : d <= b
    OBVIOUS
  <2>3. c \in M /\ \A b \in M : c <= b
    BY <2>1, <2>2, FirstPlace
  <2>4. Target(value) = cases[c].port
    BY <1>3, <2>1, <2>2 DEF Target
  <2>5. c \in Nat /\ \A b \in 1 .. (c - 1) : b \notin M
    BY <2>1, <2>3
  <2>6. cases[c].port \in Ports
    BY <2>1, <2>3, <2>5 DEF KnownPorts, Reached
  <2>7. \A d \in DOMAIN cases : d \in M <=> ValuesMatch(value, cases[d].value)
    BY <2>1 DEF Matching
  <2>8. DOMAIN cases = 1 .. Len(cases) /\ Len(cases) \in Nat
    BY DEF SwitchInv
  <2>9. \A b \in 1 .. (c - 1) : b \in DOMAIN cases
    BY <2>1, <2>3, <2>8
  <2>10. FirstMatch(value, c)
    BY <2>1, <2>3, <2>5, <2>7, <2>9 DEF FirstMatch
  <2>11. ASSUME NEW d \in DOMAIN cases, FirstMatch(value, d) PROVE d = c
    <3>1. d \in M /\ \A b \in 1 .. (d - 1) : b \notin M
      <4>1. \A b \in 1 .. (d - 1) : b \in DOMAIN cases
        BY <2>8
      <4> QED
        BY <2>7, <2>11, <4>1 DEF FirstMatch
    <3>2. c <= d /\ c \in 1 .. Len(cases) /\ d \in Nat
      BY <1>1, <2>1, <2>3, <2>8, <3>1
    <3> QED
      BY <2>3, <3>1, <3>2
  <2>12. ~ \A d \in DOMAIN cases : ~ ValuesMatch(value, cases[d].value)
    BY <2>1, <2>3, <2>7
  <2> QED
    BY <2>1, <2>3, <2>4, <2>6, <2>10, <2>11, <2>12 DEF BelongsTo
<1> QED
  BY <1>2, <1>3

\* An item goes to the end of the bucket it belongs to.
LEMMA RouteItemOK ==
  ASSUME SwitchInv, NEW value \in FieldValues, RouteItem(value)
  PROVE  SwitchInv'
<1>1. PICK target \in Ports :
        target = Target(value) /\ \A p \in Ports : BelongsTo(value, p) <=> p = target
  BY TargetIs DEF RouteItem
<1>2. PICK n \in Nat, places \in Seq(Nat) : n = Len(routed) /\ places = buckets[target]
  <2>1. Len(routed) \in Nat /\ buckets[target] \in Seq(Nat)
    BY DEF SwitchInv
  <2> QED
    BY <2>1
<1>a. PICK x \in Nat : x = n + 1
  OBVIOUS
<1>3. PICK longer : x = n + 1 /\ longer = Append(places, x)
  BY <1>a
<1>4. /\ cases' = cases /\ fallback' = fallback
      /\ routed' = Append(routed, value)
      /\ buckets' = [buckets EXCEPT ![target] = longer]
  BY <1>1, <1>2, <1>3 DEF RouteItem
<1>5. /\ routed' \in Seq(FieldValues) /\ Len(routed') = n + 1 /\ routed'[n + 1] = value
      /\ \A i \in 1 .. n : routed'[i] = routed[i]
  BY <1>2, <1>4, AppendIs DEF SwitchInv
<1>6. Increasing(places) /\ Range(places) = {i \in 1 .. n : BelongsTo(routed[i], target)}
  BY <1>2 DEF SwitchInv
<1>7. longer \in Seq(Nat) /\ Increasing(longer) /\ Range(longer) = Range(places) \cup {x}
  <2>1. \A y \in Range(places) : y < x
    BY <1>3, <1>6
  <2> QED
    BY ONLY x \in Nat, places \in Seq(Nat), <1>3, <1>6, <2>1, AppendLarger
<1>8. buckets' \in [Ports -> Seq(Nat)]
  BY <1>4, <1>7 DEF SwitchInv
<1>9. \A p, i : BelongsTo(routed[i], p)' <=> BelongsTo(routed'[i], p)
  BY <1>4 DEF BelongsTo, FirstMatch
<1>10. ASSUME NEW p \in Ports
       PROVE  /\ Increasing(buckets'[p])
              /\ Range(buckets'[p]) = {i \in 1 .. n + 1 : BelongsTo(routed'[i], p)}
  <2>1. \A i \in 1 .. n : BelongsTo(routed'[i], p) <=> BelongsTo(routed[i], p)
    BY <1>5
  <2>2. BelongsTo(routed'[n + 1], p) <=> p = target
    BY <1>1, <1>5
  <2>3. CASE p = target
    <3>1. {i \in 1 .. n + 1 : BelongsTo(routed'[i], p)} = {i \in 1 .. n : BelongsTo(routed[i], p)} \cup {n + 1}
      BY <2>1, <2>2, <2>3
    <3>2. buckets'[p] = longer
      BY <1>4, <2>3 DEF SwitchInv
    <3> QED
      BY <1>3, <1>6, <1>7, <2>3, <3>1, <3>2
  <2>4. CASE p # target
    <3>1. {i \in 1 .. n + 1 : BelongsTo(routed'[i], p)} = {i \in 1 .. n : BelongsTo(routed[i], p)}
      BY <2>1, <2>2, <2>4
    <3>2. buckets'[p] = buckets[p]
      BY <1>4, <2>4 DEF SwitchInv
    <3>3. Increasing(buckets[p]) /\ Range(buckets[p]) = {i \in 1 .. n : BelongsTo(routed[i], p)}
      BY <1>2 DEF SwitchInv
    <3> QED
      BY <3>1, <3>2, <3>3
  <2> QED
    BY <2>3, <2>4
<1>11. \A p \in Ports : /\ Increasing(buckets[p])'
                        /\ Range(buckets[p])' = {i \in 1 .. Len(routed') : BelongsTo(routed[i], p)'}
  BY <1>5, <1>9, <1>10 DEF Increasing, Range
<1>12. cases' \in Seq(Cases) /\ fallback' \in Ports
  BY <1>4 DEF SwitchInv
<1> QED
  BY <1>5, <1>8, <1>11, <1>12 DEF SwitchInv

\* The invariant of switch says what is wanted of it.
LEMMA SwitchInvSuffices ==
  ASSUME SwitchInv
  PROVE  SwitchedRightly
<1>1. DOMAIN routed = 1 .. Len(routed)
  BY DEF SwitchInv
<1> QED
  BY <1>1 DEF SwitchInv, SwitchedRightly

-----------------------------------------------------------------------------
(* compare_datasets.                                                        *)

\* The last item of a key has this payload.
LastWith(items, k, value) ==
  \E i \in DOMAIN items :
    /\ items[i].key = k /\ items[i].payload = value
    /\ \A j \in (i + 1) .. Len(items) : items[j].key # k
SameLast(k) == \E v \in Payloads : LastWith(input_a, k, v) /\ LastWith(input_b, k, v)

\* A dict made of the items: each key once, holding its last item.
DictOf(items, dict) ==
  /\ items \in Seq(Items)
  /\ dict.order \in Seq(Keys) /\ IsInjective(dict.order)
  /\ Range(dict.order) = KeysOf(items) /\ DOMAIN dict.held = KeysOf(items)
  /\ \A k \in KeysOf(items) : LastWith(items, k, dict.held[k])

CompareInv ==
  /\ DictOf(input_a, left_index) /\ DictOf(input_b, right_index)
  /\ seen_a \in 0 .. Len(left_index.order) /\ seen_b \in 0 .. Len(right_index.order)
  /\ ports \in [ComparePorts -> Seq(Keys)]
  /\ \A p \in ComparePorts : IsInjective(ports[p])
  /\ \A p \in {"a_only", "same", "diff"}, k \in Keys :
       k \in Range(ports[p]) <=> PortOf(k) = p /\ \E i \in 1 .. seen_a : left_index.order[i] = k
  /\ \A k \in Keys :
       k \in Range(ports["b_only"])
         <=> ~ Has(left_index, k) /\ \E i \in 1 .. seen_b : right_index.order[i] = k

\* There is one last item of a key.
LEMMA LastIsUnique ==
  ASSUME NEW items \in Seq(Items), NEW k, NEW v, NEW w, LastWith(items, k, v), LastWith(items, k, w)
  PROVE  v = w
<1>1. PICK i \in 1 .. Len(items) : /\ items[i].key = k /\ items[i].payload = v
                                   /\ \A j \in (i + 1) .. Len(items) : items[j].key # k
  BY DEF LastWith
<1>2. PICK l \in 1 .. Len(items) : /\ items[l].key = k /\ items[l].payload = w
                                   /\ \A j \in (l + 1) .. Len(items) : items[j].key # k
  BY DEF LastWith
<1>3. Len(items) \in Nat
  OBVIOUS
<1>4. ~ (i < l) /\ ~ (l < i)
  BY <1>1, <1>2, <1>3
<1>5. i = l
  BY <1>3, <1>4
<1> QED
  BY <1>1, <1>2, <1>5

\* The dict comprehension: one more item.
LEMMA InsertOK ==
  ASSUME NEW items, NEW dict, DictOf(items, dict), NEW item \in Items,
         NEW longer, longer = Append(items, item), NEW new, new = Insert(dict, item)
  PROVE  DictOf(longer, new)
<1>1. PICK k \in Keys, v \in Payloads : k = item.key /\ v = item.payload
  BY DEF Items
<1>2. PICK n \in Nat : n = Len(items) /\ DOMAIN items = 1 .. n
  BY DEF DictOf
<1>3. /\ longer \in Seq(Items) /\ Len(longer) = n + 1 /\ DOMAIN longer = 1 .. n + 1
      /\ longer[n + 1] = item /\ \A i \in 1 .. n : longer[i] = items[i]
  BY <1>2, AppendIs DEF DictOf
<1>4. KeysOf(longer) = KeysOf(items) \cup {k}
  <2>1. \A i \in 1 .. n + 1 : i = n + 1 \/ i \in 1 .. n
    BY <1>2
  <2>2. n + 1 \in 1 .. n + 1 /\ \A i \in 1 .. n : i \in 1 .. n + 1
    BY <1>2
  <2> QED
    BY <1>1, <1>2, <1>3, <2>1, <2>2 DEF KeysOf
<1>5. /\ new.order = IF k \in DOMAIN dict.held THEN dict.order ELSE Append(dict.order, k)
      /\ DOMAIN new.held = DOMAIN dict.held \cup {k}
      /\ new.held[k] = v
      /\ \A j \in DOMAIN dict.held : j # k => new.held[j] = dict.held[j]
  BY <1>1 DEF Insert, Has
<1>6. /\ dict.order \in Seq(Keys) /\ IsInjective(dict.order)
      /\ Range(dict.order) = KeysOf(items) /\ DOMAIN dict.held = KeysOf(items)
  BY DEF DictOf
<1>7. new.order \in Seq(Keys) /\ IsInjective(new.order) /\ Range(new.order) = KeysOf(longer)
  <2>1. CASE k \in KeysOf(items)
    BY <1>4, <1>5, <1>6, <2>1
  <2>2. CASE k \notin KeysOf(items)
    <3>1. PICK o \in Seq(Keys) : o = dict.order /\ IsInjective(o) /\ k \notin Range(o)
      BY <1>6, <2>2
    <3>2. PICK t : t = Append(o, k)
      OBVIOUS
    <3>3. t \in Seq(Keys) /\ IsInjective(t) /\ Range(t) = Range(o) \cup {k}
      BY <3>1, <3>2, AppendNew
    <3>4. new.order = t
      BY <1>5, <1>6, <2>2, <3>1, <3>2
    <3> QED
      BY <1>4, <1>6, <3>1, <3>3, <3>4
  <2> QED
    BY <2>1, <2>2
<1>8. ASSUME NEW j \in KeysOf(longer) PROVE LastWith(longer, j, new.held[j])
  <2>1. CASE j = k
    <3>1. n + 1 \in DOMAIN longer /\ \A i \in (n + 1 + 1) .. Len(longer) : FALSE
      BY <1>2, <1>3
    <3>2. longer[n + 1].key = j /\ longer[n + 1].payload = new.held[j]
      BY <1>1, <1>3, <1>5, <2>1
    <3> QED
      BY <3>1, <3>2 DEF LastWith
  <2>2. CASE j # k
    <3>1. j \in KeysOf(items) /\ new.held[j] = dict.held[j]
      BY <1>4, <1>5, <1>6, <2>2
    <3>2. LastWith(items, j, dict.held[j])
      BY <3>1 DEF DictOf
    <3>3. PICK i \in 1 .. n : /\ items[i].key = j /\ items[i].payload = dict.held[j]
                              /\ \A l \in (i + 1) .. n : items[l].key # j
      BY <1>2, <3>2 DEF LastWith
    <3>4. \A l \in (i + 1) .. Len(longer) : longer[l].key # j
      <4> TAKE l \in (i + 1) .. Len(longer)
      <4>1. l = n + 1 \/ (l \in (i + 1) .. n /\ l \in 1 .. n)
        BY <1>3
      <4> QED
        BY <1>1, <1>3, <2>2, <3>3, <4>1
    <3>5. i \in DOMAIN longer /\ longer[i].key = j /\ longer[i].payload = new.held[j]
      BY <1>3, <3>1, <3>3
    <3> QED
      BY <3>4, <3>5 DEF LastWith
  <2> QED
    BY <2>1, <2>2
<1> QED
  BY <1>3, <1>4, <1>5, <1>6, <1>7, <1>8 DEF DictOf

\* The dict of no items.
LEMMA EmptyDict ==
  ASSUME NEW items, NEW dict, DictOf(items, dict), items = <<>>
  PROVE  Len(dict.order) = 0
<1>1. KeysOf(items) = {}
  BY DEF KeysOf
<1>2. PICK o \in Seq(Keys) : o = dict.order /\ Range(o) = {}
  BY <1>1 DEF DictOf
<1>3. ~ (1 \in DOMAIN o)
  BY <1>2 DEF Range
<1> QED
  BY <1>2, <1>3

\* The dicts are filled before any key is looked at.
LEMMA ReadOK ==
  ASSUME CompareInv, NEW item \in Items, ReadA(item) \/ ReadB(item)
  PROVE  CompareInv'
<1>1. /\ seen_a = 0 /\ seen_b = 0
      /\ seen_a' = 0 /\ seen_b' = 0 /\ ports' = ports
  <2>1. CASE ReadA(item)
    <3>1. input_b = <<>> /\ seen_a = 0 /\ UNCHANGED <<seen_a, seen_b, ports>>
      BY <2>1 DEF ReadA
    <3>2. Len(right_index.order) = 0
      BY <3>1, EmptyDict DEF CompareInv
    <3>3. seen_b = 0
      BY <3>2 DEF CompareInv
    <3> QED
      BY <3>1, <3>3
  <2>2. CASE ReadB(item)
    BY <2>2 DEF ReadB
  <2> QED
    BY <2>1, <2>2
<1>2. DictOf(input_a', left_index') /\ DictOf(input_b', right_index')
  <2>0. DictOf(input_a, left_index) /\ DictOf(input_b, right_index)
    BY DEF CompareInv
  <2>1. CASE ReadA(item)
    <3>1. /\ input_a' = Append(input_a, item) /\ left_index' = Insert(left_index, item)
          /\ input_b' = input_b /\ right_index' = right_index
      BY <2>1 DEF ReadA
    <3> QED
      BY <2>0, <3>1, InsertOK
  <2>2. CASE ReadB(item)
    <3>1. /\ input_b' = Append(input_b, item) /\ right_index' = Insert(right_index, item)
          /\ input_a' = input_a /\ left_index' = left_index
      BY <2>2 DEF ReadB
    <3> QED
      BY <2>0, <3>1, InsertOK
  <2> QED
    BY <2>1, <2>2
<1>3. DictOf(input_a, left_index)' /\ DictOf(input_b, right_index)'
  BY <1>2 DEF DictOf, KeysOf, LastWith, IsInjective, Range
<1>4. Len(left_index'.order) \in Nat /\ Len(right_index'.order) \in Nat
  BY <1>2 DEF DictOf
<1>5. seen_a' \in 0 .. Len(left_index'.order) /\ seen_b' \in 0 .. Len(right_index'.order)
  BY <1>1, <1>4
<1>6. \A p \in ComparePorts, k \in Keys : k \notin Range(ports[p])
  BY <1>1 DEF CompareInv, ComparePorts
<1>7. \A p \in ComparePorts, k \in Keys : k \notin Range(ports[p])'
  BY <1>1, <1>6 DEF Range
<1>8. ports' \in [ComparePorts -> Seq(Keys)] /\ \A p \in ComparePorts : IsInjective(ports[p])'
  BY <1>1 DEF CompareInv, IsInjective
<1>9. (\A i \in 1 .. seen_a' : FALSE) /\ (\A i \in 1 .. seen_b' : FALSE)
  BY <1>1
<1>10. "b_only" \in ComparePorts /\ {"a_only", "same", "diff"} \subseteq ComparePorts
  BY DEF ComparePorts
<1> QED
  BY <1>3, <1>5, <1>7, <1>8, <1>9, <1>10 DEF CompareInv

\* A key of the left dict is new on every port, and goes to the one it belongs to.
LEMMA CompareKeyOK ==
  ASSUME CompareInv, CompareKey
  PROVE  CompareInv'
<1>1. PICK o \in Seq(Keys), n \in Nat :
        o = left_index.order /\ n = seen_a /\ IsInjective(o) /\ n + 1 \in 1 .. Len(o)
  <2>1. left_index.order \in Seq(Keys) /\ IsInjective(left_index.order)
    BY DEF CompareInv, DictOf
  <2>2. seen_a \in Nat /\ seen_a < Len(left_index.order) /\ Len(left_index.order) \in Nat
    BY <2>1 DEF CompareInv, CompareKey
  <2>3. seen_a + 1 \in 1 .. Len(left_index.order)
    BY <2>2
  <2> QED
    BY <2>1, <2>2, <2>3
<1>2. PICK key \in Keys : key = o[n + 1]
  BY <1>1
<1>3. PICK port \in {"a_only", "same", "diff"} : port = PortOf(key)
  BY DEF PortOf
<1>a. PICK list \in Seq(Keys) : list = ports[port] /\ IsInjective(list)
  BY DEF CompareInv, ComparePorts
<1>4. PICK longer : list = ports[port] /\ longer = Append(list, key) /\ IsInjective(list)
  BY <1>a
<1>5. /\ ports' = [ports EXCEPT ![port] = longer] /\ seen_a' = n + 1
      /\ UNCHANGED <<input_a, input_b, left_index, right_index, seen_b>>
  <2>1. /\ ports' = [ports EXCEPT ![PortOf(o[n + 1])] = Append(@, o[n + 1])] /\ seen_a' = n + 1
        /\ UNCHANGED <<input_a, input_b, left_index, right_index, seen_b>>
    BY <1>1 DEF CompareKey
  <2> QED
    BY <1>2, <1>3, <1>4, <2>1
<1>6. key \notin Range(list)
  <2>1. \A i \in 1 .. n : o[i] # key
    <3>1. \A i \in 1 .. n : i \in DOMAIN o /\ n + 1 \in DOMAIN o /\ i # n + 1
      BY <1>1
    <3> QED
      BY <1>1, <1>2, <3>1 DEF IsInjective
  <2> QED
    BY <1>1, <1>4, <2>1 DEF CompareInv
<1>7. longer \in Seq(Keys) /\ IsInjective(longer) /\ Range(longer) = Range(list) \cup {key}
  BY <1>4, <1>6, AppendNew
<1>8. ports \in [ComparePorts -> Seq(Keys)] /\ port \in ComparePorts /\ port # "b_only"
  BY DEF CompareInv, ComparePorts
<1>9. /\ ports' \in [ComparePorts -> Seq(Keys)]
      /\ ports'[port] = longer /\ \A p \in ComparePorts : p # port => ports'[p] = ports[p]
  BY <1>5, <1>7, <1>8
<1>10. \A p \in ComparePorts : IsInjective(ports'[p])
  BY <1>7, <1>9 DEF CompareInv
<1>11. ASSUME NEW p \in {"a_only", "same", "diff"}, NEW k \in Keys
       PROVE  k \in Range(ports'[p]) <=> PortOf(k) = p /\ \E i \in 1 .. n + 1 : o[i] = k
  <2>1. k \in Range(ports[p]) <=> PortOf(k) = p /\ \E i \in 1 .. n : o[i] = k
    BY <1>1 DEF CompareInv
  <2>2. (\E i \in 1 .. n + 1 : o[i] = k) <=> k = key \/ \E i \in 1 .. n : o[i] = k
    <3>1. \A i : i \in 1 .. n + 1 <=> i = n + 1 \/ i \in 1 .. n
      BY <1>1
    <3> QED
      BY <1>2, <3>1
  <2>3. p \in ComparePorts
    BY DEF ComparePorts
  <2>4. CASE p = port
    BY <1>3, <1>4, <1>7, <1>9, <2>1, <2>2, <2>4
  <2>5. CASE p # port
    BY <1>3, <1>9, <2>1, <2>2, <2>3, <2>5
  <2> QED
    BY <2>4, <2>5
<1>12. ports'["b_only"] = ports["b_only"]
  BY <1>8, <1>9 DEF ComparePorts
<1>13. /\ DictOf(input_a, left_index)' /\ DictOf(input_b, right_index)'
       /\ \A k : (PortOf(k)' = PortOf(k)) /\ (Has(left_index, k)' <=> Has(left_index, k))
  <2>1. DictOf(input_a, left_index) /\ DictOf(input_b, right_index)
    BY DEF CompareInv
  <2>2. DictOf(input_a', left_index') /\ DictOf(input_b', right_index')
    BY <1>5, <2>1
  <2>3. DictOf(input_a, left_index)' /\ DictOf(input_b, right_index)'
    BY <2>2 DEF DictOf, KeysOf, LastWith, IsInjective, Range
  <2> QED
    BY <1>5, <2>3 DEF PortOf, Has
<1>14. /\ seen_a' \in 0 .. Len(left_index'.order) /\ seen_b' \in 0 .. Len(right_index'.order)
  BY <1>1, <1>5 DEF CompareInv
<1>15. \A p \in ComparePorts : Range(ports[p])' = Range(ports'[p]) /\ (IsInjective(ports[p])' <=> IsInjective(ports'[p]))
  BY DEF Range, IsInjective
<1>16. \A p \in {"a_only", "same", "diff"}, k \in Keys :
         k \in Range(ports[p])' <=> PortOf(k)' = p /\ \E i \in 1 .. seen_a' : left_index'.order[i] = k
  <2>1. \A p \in {"a_only", "same", "diff"} : p \in ComparePorts
    BY DEF ComparePorts
  <2> QED
    BY <1>1, <1>5, <1>11, <1>13, <1>15, <2>1
<1>17. \A k \in Keys :
         k \in Range(ports["b_only"])'
           <=> ~ Has(left_index, k)' /\ \E i \in 1 .. seen_b' : right_index'.order[i] = k
  <2>1. "b_only" \in ComparePorts
    BY DEF ComparePorts
  <2>2. Range(ports["b_only"])' = Range(ports["b_only"])
    BY <1>12, <1>15, <2>1
  <2>3. \A k \in Keys :
          k \in Range(ports["b_only"])
            <=> ~ Has(left_index, k) /\ \E i \in 1 .. seen_b : right_index.order[i] = k
    BY DEF CompareInv
  <2> QED
    BY <1>5, <1>13, <2>2, <2>3
<1> QED
  BY <1>9, <1>10, <1>13, <1>14, <1>15, <1>16, <1>17 DEF CompareInv

\* A key of the right dict that the left one has not is collected once.
LEMMA CollectBOK ==
  ASSUME CompareInv, CollectB
  PROVE  CompareInv'
<1>1. PICK o \in Seq(Keys), n \in Nat :
        o = right_index.order /\ n = seen_b /\ IsInjective(o) /\ n + 1 \in 1 .. Len(o)
  <2>1. right_index.order \in Seq(Keys) /\ IsInjective(right_index.order)
    BY DEF CompareInv, DictOf
  <2>2. seen_b \in Nat /\ seen_b < Len(right_index.order) /\ Len(right_index.order) \in Nat
    BY <2>1 DEF CompareInv, CollectB
  <2>3. seen_b + 1 \in 1 .. Len(right_index.order)
    BY <2>2
  <2> QED
    BY <2>1, <2>2, <2>3
<1>2. PICK key \in Keys : key = o[n + 1]
  BY <1>1
<1>a. PICK list \in Seq(Keys) : list = ports["b_only"] /\ IsInjective(list)
  BY DEF CompareInv, ComparePorts
<1>4. PICK longer : list = ports["b_only"] /\ longer = Append(list, key) /\ IsInjective(list)
  BY <1>a
<1>5. /\ ports' = IF Has(left_index, key) THEN ports ELSE [ports EXCEPT !["b_only"] = longer]
      /\ seen_b' = n + 1
      /\ UNCHANGED <<input_a, input_b, left_index, right_index, seen_a>>
  <2>1. /\ ports' = IF Has(left_index, o[n + 1]) THEN ports
                    ELSE [ports EXCEPT !["b_only"] = Append(@, o[n + 1])]
        /\ seen_b' = n + 1
        /\ UNCHANGED <<input_a, input_b, left_index, right_index, seen_a>>
    BY <1>1 DEF CollectB
  <2> QED
    BY <1>2, <1>4, <2>1
<1>6. key \notin Range(list)
  <2>1. \A i \in 1 .. n : o[i] # key
    <3>1. \A i \in 1 .. n : i \in DOMAIN o /\ n + 1 \in DOMAIN o /\ i # n + 1
      BY <1>1
    <3> QED
      BY <1>1, <1>2, <3>1 DEF IsInjective
  <2> QED
    BY <1>1, <1>4, <2>1 DEF CompareInv
<1>7. longer \in Seq(Keys) /\ IsInjective(longer) /\ Range(longer) = Range(list) \cup {key}
  BY <1>4, <1>6, AppendNew
<1>8. ports \in [ComparePorts -> Seq(Keys)] /\ "b_only" \in ComparePorts
  BY DEF CompareInv, ComparePorts
<1>9. /\ ports' \in [ComparePorts -> Seq(Keys)]
      /\ ports'["b_only"] = IF Has(left_index, key) THEN list ELSE longer
      /\ \A p \in ComparePorts : p # "b_only" => ports'[p] = ports[p]
  BY <1>4, <1>5, <1>7, <1>8
<1>10. \A p \in ComparePorts : IsInjective(ports'[p])
  BY <1>4, <1>7, <1>9 DEF CompareInv
<1>11. ASSUME NEW k \in Keys
       PROVE  k \in Range(ports'["b_only"])
                <=> ~ Has(left_index, k) /\ \E i \in 1 .. n + 1 : o[i] = k
  <2>1. k \in Range(list) <=> ~ Has(left_index, k) /\ \E i \in 1 .. n : o[i] = k
    BY <1>1, <1>4 DEF CompareInv
  <2>2. (\E i \in 1 .. n + 1 : o[i] = k) <=> k = key \/ \E i \in 1 .. n : o[i] = k
    <3>1. \A i : i \in 1 .. n + 1 <=> i = n + 1 \/ i \in 1 .. n
      BY <1>1
    <3> QED
      BY <1>2, <3>1
  <2> QED
    BY <1>7, <1>9, <2>1, <2>2
<1>13. /\ DictOf(input_a, left_index)' /\ DictOf(input_b, right_index)'
       /\ \A k : (PortOf(k)' = PortOf(k)) /\ (Has(left_index, k)' <=> Has(left_index, k))
  <2>1. DictOf(input_a, left_index) /\ DictOf(input_b, right_index)
    BY DEF CompareInv
  <2>2. DictOf(input_a', left_index') /\ DictOf(input_b', right_index')
    BY <1>5, <2>1
  <2>3. DictOf(input_a, left_index)' /\ DictOf(input_b, right_index)'
    BY <2>2 DEF DictOf, KeysOf, LastWith, IsInjective, Range
  <2> QED
    BY <1>5, <2>3 DEF PortOf, Has
<1>14. /\ seen_a' \in 0 .. Len(left_index'.order) /\ seen_b' \in 0 .. Len(right_index'.order)
  BY <1>1, <1>5 DEF CompareInv
<1>15. \A p \in ComparePorts : Range(ports[p])' = Range(ports'[p]) /\ (IsInjective(ports[p])' <=> IsInjective(ports'[p]))
  BY DEF Range, IsInjective
<1>16. \A p \in {"a_only", "same", "diff"}, k \in Keys :
         k \in Range(ports[p])' <=> PortOf(k)' = p /\ \E i \in 1 .. seen_a' : left_index'.order[i] = k
  <2>1. \A p \in {"a_only", "same", "diff"} : p \in ComparePorts /\ p # "b_only"
    BY DEF ComparePorts
  <2>2. \A p \in {"a_only", "same", "diff"} : Range(ports[p])' = Range(ports[p])
    BY <1>9, <1>15, <2>1
  <2>3. \A p \in {"a_only", "same", "diff"}, k \in Keys :
          k \in Range(ports[p]) <=> PortOf(k) = p /\ \E i \in 1 .. seen_a : left_index.order[i] = k
    BY DEF CompareInv
  <2> QED
    BY <1>5, <1>13, <2>2, <2>3
<1>17. \A k \in Keys :
         k \in Range(ports["b_only"])'
           <=> ~ Has(left_index, k)' /\ \E i \in 1 .. seen_b' : right_index'.order[i] = k
  BY <1>1, <1>5, <1>8, <1>11, <1>13, <1>15
<1> QED
  BY <1>9, <1>10, <1>13, <1>14, <1>15, <1>16, <1>17 DEF CompareInv

\* When all keys have been looked at, each is on one port and once, by the last
\* items that have it.
LEMMA ComparedByLast ==
  ASSUME CompareInv, Compared
  PROVE  /\ \A p \in ComparePorts : IsInjective(ports[p])
         /\ Range(ports["a_only"]) = KeysOf(input_a) \ KeysOf(input_b)
         /\ Range(ports["b_only"]) = KeysOf(input_b) \ KeysOf(input_a)
         /\ Range(ports["same"]) = {k \in KeysOf(input_a) \cap KeysOf(input_b) : SameLast(k)}
         /\ Range(ports["diff"]) = {k \in KeysOf(input_a) \cap KeysOf(input_b) : ~ SameLast(k)}
<1>1. PICK A, B : A = KeysOf(input_a) /\ B = KeysOf(input_b)
  OBVIOUS
<1>2. DictOf(input_a, left_index) /\ DictOf(input_b, right_index)
  BY DEF CompareInv
<1>3. /\ DOMAIN left_index.held = A /\ DOMAIN right_index.held = B
      /\ Range(left_index.order) = A /\ Range(right_index.order) = B
      /\ left_index.order \in Seq(Keys) /\ right_index.order \in Seq(Keys)
  BY <1>1, <1>2 DEF DictOf
<1>4. \A k : /\ k \in A <=> \E i \in 1 .. seen_a : left_index.order[i] = k
             /\ k \in B <=> \E i \in 1 .. seen_b : right_index.order[i] = k
  BY <1>3 DEF Compared, Range
<1>5. A \subseteq Keys /\ B \subseteq Keys
  BY <1>3 DEF Range
<1>6. ASSUME NEW k \in A \cap B
      PROVE  left_index.held[k] = right_index.held[k] <=> SameLast(k)
  <2>1. PICK v, w : v = left_index.held[k] /\ w = right_index.held[k]
    OBVIOUS
  <2>2. LastWith(input_a, k, v) /\ LastWith(input_b, k, w)
    BY <1>1, <1>2, <2>1 DEF DictOf
  <2>3. input_a \in Seq(Items) /\ input_b \in Seq(Items)
    BY <1>2 DEF DictOf
  <2>4. v \in Payloads
    <3>1. PICK i \in DOMAIN input_a : input_a[i].payload = v
      BY <2>2 DEF LastWith
    <3>2. input_a[i] \in Items
      BY <2>3
    <3> QED
      BY <3>1, <3>2 DEF Items
  <2>5. v = w => SameLast(k)
    BY <2>2, <2>4 DEF SameLast
  <2>6. ASSUME SameLast(k) PROVE v = w
    <3>1. PICK u \in Payloads : LastWith(input_a, k, u) /\ LastWith(input_b, k, u)
      BY <2>6 DEF SameLast
    <3>2. u = v /\ u = w
      BY <2>2, <2>3, <3>1, LastIsUnique
    <3> QED
      BY <3>2
  <2> QED
    BY <2>1, <2>5, <2>6
<1>7. \A k \in A : /\ PortOf(k) = "a_only" <=> k \notin B
                   /\ PortOf(k) = "same" <=> k \in B /\ SameLast(k)
                   /\ PortOf(k) = "diff" <=> k \in B /\ ~ SameLast(k)
  BY <1>3, <1>6 DEF PortOf, Has
<1>8. \A p \in ComparePorts : Range(ports[p]) \subseteq Keys
  <2>1. \A p \in ComparePorts : ports[p] \in Seq(Keys)
    BY DEF CompareInv
  <2> QED
    BY <2>1 DEF Range
<1>9. \A p \in {"a_only", "same", "diff"}, k \in Keys :
        k \in Range(ports[p]) <=> PortOf(k) = p /\ k \in A
  BY <1>4 DEF CompareInv
<1>10. \A k \in Keys : k \in Range(ports["b_only"]) <=> k \notin A /\ k \in B
  BY <1>3, <1>4 DEF CompareInv, Has
<1>11. \A p \in ComparePorts : IsInjective(ports[p])
  BY DEF CompareInv
<1>12. Range(ports["a_only"]) = A \ B
  BY <1>5, <1>7, <1>8, <1>9 DEF ComparePorts
<1>13. Range(ports["b_only"]) = B \ A
  BY <1>5, <1>8, <1>10 DEF ComparePorts
<1>14. Range(ports["same"]) = {k \in A \cap B : SameLast(k)}
  BY <1>5, <1>7, <1>8, <1>9 DEF ComparePorts
<1>15. Range(ports["diff"]) = {k \in A \cap B : ~ SameLast(k)}
  BY <1>5, <1>7, <1>8, <1>9 DEF ComparePorts
<1> QED
  BY <1>1, <1>11, <1>12, <1>13, <1>14, <1>15

\* The only item of a key is the last.
LEMMA OnlyIsLast ==
  ASSUME NEW items \in Seq(Items), NEW k, Single(items, k), NEW i \in DOMAIN items, items[i].key = k
  PROVE  LastWith(items, k, items[i].payload)
<1>1. DOMAIN items = 1 .. Len(items) /\ Len(items) \in Nat
  OBVIOUS
<1>2. \A j \in (i + 1) .. Len(items) : j \in DOMAIN items /\ j # i
  BY <1>1
<1> QED
  BY <1>2 DEF Single, LastWith

\* The invariant of compare_datasets says what is wanted of it, when all keys have
\* been looked at.
LEMMA CompareInvSuffices ==
  ASSUME CompareInv
  PROVE  ComparedRightly
<1>1. CASE ~ Compared
  BY <1>1 DEF ComparedRightly
<1>2. CASE Compared
  <2>1. PICK A, B : A = KeysOf(input_a) /\ B = KeysOf(input_b)
    OBVIOUS
  <2>2. /\ \A p \in ComparePorts : IsInjective(ports[p])
        /\ Range(ports["a_only"]) = A \ B /\ Range(ports["b_only"]) = B \ A
        /\ Range(ports["same"]) = {k \in A \cap B : SameLast(k)}
        /\ Range(ports["diff"]) = {k \in A \cap B : ~ SameLast(k)}
    BY <1>2, <2>1, ComparedByLast
  <2>3. input_a \in Seq(Items) /\ input_b \in Seq(Items)
    BY DEF CompareInv, DictOf
  <2>4. ASSUME NEW k, k \in A \cap B, Once(k) PROVE SameLast(k) <=> Equal(k)
    <3>1. PICK i \in DOMAIN input_a : input_a[i].key = k
      BY <2>1, <2>4 DEF KeysOf
    <3>2. PICK j \in DOMAIN input_b : input_b[j].key = k
      BY <2>1, <2>4 DEF KeysOf
    <3>3. PICK v, w : v = input_a[i].payload /\ w = input_b[j].payload
      OBVIOUS
    <3>4. LastWith(input_a, k, v) /\ LastWith(input_b, k, w)
      BY <2>3, <2>4, <3>1, <3>2, <3>3, OnlyIsLast DEF Once
    <3>5. v \in Payloads
      <4>1. input_a[i] \in Items
        BY <2>3
      <4> QED
        BY <3>3, <4>1 DEF Items
    <3>6. Equal(k) <=> v = w
      <4>1. /\ \A l \in DOMAIN input_a : input_a[l].key = k => l = i
            /\ \A l \in DOMAIN input_b : input_b[l].key = k => l = j
        BY <2>4, <3>1, <3>2 DEF Once, Single
      <4> QED
        BY <3>1, <3>2, <3>3, <4>1 DEF Equal
    <3>7. ASSUME SameLast(k) PROVE v = w
      <4>1. PICK u \in Payloads : LastWith(input_a, k, u) /\ LastWith(input_b, k, u)
        BY <3>7 DEF SameLast
      <4>2. u = v /\ u = w
        BY <2>3, <3>4, <4>1, LastIsUnique
      <4> QED
        BY <4>2
    <3>8. v = w => SameLast(k)
      BY <3>4, <3>5 DEF SameLast
    <3> QED
      BY <3>6, <3>7, <3>8
  <2>5. \A p \in ComparePorts : \A k : \A m, n \in DOMAIN ports[p] :
          ports[p][m] = k /\ ports[p][n] = k => m = n
    BY <2>2 DEF IsInjective
  <2>6. /\ On("a_only") = (A \ {NoKey}) \ (B \ {NoKey})
        /\ On("b_only") = (B \ {NoKey}) \ (A \ {NoKey})
        /\ On("same") \cup On("diff") = (A \ {NoKey}) \cap (B \ {NoKey})
    BY <2>2 DEF On
  <2>7. \A k : Once(k) => (k \in On("same") => Equal(k)) /\ (k \in On("diff") => ~ Equal(k))
    BY <2>2, <2>4 DEF On
  <2> QED
    BY <2>1, <2>5, <2>6, <2>7 DEF ComparedRightly
<1> QED
  BY <1>1, <1>2

-----------------------------------------------------------------------------
(* set, transform and rename_keys.                                          *)

\* What set leaves of the placed values after removals.
Unremoved(tree, list) == {l \in Held(tree) : \A r \in Range(list) : ~ Under(r, l[1])}

SetInv ==
  /\ removals = <<>> => payload = Placed(entries, Base)
  /\ Held(payload) = Unremoved(Placed(entries, Base), removals)

CountInv ==
  /\ named <= Len(entries)
  /\ named = 0 => \A e \in 1 .. Len(entries) : entries[e].name = <<>>
  /\ (\A e \in 1 .. Len(entries) : entries[e].name # <<>>) => named = Len(entries)

TransformInv ==
  /\ named = 0 => payload = original
  /\ BlanksComeLast /\ named # 0 => payload = Placed(entries, Base)

\* A value is where it was or where a mapping leads to.
Traced(list, from, tree) ==
  \A l \in Held(tree) : \/ \E o \in Held(from) : o[1] = l[1]
                        \/ \E e \in 1 .. Len(list) : Under(list[e].to, l[1])

RenameInv == Contents(payload) = Contents(original) /\ Traced(entries, original, payload)

FieldInv ==
  /\ kind \in {"set", "transform", "rename_keys"} /\ named \in Nat /\ removals \in Seq(Names)
  /\ kind # "rename_keys" => entries \in Seq(Entries)
  /\ kind = "rename_keys" => entries \in Seq(Mappings) /\ payload \in Trees /\ original \in Trees
  /\ kind = "set" /\ outcome = "fine" => SetInv
  /\ kind = "transform" => CountInv
  /\ kind = "transform" /\ outcome = "fine" => TransformInv
  /\ kind = "rename_keys" /\ outcome = "fine" /\ NewTargets => RenameInv

\* The placed leaves, one by one.
LEMMA PlacedIs ==
  ASSUME NEW list, NEW base, NEW n, DOMAIN list = 1 .. n, NEW l
  PROVE  l \in Placed(list, base)
           <=> \/ l \in base /\ Survives(list, l, 1)
               \/ \E e \in 1 .. n : /\ list[e].name # <<>>
                                    /\ l \in Put(list[e]) /\ Survives(list, l, e + 1)
BY DEF Placed

\* One more entry puts its leaves over the placed ones, as set_path does.
LEMMA PlacedGrows ==
  ASSUME NEW list \in Seq(Entries), NEW base, NEW entry \in Entries,
         NEW longer, longer = Append(list, entry)
  PROVE  /\ entry.name = <<>> => Placed(longer, base) = Placed(list, base)
         /\ entry.name # <<>> =>
              Placed(longer, base) = SetPath(Placed(list, base), entry.name, entry.value)
<1>1. PICK n \in Nat : n = Len(list)
  OBVIOUS
<1>2. /\ Len(longer) = n + 1 /\ longer[n + 1] = entry /\ DOMAIN longer = 1 .. n + 1
      /\ DOMAIN list = 1 .. n /\ \A i \in 1 .. n : longer[i] = list[i]
  BY <1>1, AppendIs
<1>3. PICK new : new = {l \in Put(entry) : TRUE} /\ new = Put(entry)
  OBVIOUS
<1>4. ASSUME NEW l, NEW p \in 1 .. n + 1
      PROVE  Survives(longer, l, p)
               <=> Survives(list, l, p) /\ (entry.name # <<>> => ~ Overlaps(entry.name, l[1]))
  <2>1. \A d : d \in p .. n + 1 <=> d = n + 1 \/ d \in p .. n
    BY <1>4
  <2>2. \A d \in p .. n : longer[d] = list[d]
    BY <1>2, <1>4
  <2> QED
    BY <1>1, <1>2, <2>1, <2>2 DEF Survives
<1>5. \A l : Survives(longer, l, (n + 1) + 1)
  <2>1. \A d \in ((n + 1) + 1) .. n + 1 : FALSE
    OBVIOUS
  <2> QED
    BY <1>2, <2>1 DEF Survives
<1>6. ASSUME NEW l
      PROVE  l \in Placed(longer, base)
               <=> \/ /\ l \in Placed(list, base)
                      /\ entry.name # <<>> => ~ Overlaps(entry.name, l[1])
                   \/ entry.name # <<>> /\ l \in new
  <2>1. l \in Placed(longer, base)
          <=> \/ l \in base /\ Survives(longer, l, 1)
              \/ \E e \in 1 .. n + 1 : /\ longer[e].name # <<>>
                                       /\ l \in Put(longer[e]) /\ Survives(longer, l, e + 1)
    BY <1>2, PlacedIs
  <2>2. l \in Placed(list, base)
          <=> \/ l \in base /\ Survives(list, l, 1)
              \/ \E e \in 1 .. n : /\ list[e].name # <<>>
                                   /\ l \in Put(list[e]) /\ Survives(list, l, e + 1)
    BY <1>2, PlacedIs
  <2>3. 1 \in 1 .. n + 1 /\ n + 1 \in 1 .. n + 1 /\ \A e \in 1 .. n : e \in 1 .. n + 1 /\ e + 1 \in 1 .. n + 1
    OBVIOUS
  <2>4. \A e \in 1 .. n + 1 : e = n + 1 \/ e \in 1 .. n
    OBVIOUS
  <2>5. Survives(longer, l, 1)
          <=> Survives(list, l, 1) /\ (entry.name # <<>> => ~ Overlaps(entry.name, l[1]))
    BY <1>4, <2>3
  <2>6. \A e \in 1 .. n : Survives(longer, l, e + 1)
          <=> Survives(list, l, e + 1) /\ (entry.name # <<>> => ~ Overlaps(entry.name, l[1]))
    BY <1>4, <2>3
  <2>7. (\E e \in 1 .. n + 1 : /\ longer[e].name # <<>>
                               /\ l \in Put(longer[e]) /\ Survives(longer, l, e + 1))
          <=> \/ entry.name # <<>> /\ l \in new
              \/ \E e \in 1 .. n : /\ list[e].name # <<>>
                                   /\ l \in Put(list[e]) /\ Survives(longer, l, e + 1)
    BY <1>2, <1>3, <1>5, <2>3, <2>4
  <2> QED
    BY <2>1, <2>2, <2>5, <2>6, <2>7
<1>7. ASSUME entry.name # <<>>
      PROVE  Placed(longer, base) = SetPath(Placed(list, base), entry.name, entry.value)
  <2>1. SetPath(Placed(list, base), entry.name, entry.value)
          = {l \in Placed(list, base) : ~ Overlaps(entry.name, l[1])} \cup new
    BY <1>3 DEF SetPath, Put
  <2> QED
    BY <1>6, <1>7, <2>1
<1> QED
  BY <1>6, <1>7

\* Without a name nothing is placed.
LEMMA NothingPlaced ==
  ASSUME NEW list \in Seq(Entries), NEW base, \A e \in 1 .. Len(list) : list[e].name = <<>>
  PROVE  Placed(list, base) = base
<1>1. PICK n : n = Len(list) /\ DOMAIN list = 1 .. n
  OBVIOUS
<1>2. \A l : Survives(list, l, 1)
  BY DEF Survives
<1>3. ASSUME NEW l PROVE l \in Placed(list, base) <=> l \in base
  <2>1. l \in Placed(list, base)
          <=> \/ l \in base /\ Survives(list, l, 1)
              \/ \E e \in 1 .. n : /\ list[e].name # <<>>
                                   /\ l \in Put(list[e]) /\ Survives(list, l, e + 1)
    BY <1>1, PlacedIs
  <2> QED
    BY <1>1, <1>2, <2>1
<1> QED
  BY <1>3

\* A named entry or none, as set and transform read it.
LEMMA EntryIs ==
  ASSUME NEW entry \in Entries
  PROVE  entry.name # <<>> => entry.name \in Names /\ entry.value \in Values /\ entry.value # NotDict
BY FieldAssumption DEF Entries

\* set: one more assignment.
LEMMA AssignOK ==
  ASSUME FieldInv, NEW entry \in Entries, Assign(entry)
  PROVE  FieldInv'
<1>1. /\ kind = "set" /\ outcome = "fine" /\ removals = <<>>
      /\ kind' = kind /\ original' = original /\ mode' = mode /\ removals' = removals
      /\ entries' = Append(entries, entry)
      /\ named' = IF entry.name = <<>> THEN named ELSE named + 1
  BY DEF Assign, Step, Read
<1>2. PICK list \in Seq(Entries) : list = entries
  BY <1>1 DEF FieldInv
<1>3. PICK base, longer : base = Base /\ longer = Append(list, entry)
  OBVIOUS
<1>4. Base' = base /\ entries' = longer /\ longer \in Seq(Entries)
  BY <1>1, <1>2, <1>3 DEF Base
<1>5. payload = Placed(list, base)
  BY <1>1, <1>2, <1>3 DEF FieldInv, SetInv
<1>6. ASSUME outcome' = "fine" PROVE payload' = Placed(longer, base)
  <2>1. CASE entry.name = <<>>
    <3>1. payload' = payload
      BY <2>1 DEF Assign, Leave
    <3> QED
      BY <1>3, <1>5, <2>1, <3>1, PlacedGrows
  <2>2. CASE entry.name # <<>>
    <3>1. payload' = SetPath(payload, entry.name, entry.value)
      BY <1>6, <2>2 DEF Assign, Write, Raise
    <3> QED
      BY <1>3, <1>5, <2>2, <3>1, PlacedGrows
  <2> QED
    BY <2>1, <2>2
<1>7. ASSUME outcome' = "fine" PROVE SetInv'
  <2>1. payload' = Placed(entries, Base)'
    <3>1. Placed(entries, Base)' = Placed(longer, base)
      BY <1>4 DEF Placed, Survives, Put, Overlaps, Under
    <3> QED
      BY <1>6, <1>7, <3>1
  <2>2. Range(removals') = {}
    BY <1>1 DEF Range
  <2>3. Unremoved(Placed(entries, Base), removals)' = {l \in Held(payload') : \A r \in Range(removals') : ~ Under(r, l[1])}
    BY <2>1 DEF Unremoved, Held, Range, Under
  <2>4. Held(payload)' = Held(payload')
    BY DEF Held
  <2> QED
    BY <2>1, <2>2, <2>3, <2>4 DEF SetInv
<1>8. named' \in Nat /\ removals' \in Seq(Names) /\ entries' \in Seq(Entries)
  BY <1>1, <1>4 DEF FieldInv
<1> QED
  BY <1>1, <1>7, <1>8 DEF FieldInv

\* del_path takes away what is at or below the path.
LEMMA DelPathTakes ==
  ASSUME NEW tree, NEW path
  PROVE  Held(DelPath(tree, path)) = {l \in Held(tree) : ~ Under(path, l[1])}
<1>1. PICK rest, parent : /\ rest = {l \in tree : ~ Under(path, l[1])}
                          /\ parent = SubSeq(path, 1, Len(path) - 1)
  OBVIOUS
<1>2. DelPath(tree, path) = rest \/ DelPath(tree, path) = rest \cup {<<parent, Empty>>}
  BY <1>1 DEF DelPath
<1>3. <<parent, Empty>>[2] = Empty
  OBVIOUS
<1> QED
  BY <1>1, <1>2, <1>3 DEF Held

\* set: one more removal.
LEMMA RemoveOK ==
  ASSUME FieldInv, NEW path \in Names, Remove(path)
  PROVE  FieldInv'
<1>1. /\ kind = "set" /\ outcome = "fine" /\ removals' = Append(removals, path)
      /\ kind' = kind /\ original' = original /\ mode' = mode
      /\ entries' = entries /\ named' = named
  BY DEF Remove, Step
<1>2. PICK list \in Seq(Names) : list = removals
  BY DEF FieldInv
<1>3. PICK longer : longer = Append(list, path)
  OBVIOUS
<1>4. longer \in Seq(Names) /\ longer # <<>> /\ Range(longer) = Range(list) \cup {path}
  <2>1. PICK n \in Nat : n = Len(list)
    OBVIOUS
  <2>2. /\ longer \in Seq(Names) /\ DOMAIN longer = 1 .. n + 1 /\ DOMAIN list = 1 .. n
        /\ longer[n + 1] = path /\ \A i \in 1 .. n : longer[i] = list[i]
    BY <1>3, <2>1, AppendIs
  <2>3. \A i : i \in 1 .. n + 1 <=> i = n + 1 \/ i \in 1 .. n
    BY <2>1
  <2>4. longer # <<>>
    BY <1>3
  <2> QED
    BY <2>2, <2>3, <2>4 DEF Range
<1>5. PICK placed : placed = Placed(entries, Base)
  OBVIOUS
<1>6. Held(payload) = {l \in Held(placed) : \A r \in Range(list) : ~ Under(r, l[1])}
  BY <1>1, <1>2, <1>5 DEF FieldInv, SetInv, Unremoved
<1>7. ASSUME outcome' = "fine"
      PROVE  Held(payload') = {l \in Held(placed) : \A r \in Range(longer) : ~ Under(r, l[1])}
  <2>1. payload' = DelPath(payload, path)
    BY <1>7 DEF Remove, Raise
  <2>2. Held(payload') = {l \in Held(payload) : ~ Under(path, l[1])}
    BY <2>1, DelPathTakes
  <2> QED
    BY <1>4, <1>6, <2>2
<1>8. removals' = longer
  BY <1>1, <1>2, <1>3
<1>9. ASSUME outcome' = "fine" PROVE SetInv'
  <2>1. Placed(entries, Base)' = placed
    BY <1>1, <1>5 DEF Placed, Survives, Put, Overlaps, Under, Base
  <2>2. Unremoved(Placed(entries, Base), removals)'
          = {l \in Held(placed) : \A r \in Range(longer) : ~ Under(r, l[1])}
    BY <1>8, <2>1 DEF Unremoved, Held, Range, Under
  <2>3. Held(payload)' = Held(payload')
    BY DEF Held
  <2> QED
    BY <1>4, <1>7, <1>8, <1>9, <2>2, <2>3 DEF SetInv
<1>10. named' \in Nat /\ removals' \in Seq(Names) /\ entries' \in Seq(Entries)
  BY <1>1, <1>4, <1>8 DEF FieldInv
<1> QED
  BY <1>1, <1>9, <1>10 DEF FieldInv

\* transform: one more entry; its name is paired with its own value unless one
\* without a name came before.
LEMMA TransformOK ==
  ASSUME FieldInv, NEW entry \in Entries, Transform(entry)
  PROVE  FieldInv'
<1>1. /\ kind = "transform" /\ outcome = "fine"
      /\ kind' = kind /\ original' = original /\ mode' = mode /\ removals' = removals
      /\ entries' = Append(entries, entry)
      /\ named' = IF entry.name = <<>> THEN named ELSE named + 1
  BY DEF Transform, Step, Read
<1>2. PICK list \in Seq(Entries) : list = entries
  BY <1>1 DEF FieldInv
<1>3. PICK n \in Nat, k \in Nat : n = Len(list) /\ k = named
  <2>1. Len(list) \in Nat /\ named \in Nat
    BY DEF FieldInv
  <2> QED
    BY <2>1
<1>4. PICK base, longer : base = Base /\ longer = Append(list, entry)
  OBVIOUS
<1>5. /\ longer \in Seq(Entries) /\ Len(longer) = n + 1 /\ DOMAIN longer = 1 .. n + 1
      /\ DOMAIN list = 1 .. n /\ longer[n + 1] = entry
      /\ \A i \in 1 .. n : longer[i] = list[i]
  BY <1>3, <1>4, AppendIs
<1>6. /\ entries' = longer /\ Base' = base
      /\ named' = IF entry.name = <<>> THEN k ELSE k + 1
  BY <1>1, <1>2, <1>3, <1>4 DEF Base
<1>7. /\ k <= n
      /\ k = 0 => \A e \in 1 .. n : list[e].name = <<>>
      /\ (\A e \in 1 .. n : list[e].name # <<>>) => k = n
  BY <1>1, <1>2, <1>3 DEF FieldInv, CountInv
<1>8. n + 1 \in 1 .. n + 1 /\ (\A i \in 1 .. n : i \in 1 .. n + 1) /\ \A i \in 1 .. n + 1 : i = n + 1 \/ i \in 1 .. n
  OBVIOUS
<1>9. k + 1 \in Nat /\ k + 1 # 0 /\ k + 1 <= n + 1 /\ k <= n + 1 /\ (k = n => k + 1 = n + 1)
  BY <1>7
<1>10. named' \in Nat /\ CountInv'
  <2>1. named' \in Nat /\ named' <= n + 1
    BY <1>6, <1>9
  <2>2. named' = 0 => \A e \in 1 .. n + 1 : longer[e].name = <<>>
    BY <1>5, <1>6, <1>7, <1>8, <1>9
  <2>3. ASSUME \A e \in 1 .. n + 1 : longer[e].name # <<>> PROVE named' = n + 1
    <3>1. entry.name # <<>> /\ \A e \in 1 .. n : list[e].name # <<>>
      BY <1>5, <1>8, <2>3
    <3> QED
      BY <1>6, <1>7, <1>9, <3>1
  <2> QED
    BY <1>5, <1>6, <2>1, <2>2, <2>3 DEF CountInv
<1>11. ASSUME outcome' = "fine" PROVE TransformInv'
  <2>1. CASE entry.name = <<>>
    <3>1. payload' = payload /\ named' = k
      BY <1>6, <2>1 DEF Transform, Leave
    <3>2. Placed(longer, base) = Placed(list, base)
      BY <1>4, <2>1, PlacedGrows
    <3>3. named' = 0 => payload' = original'
      BY <1>1, <1>3, <3>1 DEF FieldInv, TransformInv
    <3>4. ASSUME BlanksComeLast', named' # 0 PROVE payload' = Placed(longer, base)
      <4>1. BlanksComeLast
        <5>1. \A d, e \in 1 .. n + 1 : d < e /\ longer[d].name = <<>> => longer[e].name = <<>>
          BY <1>5, <1>6, <3>4 DEF BlanksComeLast
        <5>2. \A d, e \in 1 .. n : d < e /\ list[d].name = <<>> => list[e].name = <<>>
          BY <1>5, <1>8, <5>1
        <5> QED
          BY <1>2, <1>5, <5>2 DEF BlanksComeLast
      <4>2. payload = Placed(list, base)
        BY <1>1, <1>2, <1>3, <1>4, <3>1, <3>4, <4>1 DEF FieldInv, TransformInv
      <4> QED
        BY <3>1, <3>2, <4>2
    <3>5. Placed(entries, Base)' = Placed(longer, base)
      BY <1>6 DEF Placed, Survives, Put, Overlaps, Under
    <3> QED
      BY <3>3, <3>4, <3>5 DEF TransformInv
  <2>2. CASE entry.name # <<>>
    <3>1. named' = k + 1 /\ named' # 0
      BY <1>6, <1>9, <2>2
    <3>2. ASSUME BlanksComeLast' PROVE payload' = Placed(longer, base)
      <4>1. \A d, e \in 1 .. n + 1 : d < e /\ longer[d].name = <<>> => longer[e].name = <<>>
        BY <1>5, <1>6, <3>2 DEF BlanksComeLast
      <4>2. \A d \in 1 .. n : list[d].name # <<>>
        <5>1. \A d \in 1 .. n : d < n + 1
          OBVIOUS
        <5> QED
          BY <1>5, <1>8, <2>2, <4>1, <5>1
      <4>3. k = n /\ longer[k + 1] = entry
        BY <1>5, <1>7, <4>2
      <4>4. PICK tree : tree = IF named = 0 THEN Base ELSE payload
        OBVIOUS
      <4>5. entry.value # NotDict
        BY <2>2, EntryIs
      <4>6. payload' = SetPath(tree, entry.name, entry.value)
        <5>1. Append(entries, entry)[named + 1].value = entry.value
          BY <1>2, <1>3, <1>4, <4>3
        <5>2. Write(tree, entry.name, entry.value)
          BY <2>2, <4>4, <4>5, <5>1 DEF Transform
        <5> QED
          BY <1>11, <5>2 DEF Write, Raise
      <4>7. tree = Placed(list, base)
        <5>1. CASE k = 0
          <6>1. tree = base /\ \A e \in 1 .. Len(list) : list[e].name = <<>>
            BY <1>3, <1>4, <1>7, <4>4, <5>1
          <6> QED
            BY <6>1, NothingPlaced
        <5>2. CASE k # 0
          <6>1. BlanksComeLast
            BY <1>2, <1>5, <4>2 DEF BlanksComeLast
          <6> QED
            BY <1>1, <1>2, <1>3, <1>4, <4>4, <5>2, <6>1 DEF FieldInv, TransformInv
        <5> QED
          BY <5>1, <5>2
      <4> QED
        BY <1>4, <2>2, <4>6, <4>7, PlacedGrows
    <3>3. Placed(entries, Base)' = Placed(longer, base)
      BY <1>6 DEF Placed, Survives, Put, Overlaps, Under
    <3> QED
      BY <3>1, <3>2, <3>3 DEF TransformInv
  <2> QED
    BY <2>1, <2>2
<1>12. removals' \in Seq(Names) /\ entries' \in Seq(Entries)
  BY <1>1, <1>5, <1>6 DEF FieldInv
<1> QED
  BY <1>1, <1>10, <1>11, <1>12 DEF FieldInv

\* Two paths that lead to a third, or one of them to the other, overlap.
LEMMA PathsMeet ==
  ASSUME NEW S, NEW p \in Seq(S), NEW q \in Seq(S), NEW r \in Seq(S), Under(p, r), Overlaps(q, r)
  PROVE  Overlaps(p, q)
<1>1. PICK a \in Nat, b \in Nat, c \in Nat : a = Len(p) /\ b = Len(q) /\ c = Len(r)
  <2>1. Len(p) \in Nat /\ Len(q) \in Nat /\ Len(r) \in Nat
    OBVIOUS
  <2> QED
    BY <2>1
<1>2. a <= c /\ \A i \in 1 .. a : p[i] = r[i]
  BY <1>1 DEF Under
<1>3. CASE Under(q, r)
  <2>1. b <= c /\ \A i \in 1 .. b : q[i] = r[i]
    BY <1>1, <1>3 DEF Under
  <2>2. CASE a <= b
    <3>1. \A i \in 1 .. a : i \in 1 .. b
      BY <2>2
    <3> QED
      BY <1>1, <1>2, <2>1, <2>2, <3>1 DEF Overlaps, Under
  <2>3. CASE b <= a
    <3>1. \A i \in 1 .. b : i \in 1 .. a
      BY <2>3
    <3> QED
      BY <1>1, <1>2, <2>1, <2>3, <3>1 DEF Overlaps, Under
  <2> QED
    BY <1>1, <2>2, <2>3
<1>4. CASE Under(r, q)
  <2>1. c <= b /\ \A i \in 1 .. c : r[i] = q[i]
    BY <1>1, <1>4 DEF Under
  <2>2. a <= b /\ \A i \in 1 .. a : i \in 1 .. c
    BY <1>2, <2>1
  <2> QED
    BY <1>1, <1>2, <2>1, <2>2 DEF Overlaps, Under
<1> QED
  BY <1>3, <1>4 DEF Overlaps

\* What a mapping to a new place does to a payload.
Moves(tree, target, new) ==
  /\ new \in Trees
  /\ (\A l \in Held(tree) : ~ Overlaps(target, l[1])) => Contents(new) = Contents(tree)
  /\ \A l \in Held(new) : l \in Held(tree) \/ Under(target, l[1])

\* get_path, del_path and set_path together move what is found at the source.
LEMMA MappingMoves ==
  ASSUME NEW tree \in Trees, NEW source \in Names, NEW target \in Names,
         NEW new, new = SetPath(DelPath(tree, source), target, GetPath(tree, source))
  PROVE  Moves(tree, target, new)
<1>1. PICK S, V : S = Seq(Segments \cup {Blank}) /\ V = Leaves \cup {Empty} /\ Trees = SUBSET (S \X V)
  BY DEF Trees
<1>2. source \in S /\ target \in S
  BY <1>1, FieldAssumption
<1>3. PICK value, rest : value = GetPath(tree, source) /\ rest = DelPath(tree, source)
  OBVIOUS
<1>4. PICK put : put = {<<target \o l[1], l[2]>> : l \in value}
  OBVIOUS
<1>5. new = {l \in rest : ~ Overlaps(target, l[1])} \cup put
  BY <1>3, <1>4 DEF SetPath
<1>6. \A p \in S, i \in Nat, j \in Nat : i \in 1 .. Len(p) + 1 /\ j <= Len(p) => SubSeq(p, i, j) \in S
  BY <1>1
<1>7. \A l \in tree : l[1] \in S /\ l[2] \in V /\ Len(l[1]) \in Nat /\ l = <<l[1], l[2]>>
  BY <1>1
<1>8. /\ \A v \in value : \E l \in tree : Under(source, l[1]) /\ v[2] = l[2] /\ v[1] \in S
      /\ \A l \in tree : Under(source, l[1]) => \E v \in value : v[2] = l[2]
  <2>1. value = {<<SubSeq(l[1], Len(source) + 1, Len(l[1])), l[2]>> : l \in {x \in tree : Under(source, x[1])}}
    BY <1>3 DEF GetPath
  <2>2. ASSUME NEW l \in tree, Under(source, l[1])
        PROVE  SubSeq(l[1], Len(source) + 1, Len(l[1])) \in S
    <3>1. Len(source) \in Nat /\ Len(source) <= Len(l[1])
      BY <1>1, <1>2, <2>2 DEF Under
    <3>2. Len(source) + 1 \in Nat /\ Len(source) + 1 \in 1 .. Len(l[1]) + 1 /\ Len(l[1]) <= Len(l[1])
      BY <1>7, <3>1
    <3> QED
      BY <1>6, <1>7, <3>2
  <2>3. ASSUME NEW v \in value
        PROVE  \E l \in tree : Under(source, l[1]) /\ v[2] = l[2] /\ v[1] \in S
    <3>1. PICK l \in tree : /\ Under(source, l[1])
                           /\ v = <<SubSeq(l[1], Len(source) + 1, Len(l[1])), l[2]>>
      BY <2>1
    <3>2. v[1] = SubSeq(l[1], Len(source) + 1, Len(l[1])) /\ v[2] = l[2]
      BY <3>1
    <3> QED
      BY <2>2, <3>1, <3>2
  <2>4. ASSUME NEW l \in tree, Under(source, l[1]) PROVE \E v \in value : v[2] = l[2]
    <3>1. PICK v : v = <<SubSeq(l[1], Len(source) + 1, Len(l[1])), l[2]>>
      OBVIOUS
    <3>2. v \in value /\ v[2] = l[2]
      BY <2>1, <2>4, <3>1
    <3> QED
      BY <3>2
  <2> QED
    BY <2>3, <2>4
<1>9. /\ \A x \in put : \E l \in tree : Under(source, l[1]) /\ x[2] = l[2] /\ Under(target, x[1])
                                          /\ x \in S \X V
      /\ \A l \in tree : Under(source, l[1]) => \E x \in put : x[2] = l[2]
  <2>1. ASSUME NEW q \in S PROVE target \o q \in S /\ Under(target, target \o q)
    <3>1. PICK T : S = Seq(T)
      BY <1>1
    <3>2. /\ target \o q \in Seq(T) /\ Len(target \o q) = Len(target) + Len(q)
          /\ Len(target) \in Nat /\ Len(q) \in Nat
          /\ \A i \in 1 .. Len(target) : (target \o q)[i] = target[i]
      BY <1>2, <3>1
    <3> QED
      BY <3>1, <3>2 DEF Under
  <2>2. ASSUME NEW v \in value
        PROVE  \E l \in tree : /\ Under(source, l[1]) /\ v[2] = l[2] /\ Under(target, target \o v[1])
                               /\ <<target \o v[1], v[2]>> \in S \X V
    <3>1. PICK l \in tree : Under(source, l[1]) /\ v[2] = l[2] /\ v[1] \in S
      BY <1>8
    <3> QED
      BY <1>7, <2>1, <3>1
  <2>3. \A x \in put : \E v \in value : x = <<target \o v[1], v[2]>>
    BY <1>4
  <2>4. \A v \in value : <<target \o v[1], v[2]>> \in put
    BY <1>4
  <2>5. ASSUME NEW x \in put
        PROVE  \E l \in tree : Under(source, l[1]) /\ x[2] = l[2] /\ Under(target, x[1]) /\ x \in S \X V
    <3>1. PICK v \in value : x = <<target \o v[1], v[2]>>
      BY <2>3
    <3>2. x[1] = target \o v[1] /\ x[2] = v[2]
      BY <3>1
    <3> QED
      BY <2>2, <3>1, <3>2
  <2>6. ASSUME NEW l \in tree, Under(source, l[1]) PROVE \E x \in put : x[2] = l[2]
    <3>1. PICK v \in value : v[2] = l[2]
      BY <1>8, <2>6
    <3>2. PICK x : x = <<target \o v[1], v[2]>>
      OBVIOUS
    <3> QED
      BY <2>4, <3>1, <3>2
  <2> QED
    BY <2>5, <2>6
<1>10. Held(rest) = {l \in Held(tree) : ~ Under(source, l[1])}
  BY <1>3, DelPathTakes
<1>11. rest \in Trees
  <2>1. PICK parent : parent = SubSeq(source, 1, Len(source) - 1)
    OBVIOUS
  <2>2. rest \subseteq tree \cup {<<parent, Empty>>}
    BY <1>3, <2>1 DEF DelPath
  <2>3. parent \in S
    <3>1. Len(source) \in Nat /\ Len(source) # 0
      <4>1. source # <<>>
        BY FieldAssumption
      <4> QED
        BY <1>1, <1>2, <4>1
    <3>2. Len(source) - 1 \in Nat /\ 1 \in 1 .. Len(source) + 1 /\ Len(source) - 1 <= Len(source)
      BY <3>1
    <3> QED
      BY <1>2, <1>6, <2>1, <3>2
  <2>4. <<parent, Empty>> \in S \X V
    BY <1>1, <2>3
  <2> QED
    BY <1>1, <2>2, <2>4
<1>12. new \in Trees
  BY <1>1, <1>5, <1>9, <1>11
<1>13. \A l \in Held(new) : l \in Held(tree) \/ Under(target, l[1])
  BY <1>5, <1>9, <1>10 DEF Held
<1>14. ASSUME \A l \in Held(tree) : ~ Overlaps(target, l[1])
       PROVE  Contents(new) = Contents(tree)
  <2>1. ASSUME NEW l \in Held(new) PROVE \E m \in Held(tree) : m[2] = l[2]
    <3>1. CASE l \in rest
      BY <1>10, <2>1, <3>1 DEF Held
    <3>2. CASE l \in put
      BY <1>9, <2>1, <3>2 DEF Held
    <3> QED
      BY <1>5, <2>1, <3>1, <3>2 DEF Held
  <2>2. ASSUME NEW l \in Held(tree) PROVE \E m \in Held(new) : m[2] = l[2]
    <3>1. CASE Under(source, l[1])
      BY <1>5, <1>9, <2>2, <3>1 DEF Held
    <3>2. CASE ~ Under(source, l[1])
      <4>1. l \in Held(rest)
        BY <1>10, <2>2, <3>2
      <4>2. l \in rest /\ l[2] # Empty /\ ~ Overlaps(target, l[1])
        BY <1>14, <2>2, <4>1 DEF Held
      <4>3. l \in new
        BY <1>5, <4>2
      <4> QED
        BY <4>2, <4>3 DEF Held
    <3> QED
      BY <3>1, <3>2
  <2> QED
    BY <2>1, <2>2 DEF Contents
<1> QED
  BY <1>12, <1>13, <1>14 DEF Moves

\* rename_keys: one more mapping.  What is there is where it was at first or where
\* another mapping leads to, so a new place is free.
LEMMA RenameOK ==
  ASSUME FieldInv, NEW mapping \in Mappings, Rename(mapping)
  PROVE  FieldInv'
<1>1. /\ kind = "rename_keys" /\ outcome = "fine"
      /\ kind' = kind /\ original' = original /\ removals' = removals /\ named' = named
      /\ entries' = Append(entries, mapping)
  BY DEF Rename, Step
<1>2. PICK list \in Seq(Mappings) : list = entries
  BY <1>1 DEF FieldInv
<1>3. PICK n \in Nat : n = Len(list)
  OBVIOUS
<1>4. PICK longer : longer = Append(list, mapping)
  OBVIOUS
<1>5. /\ longer \in Seq(Mappings) /\ Len(longer) = n + 1 /\ DOMAIN longer = 1 .. n + 1
      /\ DOMAIN list = 1 .. n /\ longer[n + 1] = mapping
      /\ \A i \in 1 .. n : longer[i] = list[i]
  BY <1>3, <1>4, AppendIs
<1>6. PICK source \in Names, target \in Names : source = mapping.from /\ target = mapping.to
  <2>1. mapping.from \in Names /\ mapping.to \in Names
    BY DEF Mappings
  <2> QED
    BY <2>1
<1>7. PICK tree \in Trees, body \in Trees : tree = payload /\ body = original
  <2>1. payload \in Trees /\ original \in Trees
    BY <1>1 DEF FieldInv
  <2> QED
    BY <2>1
<1>8. PICK new : new = SetPath(DelPath(tree, source), target, GetPath(tree, source))
  OBVIOUS
<1>9. Moves(tree, target, new)
  BY <1>8, MappingMoves
<1>10. payload' = tree \/ payload' = new
  BY <1>6, <1>7, <1>8 DEF Rename, Leave, Raise, Write
<1>11. payload' \in Trees /\ original' \in Trees
  BY <1>1, <1>7, <1>9, <1>10 DEF Moves
<1>12. n + 1 \in 1 .. n + 1 /\ \A i \in 1 .. n : i \in 1 .. n + 1 /\ i # n + 1
  OBVIOUS
<1>13. ASSUME NewTargets'
       PROVE  Contents(payload') = Contents(body) /\ Traced(longer, body, payload')
  <2>1. /\ \A e \in 1 .. n + 1, l \in Held(body) : ~ Overlaps(longer[e].to, l[1])
        /\ \A d, e \in 1 .. n + 1 : d # e => ~ Overlaps(longer[d].to, longer[e].to)
    <3>1. entries' = longer /\ original' = body
      BY <1>1, <1>2, <1>4, <1>7
    <3>2. Held(original)' = Held(body)
      BY <3>1 DEF Held
    <3>3. \A e, l : Overlaps(entries[e].to, l[1])' <=> Overlaps(longer[e].to, l[1])
      BY <3>1 DEF Overlaps, Under
    <3>4. \A d, e : Overlaps(entries[d].to, entries[e].to)' <=> Overlaps(longer[d].to, longer[e].to)
      BY <3>1 DEF Overlaps, Under
    <3> QED
      BY <1>5, <1>13, <3>1, <3>2, <3>3, <3>4 DEF NewTargets
  <2>2. NewTargets
    <3>1. /\ \A e \in 1 .. n, l \in Held(body) : ~ Overlaps(list[e].to, l[1])
          /\ \A d, e \in 1 .. n : d # e => ~ Overlaps(list[d].to, list[e].to)
      BY <1>5, <1>12, <2>1
    <3> QED
      BY <1>2, <1>5, <1>7, <3>1 DEF NewTargets
  <2>3. Contents(tree) = Contents(body) /\ Traced(list, body, tree)
    BY <1>1, <1>2, <1>7, <2>2 DEF FieldInv, RenameInv
  <2>4. ASSUME NEW l \in Held(tree) PROVE ~ Overlaps(target, l[1])
    <3>1. CASE \E o \in Held(body) : o[1] = l[1]
      BY <1>5, <1>6, <1>12, <2>1, <3>1
    <3>2. CASE \E e \in 1 .. n : Under(list[e].to, l[1])
      <4>1. PICK e \in 1 .. n : Under(list[e].to, l[1])
        BY <3>2
      <4>2. PICK p : p = list[e].to
        OBVIOUS
      <4>3. PICK r : r = l[1]
        OBVIOUS
      <4>4. ~ Overlaps(p, target) /\ Under(p, r)
        BY <1>5, <1>6, <1>12, <2>1, <4>1, <4>2, <4>3
      <4>5. PICK S : S = Segments \cup {Blank}
        OBVIOUS
      <4>6. p \in Seq(S) /\ target \in Seq(S) /\ r \in Seq(S)
        <5>1. list[e] \in Mappings
          BY <1>5
        <5>2. p \in Names
          BY <4>2, <5>1 DEF Mappings
        <5>3. l \in Seq(S) \X (Leaves \cup {Empty})
          BY <4>5 DEF Held, Trees
        <5> QED
          BY <4>3, <4>5, <5>2, <5>3, FieldAssumption
      <4>7. ~ Overlaps(target, r)
        BY <4>4, <4>6, PathsMeet
      <4> QED
        BY <4>3, <4>7
    <3> QED
      BY <1>3, <2>3, <3>1, <3>2 DEF Traced
  <2>5. Contents(new) = Contents(tree) /\ \A l \in Held(new) : l \in Held(tree) \/ Under(target, l[1])
    BY <1>9, <2>4 DEF Moves
  <2>6. \A l \in Held(tree) : \/ \E o \in Held(body) : o[1] = l[1]
                              \/ \E e \in 1 .. n + 1 : Under(longer[e].to, l[1])
    BY <1>3, <1>5, <1>12, <2>3 DEF Traced
  <2>7. Traced(longer, body, tree) /\ Traced(longer, body, new)
    BY <1>5, <1>6, <1>12, <2>5, <2>6 DEF Traced
  <2> QED
    BY <1>10, <2>3, <2>5, <2>7
<1>14. NewTargets' => RenameInv'
  <2>1. entries' = longer /\ original' = body
    BY <1>1, <1>2, <1>4, <1>7
  <2>2. /\ Contents(payload)' = Contents(payload') /\ Contents(original)' = Contents(body)
        /\ Traced(entries, original, payload)' <=> Traced(longer, body, payload')
    BY <2>1 DEF Contents, Held, Traced, Under
  <2> QED
    BY <1>13, <2>2 DEF RenameInv
<1>15. removals' \in Seq(Names) /\ named' \in Nat /\ entries' \in Seq(Mappings)
  BY <1>1, <1>2, <1>4, <1>5 DEF FieldInv
<1> QED
  BY <1>1, <1>11, <1>14, <1>15 DEF FieldInv

\* The invariant of the three says what is wanted of them.
LEMMA FieldInvSuffices ==
  ASSUME FieldInv
  PROVE  FieldsGetTheirValues
<1> SUFFICES ASSUME outcome = "fine"
             PROVE  /\ kind = "set" =>
                         Held(payload) = {l \in Held(Placed(entries, Base)) :
                                            \A r \in Range(removals) : ~ Under(r, l[1])}
                    /\ kind = "transform" /\ BlanksComeLast /\ (named > 0 \/ mode = "merge") =>
                         payload = Placed(entries, Base)
                    /\ kind = "rename_keys" /\ NewTargets => Contents(payload) = Contents(original)
  BY DEF FieldsGetTheirValues
<1>1. kind = "set" => Held(payload) = {l \in Held(Placed(entries, Base)) :
                                         \A r \in Range(removals) : ~ Under(r, l[1])}
  BY DEF FieldInv, SetInv, Unremoved
<1>2. ASSUME kind = "transform", BlanksComeLast, named > 0 \/ mode = "merge"
      PROVE  payload = Placed(entries, Base)
  <2>1. CASE named # 0
    BY <1>2, <2>1 DEF FieldInv, TransformInv
  <2>2. CASE named = 0
    <3>1. mode = "merge"
      BY <1>2, <2>2
    <3>2. Base = original /\ payload = original
      BY <1>2, <2>2, <3>1 DEF FieldInv, TransformInv, Base
    <3>3. entries \in Seq(Entries) /\ \A e \in 1 .. Len(entries) : entries[e].name = <<>>
      BY <1>2, <2>2 DEF FieldInv, CountInv
    <3> QED
      BY <3>2, <3>3, NothingPlaced
  <2> QED
    BY <2>1, <2>2
<1>3. kind = "rename_keys" /\ NewTargets => Contents(payload) = Contents(original)
  BY DEF FieldInv, RenameInv
<1> QED
  BY <1>1, <1>2, <1>3

\* The invariant is about the variables of these nodes.
LEMMA FieldKept ==
  ASSUME FieldInv, UNCHANGED fieldVars
  PROVE  FieldInv'
<1>1. /\ kind' = kind /\ original' = original /\ mode' = mode /\ entries' = entries /\ named' = named
      /\ removals' = removals /\ payload' = payload /\ outcome' = outcome
  BY DEF fieldVars
<1>2. /\ Placed(entries, Base)' = Placed(entries, Base) /\ Held(payload)' = Held(payload)
      /\ Contents(payload)' = Contents(payload) /\ Contents(original)' = Contents(original)
  BY <1>1 DEF Placed, Survives, Put, Overlaps, Under, Base, Held, Contents
<1>3. Unremoved(Placed(entries, Base), removals)' = Unremoved(Placed(entries, Base), removals)
  BY <1>1, <1>2 DEF Unremoved, Held, Range, Under
<1>4. SetInv' <=> SetInv
  BY <1>1, <1>2, <1>3 DEF SetInv
<1>5. /\ BlanksComeLast' <=> BlanksComeLast
      /\ CountInv' <=> CountInv
  BY <1>1 DEF BlanksComeLast, CountInv
<1>6. TransformInv' <=> TransformInv
  BY <1>1, <1>2, <1>5 DEF TransformInv
<1>7. NewTargets' <=> NewTargets
  BY <1>1 DEF NewTargets, Held, Overlaps, Under
<1>8. Traced(entries, original, payload)' <=> Traced(entries, original, payload)
  BY <1>1 DEF Traced, Held, Under
<1>9. RenameInv' <=> RenameInv
  BY <1>2, <1>8 DEF RenameInv
<1> QED
  BY <1>1, <1>4, <1>5, <1>6, <1>7, <1>9 DEF FieldInv
-----------------------------------------------------------------------------
(* text_splitter.                                                           *)

\* End and Length, of given ends of pieces.
EndOf(e, k) == IF k = 0 THEN 0 ELSE e[k]
Spread(e, from, to) == EndOf(e, to) - EndOf(e, from - 1)

\* Some pieces of a text that has these.
Chunk(e, q) == q \in Nat \X Nat /\ 1 <= q[1] /\ q[1] <= q[2] /\ q[2] <= Len(e)

\* A chunk may follow another.
Linked(e, o, p, q) ==
  /\ p[1] <= q[1] /\ q[1] <= p[2] + 1 /\ p[2] < q[2]
  /\ Spread(e, q[1], p[2]) <= o \/ (o > 0 /\ q[1] = p[2])
  /\ Spread(e, q[1], q[2]) > ChunkSize => o > 0 /\ q[2] = p[2] + 1

\* A chunk may come first.
Opening(e, q) == q[1] = 1 /\ Spread(e, q[1], q[2]) <= ChunkSize

Chunked(e, o, list) ==
  \A c \in 1 .. Len(list) :
    /\ Chunk(e, list[c])
    /\ c = 1 => Opening(e, list[c])
    /\ c > 1 => Linked(e, o, list[c - 1], list[c])

\* A chunk may come after these.
Fits(e, o, list, q) ==
  /\ Chunk(e, q)
  /\ list = <<>> => Opening(e, q)
  /\ list # <<>> => Linked(e, o, list[Len(list)], q)

\* The chunks so far are sound, and so is the current one, of which the code
\* knows the length.
TextInv ==
  /\ overlap \in Nat /\ overlap < ChunkSize
  /\ ends \in Seq(Nat) /\ first \in Nat /\ chunks \in Seq(Nat \X Nat)
  /\ current_len = Length(first, Pieces)
  /\ Chunked(ends, overlap, chunks)
  /\ ends = <<>> => first = 1 /\ chunks = <<>>
  /\ ends # <<>> => Fits(ends, overlap, chunks, <<first, Pieces>>)

\* A text and the same with one more piece, that ends at x.
Grown(e, x, f) ==
  /\ f \in Seq(Nat) /\ Len(f) = Len(e) + 1 /\ EndOf(f, Len(e) + 1) = x
  /\ \A k \in 0 .. Len(e) : EndOf(f, k) = EndOf(e, k) /\ EndOf(e, k) \in Nat

\* Sound chunks, of which this is the last.
ChunkedUpTo(e, o, t, q) ==
  t \in Seq(Nat \X Nat) /\ t # <<>> /\ t[Len(t)] = q /\ Chunked(e, o, t)

\* One more piece leaves the ends of the others where they were.
LEMMA EndsGrow ==
  ASSUME NEW e \in Seq(Nat), NEW x \in Nat, NEW f, f = Append(e, x)
  PROVE  Grown(e, x, f)
<1>1. PICK n \in Nat : n = Len(e)
  OBVIOUS
<1>2. f \in Seq(Nat) /\ Len(f) = n + 1 /\ f[n + 1] = x /\ \A i \in 1 .. n : f[i] = e[i] /\ e[i] \in Nat
  BY <1>1
<1>3. n + 1 # 0 /\ \A k \in 0 .. n : k = 0 \/ k \in 1 .. n
  OBVIOUS
<1> QED
  BY <1>1, <1>2, <1>3 DEF Grown, EndOf

\* And the chunks of them sound.
LEMMA LinksLast ==
  ASSUME NEW e \in Seq(Nat), NEW x \in Nat, NEW f, f = Append(e, x), NEW o
  PROVE  /\ \A q : Chunk(e, q) => Chunk(f, q)
         /\ \A q : Chunk(e, q) /\ Opening(e, q) => Opening(f, q)
         /\ \A p, q : Chunk(e, p) /\ Chunk(e, q) /\ Linked(e, o, p, q) => Linked(f, o, p, q)
<1>1. PICK n \in Nat : n = Len(e)
  OBVIOUS
<1>2. Len(f) = n + 1 /\ \A k \in 0 .. n : EndOf(f, k) = EndOf(e, k)
  <2>1. Grown(e, x, f)
    BY EndsGrow
  <2> QED
    BY <1>1, <2>1 DEF Grown
<1>3. ASSUME NEW q, Chunk(e, q)
      PROVE  q[1] \in Nat /\ q[2] \in Nat /\ q[2] \in 0 .. n /\ q[1] - 1 \in 0 .. n
  <2>1. q[1] \in Nat /\ q[2] \in Nat /\ 1 <= q[1] /\ q[1] <= q[2] /\ q[2] <= n
    BY <1>1, <1>3 DEF Chunk
  <2> QED
    BY <2>1
<1>4. \A p, q : Chunk(e, p) /\ Chunk(e, q) => Spread(f, q[1], p[2]) = Spread(e, q[1], p[2])
  BY <1>2, <1>3 DEF Spread
<1>5. \A q : Chunk(e, q) => Chunk(f, q)
  <2> TAKE q
  <2>1. ASSUME Chunk(e, q) PROVE q[2] <= n + 1
    BY <1>3, <2>1
  <2> QED
    BY <1>2, <2>1 DEF Chunk
<1> QED
  BY <1>4, <1>5 DEF Opening, Linked

\* So the chunks of a text are sound for a longer one.
LEMMA ChunkedLasts ==
  ASSUME NEW e \in Seq(Nat), NEW x \in Nat, NEW f, f = Append(e, x), NEW o,
         NEW list \in Seq(Nat \X Nat), Chunked(e, o, list)
  PROVE  Chunked(f, o, list)
<1>1. PICK m \in Nat : m = Len(list)
  OBVIOUS
<1>2. ASSUME NEW c \in 1 .. m, c > 1 PROVE c - 1 \in 1 .. m
  BY <1>2
<1>3. \A c \in 1 .. m : /\ Chunk(e, list[c])
                        /\ c = 1 => Opening(e, list[c])
                        /\ c > 1 => Linked(e, o, list[c - 1], list[c])
  BY <1>1 DEF Chunked
<1>4. \A c \in 1 .. m : /\ Chunk(f, list[c])
                        /\ c = 1 => Opening(f, list[c])
                        /\ c > 1 => Linked(f, o, list[c - 1], list[c])
  BY <1>2, <1>3, LinksLast
<1> QED
  BY <1>1, <1>4 DEF Chunked

\* A chunk that fits is added.
LEMMA ChunkedAppends ==
  ASSUME NEW e, NEW o, NEW list \in Seq(Nat \X Nat), Chunked(e, o, list),
         NEW q, Fits(e, o, list, q), NEW t, t = Append(list, q)
  PROVE  ChunkedUpTo(e, o, t, q)
<1>1. PICK m \in Nat : m = Len(list)
  OBVIOUS
<1>2. q \in Nat \X Nat
  BY DEF Fits, Chunk
<1>3. /\ t \in Seq(Nat \X Nat) /\ Len(t) = m + 1 /\ t[m + 1] = q
      /\ \A i \in 1 .. m : t[i] = list[i]
  BY <1>1, <1>2
<1>4. \A c \in 1 .. m + 1 : c = m + 1 \/ c \in 1 .. m
  OBVIOUS
<1>5. ASSUME NEW c \in 1 .. m
      PROVE  /\ Chunk(e, t[c])
             /\ c = 1 => Opening(e, t[c])
             /\ c > 1 => Linked(e, o, t[c - 1], t[c])
  <2>1. c > 1 => c - 1 \in 1 .. m
    OBVIOUS
  <2> QED
    BY <1>1, <1>3, <2>1 DEF Chunked
<1>6. /\ Chunk(e, q)
      /\ m + 1 = 1 => Opening(e, q)
      /\ m + 1 > 1 => Linked(e, o, t[m], q)
  <2>1. m + 1 = 1 => list = <<>>
    BY <1>1
  <2>2. m + 1 > 1 => list # <<>> /\ t[m] = list[m]
    BY <1>1, <1>3
  <2> QED
    BY <1>1, <2>1, <2>2 DEF Fits
<1>7. (m + 1) - 1 = m /\ t # <<>>
  BY <1>3
<1>8. \A c \in 1 .. m + 1 : /\ Chunk(e, t[c])
                            /\ c = 1 => Opening(e, t[c])
                            /\ c > 1 => Linked(e, o, t[c - 1], t[c])
  BY <1>3, <1>4, <1>5, <1>6, <1>7
<1> QED
  BY <1>3, <1>7, <1>8 DEF ChunkedUpTo, Chunked

\* _seed_with_overlap: the tail begins within the chunk and is within the overlap
\* or a single piece; without overlap there is none.
LEMMA SeedOK ==
  ASSUME NEW e \in Seq(Nat), e = ends, NEW n \in Nat, n = Len(e), NEW a \in Nat, a = first,
         NEW o \in Nat, o = overlap, 1 <= a, a <= n, NEW s, s = SeedWithOverlap
  PROVE  /\ s \in Nat /\ a <= s /\ s <= n + 1
         /\ Spread(e, s, n) <= o \/ s = n
         /\ o = 0 => s = n + 1
<1>1. CASE o = 0
  <2>1. s = n + 1
    BY <1>1 DEF SeedWithOverlap, Pieces
  <2>2. Spread(e, n + 1, n) = 0
    <3>1. (n + 1) - 1 = n /\ n # 0 /\ n \in 1 .. n
      OBVIOUS
    <3>2. EndOf(e, n) \in Nat
      BY <3>1 DEF EndOf
    <3> QED
      BY <3>1, <3>2 DEF Spread
  <2> QED
    BY <1>1, <2>1, <2>2
<1>2. CASE o # 0
  <2>1. PICK tails : tails = {j \in a .. n : j = n \/ Spread(e, j, n) <= o}
    OBVIOUS
  <2>2. tails \in SUBSET Nat /\ n \in tails
    BY <2>1
  <2>3. \E j \in tails : \A k \in tails : j <= k
    BY <2>2, FirstPlace
  <2>4. \A j : Length(j, Pieces) = Spread(e, j, n)
    BY DEF Length, Spread, End, EndOf, Pieces
  <2>5. s = CHOOSE j \in tails : \A k \in tails : j <= k
    <3>1. Pieces = n /\ \A j : Length(j, n) = Spread(e, j, n)
      BY <2>4 DEF Pieces
    <3>2. {j \in first .. Pieces : j = Pieces \/ Length(j, Pieces) <= overlap} = tails
      BY <2>1, <3>1
    <3> QED
      BY <1>2, <3>2 DEF SeedWithOverlap
  <2>6. s \in tails
    BY <2>3, <2>5
  <2>7. s \in a .. n /\ (s = n \/ Spread(e, s, n) <= o)
    BY <2>1, <2>6
  <2> QED
    BY <1>2, <2>7
<1> QED
  BY <1>1, <1>2

\* _merge: one more piece.
LEMMA MergePieceOK ==
  ASSUME TextInv, NEW length \in 1 .. ChunkSize, MergePiece(length)
  PROVE  TextInv'
<1>1. PICK e \in Seq(Nat) : e = ends
  BY DEF TextInv
<1>2. PICK n \in Nat : n = Len(e)
  OBVIOUS
<1>3. PICK a \in Nat : a = first
  BY DEF TextInv
<1>4. PICK o \in Nat : o = overlap /\ o < ChunkSize
  BY DEF TextInv
<1>5. PICK list \in Seq(Nat \X Nat) : list = chunks
  BY DEF TextInv
<1>6. \A i, j : Length(i, j) = Spread(e, i, j)
  BY <1>1 DEF Length, Spread, End, EndOf
<1>7. /\ current_len = Spread(e, a, n) /\ Chunked(e, o, list)
      /\ e = <<>> => a = 1 /\ list = <<>>
      /\ e # <<>> => Fits(e, o, list, <<a, n>>)
  BY <1>1, <1>2, <1>3, <1>4, <1>5, <1>6 DEF TextInv, Pieces
<1>8. PICK x : x = EndOf(e, n) + length
  OBVIOUS
<1>9. PICK f : f = Append(e, x)
  OBVIOUS
<1>10. ChunkSize \in Nat /\ length \in Nat /\ 1 <= length /\ length <= ChunkSize
  BY ChunkAssumption
<1>11. EndOf(e, n) \in Nat /\ x \in Nat
  <2>1. EndOf(e, n) \in Nat
    <3>1. n = 0 \/ (n # 0 /\ n \in 1 .. n)
      OBVIOUS
    <3> QED
      BY <1>2, <3>1 DEF EndOf
  <2> QED
    BY <1>8, <1>10, <2>1
<1>12. /\ f \in Seq(Nat) /\ Len(f) = n + 1 /\ EndOf(f, n + 1) = x
       /\ \A k \in 0 .. n : EndOf(f, k) = EndOf(e, k) /\ EndOf(e, k) \in Nat
  <2>1. x \in Nat
    BY <1>11
  <2>2. Grown(e, x, f)
    BY <1>9, <2>1, EndsGrow
  <2> QED
    BY <1>2, <2>2 DEF Grown
<1>13. Chunked(f, o, list)
  BY <1>7, <1>9, <1>11, ChunkedLasts
<1>14. /\ e = <<>> => n = 0
       /\ e # <<>> => 1 <= a /\ a <= n
  <2>1. e = <<>> => n = 0
    BY <1>2
  <2>2. e # <<>> => 1 <= a /\ a <= n
    BY <1>7 DEF Fits, Chunk
  <2> QED
    BY <2>1, <2>2
<1>15. ASSUME NEW s \in Nat, 1 <= s, s <= n + 1
       PROVE  /\ Spread(f, s, n + 1) = Spread(e, s, n) + length /\ Spread(e, s, n) \in Int
              /\ Chunk(f, <<s, n + 1>>)
  <2>1. s - 1 \in 0 .. n /\ n \in 0 .. n
    BY <1>15
  <2>2. EndOf(f, s - 1) = EndOf(e, s - 1) /\ EndOf(e, s - 1) \in Nat
    BY <1>12, <2>1
  <2>3. PICK y \in Nat, z \in Nat : y = EndOf(e, s - 1) /\ z = EndOf(e, n)
    BY <1>11, <2>2
  <2>4. Spread(f, s, n + 1) = (z + length) - y /\ Spread(e, s, n) = z - y
    BY <1>8, <1>12, <2>2, <2>3 DEF Spread
  <2>5. (z + length) - y = (z - y) + length /\ z - y \in Int
    BY <1>10
  <2>6. Chunk(f, <<s, n + 1>>)
    BY <1>12, <1>15 DEF Chunk
  <2> QED
    BY <2>4, <2>5, <2>6
<1>16. PICK full : full = (first <= Pieces /\ current_len + length > ChunkSize)
  OBVIOUS
<1>17. /\ ends' = f /\ overlap' = o
       /\ full <=> a <= n /\ Spread(e, a, n) + length > ChunkSize
       /\ full => chunks' = Append(list, <<a, n>>) /\ first' = SeedWithOverlap
       /\ ~ full => chunks' = list /\ first' = a
       /\ current_len' = Spread(e, first', n) + length
  <2>1. Pieces = n /\ End(Pieces) = EndOf(e, n)
    BY <1>1, <1>2 DEF Pieces, End, EndOf
  <2>2. /\ ends' = f /\ overlap' = o
        /\ full <=> a <= n /\ Spread(e, a, n) + length > ChunkSize
    BY <1>1, <1>3, <1>4, <1>7, <1>8, <1>9, <1>16, <2>1 DEF MergePiece
  <2>3. CASE full
    <3>1. /\ chunks' = Append(list, <<a, n>>) /\ first' = SeedWithOverlap
          /\ current_len' = Length(SeedWithOverlap, n) + length
      BY <1>3, <1>5, <1>16, <2>1, <2>3 DEF MergePiece
    <3> QED
      BY <1>6, <2>2, <2>3, <3>1
  <2>4. CASE ~ full
    <3>1. chunks' = list /\ first' = a /\ current_len' = current_len + length
      BY <1>3, <1>5, <1>16, <2>1, <2>4 DEF MergePiece
    <3> QED
      BY <1>7, <2>2, <2>4, <3>1
  <2> QED
    BY <2>3, <2>4
<1>18. /\ first' \in Nat /\ 1 <= first' /\ first' <= n + 1
       /\ chunks' \in Seq(Nat \X Nat) /\ Chunked(f, o, chunks')
       /\ Fits(f, o, chunks', <<first', n + 1>>)
  <2>1. CASE full
    <3>1. a <= n /\ e # <<>> /\ 1 <= a
      BY <1>7, <1>14, <1>17, <2>1
    <3>2. PICK s : s = first'
      OBVIOUS
    <3>3. /\ s \in Nat /\ a <= s /\ s <= n + 1
          /\ Spread(e, s, n) <= o \/ s = n
          /\ o = 0 => s = n + 1
      <4>1. s = SeedWithOverlap
        BY <1>17, <2>1, <3>2
      <4> QED
        BY <1>1, <1>2, <1>3, <1>4, <3>1, <4>1, SeedOK
    <3>4. 1 <= s
      BY <3>1, <3>3
    <3>5. PICK t, p : t = chunks' /\ p = <<a, n>> /\ t = Append(list, p)
      BY <1>17, <2>1
    <3>6. t \in Seq(Nat \X Nat) /\ t # <<>> /\ t[Len(t)] = p /\ Chunked(e, o, t)
      <4>1. Fits(e, o, list, p) /\ Chunked(e, o, list) /\ t = Append(list, p)
        BY <1>7, <3>1, <3>5
      <4>2. ChunkedUpTo(e, o, t, p)
        BY <4>1, ChunkedAppends
      <4> QED
        BY <4>2 DEF ChunkedUpTo
    <3>7. Chunked(f, o, t)
      BY <1>9, <1>11, <3>6, ChunkedLasts
    <3>8. Spread(f, s, n) = Spread(e, s, n)
      <4>1. s - 1 \in 0 .. n /\ n \in 0 .. n
        BY <3>3, <3>4
      <4> QED
        BY <1>12, <4>1 DEF Spread
    <3>9. PICK w \in Int : w = Spread(e, s, n) /\ Spread(f, s, n + 1) = w + length
      BY <1>15, <3>3, <3>4
    <3>10. w + length > ChunkSize => o > 0
      <4>1. ASSUME o = 0 PROVE w = 0
        <5>1. s = n + 1 /\ s - 1 = n
          BY <3>3, <4>1
        <5> QED
          BY <1>11, <3>9, <5>1 DEF Spread
      <4> QED
        BY <1>10, <4>1
    <3>11. n < n + 1 /\ a <= s /\ s <= n + 1 /\ (s = n => o > 0)
      BY <1>4, <3>3
    <3>12. Linked(f, o, p, <<s, n + 1>>)
      BY <3>3, <3>5, <3>8, <3>9, <3>10, <3>11 DEF Linked
    <3>13. Fits(f, o, t, <<s, n + 1>>)
      BY <1>15, <3>3, <3>4, <3>6, <3>12 DEF Fits
    <3> QED
      BY <3>2, <3>3, <3>4, <3>5, <3>6, <3>7, <3>13
  <2>2. CASE ~ full
    <3>1. 1 <= a /\ a <= n + 1
      BY <1>7, <1>14
    <3>2. PICK w \in Int : w = Spread(e, a, n) /\ Spread(f, a, n + 1) = w + length
      BY <1>15, <3>1
    <3>3. Spread(f, a, n + 1) <= ChunkSize
      <4>1. CASE e = <<>>
        <5>1. n = 0 /\ a = 1 /\ 1 - 1 = 0
          BY <1>7, <1>14, <4>1
        <5>2. w = 0
          BY <3>2, <5>1 DEF Spread, EndOf
        <5> QED
          BY <1>10, <3>2, <5>2
      <4>2. CASE e # <<>>
        <5>1. ~ (w + length > ChunkSize)
          BY <1>14, <1>17, <2>2, <3>2, <4>2
        <5> QED
          BY <1>10, <3>2, <5>1
      <4> QED
        BY <4>1, <4>2
    <3>4. PICK q : q = <<a, n + 1>>
      OBVIOUS
    <3>5. Chunk(f, q) /\ q[1] = a /\ q[2] = n + 1
      BY <1>15, <3>1, <3>4
    <3>6. ASSUME list = <<>> PROVE Opening(f, q)
      <4>1. a = 1
        BY <1>7, <3>6 DEF Fits, Opening
      <4> QED
        BY <3>3, <3>5, <4>1 DEF Opening
    <3>7. ASSUME list # <<>> PROVE Linked(f, o, list[Len(list)], q)
      <4>1. e # <<>> /\ Fits(e, o, list, <<a, n>>)
        BY <1>7, <3>7
      <4>2. PICK p : p = list[Len(list)]
        OBVIOUS
      <4>3. Chunk(e, p)
        <5>1. Len(list) \in 1 .. Len(list)
          BY <3>7
        <5> QED
          BY <1>7, <4>2, <5>1 DEF Chunked
      <4>4. PICK c \in Nat, d \in Nat : c = p[1] /\ d = p[2] /\ d <= n
        BY <1>2, <4>3 DEF Chunk
      <4>5. /\ c <= a /\ a <= d + 1 /\ d < n
            /\ Spread(e, a, d) <= o \/ (o > 0 /\ a = d)
        BY <3>7, <4>1, <4>2, <4>4 DEF Fits, Linked
      <4>6. Spread(f, a, d) = Spread(e, a, d)
        <5>1. a - 1 \in 0 .. n /\ d \in 0 .. n
          BY <3>1, <4>4
        <5> QED
          BY <1>12, <5>1 DEF Spread
      <4>7. d < n + 1
        BY <4>5
      <4>8. ~ (Spread(f, a, n + 1) > ChunkSize)
        BY <1>10, <3>2, <3>3
      <4>9. Linked(f, o, p, q)
        BY <3>5, <4>4, <4>5, <4>6, <4>7, <4>8 DEF Linked
      <4> QED
        BY <4>2, <4>9
    <3>8. Fits(f, o, list, q)
      BY <3>5, <3>6, <3>7 DEF Fits
    <3> QED
      BY <1>13, <1>17, <2>2, <3>1, <3>4, <3>8
  <2> QED
    BY <2>1, <2>2
<1>19. /\ current_len' = Length(first, Pieces)' /\ Pieces' = n + 1
  <2>1. Pieces' = n + 1
    BY <1>12, <1>17 DEF Pieces
  <2>2. Length(first, Pieces)' = Spread(f, first', n + 1)
    BY <1>17, <2>1 DEF Length, Spread, End, EndOf
  <2> QED
    BY <1>15, <1>17, <1>18, <2>1, <2>2
<1>20. /\ Chunked(ends, overlap, chunks)'
       /\ Fits(ends, overlap, chunks, <<first, Pieces>>)'
       /\ ends' # <<>>
  <2>1. Chunked(ends, overlap, chunks)' <=> Chunked(f, o, chunks')
    BY <1>17 DEF Chunked, Chunk, Opening, Linked, Spread, EndOf
  <2>2. Fits(ends, overlap, chunks, <<first, Pieces>>)' <=> Fits(f, o, chunks', <<first', n + 1>>)
    BY <1>17, <1>19 DEF Fits, Chunk, Opening, Linked, Spread, EndOf
  <2>3. f # <<>>
    BY <1>12
  <2> QED
    BY <1>17, <1>18, <2>1, <2>2, <2>3
<1>21. overlap' \in Nat /\ overlap' < ChunkSize /\ ends' \in Seq(Nat) /\ first' \in Nat /\ chunks' \in Seq(Nat \X Nat)
  BY <1>4, <1>12, <1>17, <1>18
<1> QED
  BY <1>19, <1>20, <1>21 DEF TextInv

\* The invariant says what is wanted of the chunks.
LEMMA TextInvSuffices ==
  ASSUME TextInv
  PROVE  ChunksCoverTheText
<1>1. PICK all : all = AllChunks
  OBVIOUS
<1>2. \A i, j : Length(i, j) = Spread(ends, i, j)
  BY DEF Length, Spread, End, EndOf
<1>3. /\ all \in Seq(Nat \X Nat) /\ Chunked(ends, overlap, all)
      /\ ends # <<>> => all # <<>> /\ all[Len(all)][2] = Pieces
  <2>1. CASE ends = <<>>
    <3>1. first = 1 /\ chunks = <<>> /\ Pieces = 0
      BY <2>1 DEF TextInv, Pieces
    <3>2. all = chunks
      BY <1>1, <3>1 DEF AllChunks
    <3> QED
      BY <2>1, <3>2 DEF TextInv
  <2>2. CASE ends # <<>>
    <3>1. PICK q : q = <<first, Pieces>>
      OBVIOUS
    <3>2. Fits(ends, overlap, chunks, q) /\ q[2] = Pieces
      BY <2>2, <3>1 DEF TextInv
    <3>3. first <= Pieces
      BY <3>1, <3>2 DEF Fits, Chunk, Pieces
    <3>4. all = Append(chunks, q)
      BY <1>1, <3>1, <3>3 DEF AllChunks
    <3>5. PICK list \in Seq(Nat \X Nat) : list = chunks /\ Chunked(ends, overlap, list)
      BY DEF TextInv
    <3>6. all \in Seq(Nat \X Nat) /\ all # <<>> /\ all[Len(all)] = q /\ Chunked(ends, overlap, all)
      <4>1. PICK e, o : e = ends /\ o = overlap
        OBVIOUS
      <4>2. Fits(e, o, list, q) /\ Chunked(e, o, list)
        BY <3>2, <3>5, <4>1
      <4>3. all = Append(list, q)
        BY <3>4, <3>5
      <4>4. ChunkedUpTo(e, o, all, q)
        BY <4>2, <4>3, ChunkedAppends
      <4> QED
        BY <4>1, <4>4 DEF ChunkedUpTo
    <3> QED
      BY <3>2, <3>6
  <2> QED
    BY <2>1, <2>2
<1>4. PICK m \in Nat : m = Len(all) /\ DOMAIN all = 1 .. m
  BY <1>3
<1>5. \A c \in 1 .. m : /\ Chunk(ends, all[c])
                        /\ c = 1 => Opening(ends, all[c])
                        /\ c > 1 => Linked(ends, overlap, all[c - 1], all[c])
  BY <1>3, <1>4 DEF Chunked
<1>6. ends # <<>> => all # <<>> /\ all[1][1] = 1 /\ all[Len(all)][2] = Pieces
  <2>1. ASSUME all # <<>> PROVE 1 \in 1 .. m
    BY <1>3, <1>4, <2>1
  <2> QED
    BY <1>3, <1>5, <2>1 DEF Opening
<1>7. \A c \in 1 .. m : all[c][1] <= all[c][2]
  BY <1>5 DEF Chunk
<1>8. ASSUME NEW c \in 2 .. m
      PROVE  Linked(ends, overlap, all[c - 1], all[c]) /\ c - 1 \in 1 .. m /\ c \in 1 .. m
  <2>1. c \in 1 .. m /\ c > 1 /\ c - 1 \in 1 .. m
    OBVIOUS
  <2> QED
    BY <1>5, <2>1
<1>9. ASSUME PiecesAreSmall
      PROVE  /\ \A c \in 1 .. m : Spread(ends, all[c][1], all[c][2]) <= ChunkSize
             /\ \A c \in 2 .. m : Spread(ends, all[c][1], all[c - 1][2]) <= overlap
  <2>1. PICK e \in Seq(Nat), o \in Nat : e = ends /\ o = overlap /\ o < ChunkSize
    <3>1. ends \in Seq(Nat) /\ overlap \in Nat /\ overlap < ChunkSize
      BY DEF TextInv
    <3> QED
      BY <3>1
  <2>2. \A k \in 1 .. Len(e) : Spread(e, k, k) <= ChunkSize - o /\ (o > 0 => Spread(e, k, k) <= o)
    BY <1>2, <1>9, <2>1 DEF PiecesAreSmall, Pieces
  <2>3. \A k \in 0 .. Len(e) : EndOf(e, k) \in Nat
    <3>1. \A k \in 0 .. Len(e) : k = 0 \/ k \in 1 .. Len(e)
      BY <2>1
    <3> QED
      BY <2>1, <3>1 DEF EndOf
  <2>4. ASSUME NEW c \in 2 .. m
        PROVE  /\ Spread(e, all[c][1], all[c - 1][2]) <= o
               /\ Spread(e, all[c][1], all[c][2]) <= ChunkSize
    <3>1. PICK p, q : p = all[c - 1] /\ q = all[c]
      OBVIOUS
    <3>2. Chunk(e, p) /\ Chunk(e, q) /\ Linked(e, o, p, q)
      BY <1>5, <1>8, <2>1, <3>1
    <3>3. p[1] \in Nat /\ p[2] \in Nat /\ q[1] \in Nat /\ q[2] \in Nat
      BY <3>2 DEF Chunk
    <3>4. PICK a \in Nat, b \in Nat, d \in Nat, k \in Nat : a = q[1] /\ b = q[2] /\ d = p[2] /\ k = Len(e)
      <4>1. Len(e) \in Nat
        OBVIOUS
      <4> QED
        BY <3>3, <4>1
    <3>5. 1 <= a /\ a <= b /\ b <= k /\ 1 <= d /\ d <= k /\ a <= d + 1 /\ d < b
      <4>1. 1 <= a /\ a <= b /\ b <= k /\ a <= d + 1 /\ d < b
        BY <3>2, <3>4 DEF Chunk, Linked
      <4>2. 1 <= p[1] /\ p[1] <= d /\ d <= k
        BY <3>2, <3>4 DEF Chunk
      <4> QED
        BY <3>3, <4>1, <4>2
    <3>6. a - 1 \in 0 .. k /\ b \in 0 .. k /\ d \in 0 .. k /\ d \in 1 .. k /\ b \in 1 .. k
      BY <3>5
    <3>7. PICK x \in Nat, y \in Nat, z \in Nat : x = EndOf(e, a - 1) /\ y = EndOf(e, d) /\ z = EndOf(e, b)
      BY <2>3, <3>4, <3>6
    <3>8. Spread(e, a, d) = y - x /\ Spread(e, a, b) = z - x
      BY <3>7 DEF Spread
    <3>9. y - x <= o
      <4>1. CASE Spread(e, a, d) <= o
        BY <3>8, <4>1
      <4>2. CASE o > 0 /\ a = d
        BY <2>2, <3>4, <3>6, <3>8, <4>2
      <4> QED
        BY <3>2, <3>4, <4>1, <4>2 DEF Linked
    <3>10. z - x <= ChunkSize
      <4>1. CASE z - x > ChunkSize
        <5>1. b = d + 1 /\ b - 1 = d
          BY <3>2, <3>3, <3>4, <3>8, <4>1 DEF Linked
        <5>2. z - y <= ChunkSize - o
          <6>1. Spread(e, b, b) = z - y
            BY <3>7, <5>1 DEF Spread
          <6> QED
            BY <2>2, <3>4, <3>6, <6>1
        <5> QED
          BY <3>9, <5>2, ChunkAssumption
      <4>2. CASE ~ (z - x > ChunkSize)
        BY <4>2, ChunkAssumption
      <4> QED
        BY <4>1, <4>2
    <3> QED
      BY <3>1, <3>4, <3>8, <3>9, <3>10
  <2>5. ASSUME NEW c \in 1 .. m PROVE Spread(e, all[c][1], all[c][2]) <= ChunkSize
    <3>1. CASE c = 1
      BY <1>5, <2>1, <3>1 DEF Opening
    <3>2. CASE c # 1
      <4>1. c \in 2 .. m
        BY <3>2
      <4> QED
        BY <2>4, <4>1
    <3> QED
      BY <3>1, <3>2
  <2> QED
    BY <2>1, <2>4, <2>5
<1>10. \A c \in 2 .. m : /\ all[c - 1][1] <= all[c][1]
                        /\ all[c][1] <= all[c - 1][2] + 1
                        /\ all[c - 1][2] < all[c][2]
  BY <1>8 DEF Linked
<1> QED
  BY <1>1, <1>2, <1>4, <1>6, <1>7, <1>9, <1>10 DEF ChunksCoverTheText

-----------------------------------------------------------------------------
(* The nodes together.                                                      *)

NodesInv == MergeInv /\ SwitchInv /\ CompareInv /\ FieldInv /\ TextInv

\* Every loop starts with nothing read and nothing computed.
LEMMA InitOK ==
  ASSUME Init
  PROVE  NodesInv
<1>1. MergeInit /\ SwitchInit /\ CompareInit /\ FieldInit /\ TextInit
  BY DEF Init
<1>2. MergeInv
  <2>1. /\ left = <<>> /\ right = <<>> /\ out = <<>>
        /\ index \in [Keys -> Seq(Nat)] /\ \A k \in Keys : index[k] = <<>>
    BY <1>1 DEF MergeInit
  <2>2. \A k \in Keys : Increasing(index[k]) /\ Range(index[k]) = {j \in 1 .. Len(right) : right[j] = k}
    BY <2>1 DEF Increasing, Range
  <2>3. Range(out) = {p \in (1 .. Len(left)) \X (1 .. Len(right)) : left[p[1]] = right[p[2]]}
    BY <2>1 DEF Range
  <2> QED
    BY <2>1, <2>2, <2>3 DEF MergeInv
<1>3. SwitchInv
  <2>1. /\ fallback \in Ports /\ routed = <<>>
        /\ buckets \in [Ports -> Seq(Nat)] /\ \A p \in Ports : buckets[p] = <<>>
    BY <1>1 DEF SwitchInit
  <2>2. PICK n \in 0 .. MaxCases : cases \in [1 .. n -> Cases]
    BY <1>1 DEF SwitchInit
  <2>3. cases \in Seq(Cases)
    BY <2>2, ItemAssumption
  <2>4. \A p \in Ports : /\ Increasing(buckets[p])
                         /\ Range(buckets[p]) = {i \in 1 .. Len(routed) : BelongsTo(routed[i], p)}
    BY <2>1 DEF Increasing, Range
  <2> QED
    BY <2>1, <2>3, <2>4 DEF SwitchInv
<1>4. CompareInv
  <2>1. PICK none : none = NoIndex
    OBVIOUS
  <2>2. none.order = <<>> /\ DOMAIN none.held = {}
    BY <2>1 DEF NoIndex
  <2>3. KeysOf(<<>>) = {} /\ Range(<<>>) = {} /\ IsInjective(<<>>)
    BY DEF KeysOf, Range, IsInjective
  <2>4. DictOf(<<>>, none)
    <3>1. <<>> \in Seq(Items) /\ <<>> \in Seq(Keys)
      OBVIOUS
    <3>2. /\ none.order \in Seq(Keys) /\ IsInjective(none.order)
          /\ Range(none.order) = {} /\ DOMAIN none.held = {}
      BY <2>2, <2>3, <3>1
    <3> QED
      BY <2>3, <3>1, <3>2 DEF DictOf
  <2>5. /\ input_a = <<>> /\ input_b = <<>> /\ left_index = none /\ right_index = none
        /\ seen_a = 0 /\ seen_b = 0 /\ ports = [p \in ComparePorts |-> <<>>]
    BY <1>1, <2>1 DEF CompareInit
  <2>6. ports \in [ComparePorts -> Seq(Keys)] /\ \A p \in ComparePorts : ports[p] = <<>>
    BY <2>5
  <2>7. /\ seen_a \in 0 .. Len(left_index.order) /\ seen_b \in 0 .. Len(right_index.order)
        /\ 1 .. seen_a = {} /\ 1 .. seen_b = {}
    BY <2>2, <2>5
  <2>8. \A p \in ComparePorts : IsInjective(ports[p]) /\ Range(ports[p]) = {}
    BY <2>3, <2>6
  <2>9. DictOf(input_a, left_index) /\ DictOf(input_b, right_index)
    BY <2>4, <2>5
  <2> QED
    BY <2>6, <2>7, <2>8, <2>9 DEF CompareInv, ComparePorts
<1>5. FieldInv
  <2>1. /\ kind \in {"set", "transform", "rename_keys"} /\ original \in Bodies
        /\ entries = <<>> /\ named = 0 /\ removals = <<>>
        /\ payload = IF kind = "set" THEN Base ELSE original
        /\ kind = "rename_keys" => payload = original
    BY <1>1 DEF FieldInit
  <2>2. /\ entries \in Seq(Entries) /\ entries \in Seq(Mappings) /\ Len(entries) = 0
        /\ removals \in Seq(Names) /\ Range(removals) = {} /\ \A e \in 1 .. Len(entries) : FALSE
    BY <2>1 DEF Range
  <2>3. original \in Trees
    BY <2>1, FieldAssumption
  <2>4. Placed(entries, Base) = Base
    BY <2>2, NothingPlaced
  <2>5. kind = "set" => SetInv
    BY <2>1, <2>2, <2>4 DEF SetInv, Unremoved
  <2>6. CountInv /\ (kind = "transform" => TransformInv)
    BY <2>1, <2>2 DEF CountInv, TransformInv
  <2>7. kind = "rename_keys" => RenameInv
    BY <2>1 DEF RenameInv, Traced
  <2> QED
    BY <2>1, <2>2, <2>3, <2>5, <2>6, <2>7 DEF FieldInv
<1>6. TextInv
  <2>1. overlap \in 0 .. ChunkSize - 1 /\ ends = <<>> /\ first = 1 /\ current_len = 0 /\ chunks = <<>>
    BY <1>1 DEF TextInit
  <2>2. overlap \in Nat /\ overlap < ChunkSize
    BY <2>1, ChunkAssumption
  <2>3. Pieces = 0 /\ Length(first, Pieces) = 0
    BY <2>1 DEF Pieces, Length, End
  <2>4. Chunked(ends, overlap, chunks)
    BY <2>1 DEF Chunked
  <2> QED
    BY <2>1, <2>2, <2>3, <2>4 DEF TextInv
<1> QED
  BY <1>2, <1>3, <1>4, <1>5, <1>6 DEF NodesInv

\* The switch's invariant is about its cases and buckets alone.
LEMMA SwitchKept ==
  ASSUME SwitchInv, UNCHANGED <<cases, fallback, routed, buckets>>
  PROVE  SwitchInv'
<1>1. cases' = cases /\ fallback' = fallback /\ routed' = routed /\ buckets' = buckets
  OBVIOUS
<1>2. \A i, p : BelongsTo(routed[i], p)' <=> BelongsTo(routed[i], p)
  BY <1>1 DEF BelongsTo, FirstMatch
<1>3. \A p : /\ Increasing(buckets[p])' <=> Increasing(buckets[p])
             /\ Range(buckets[p])' = Range(buckets[p])
  BY <1>1 DEF Increasing, Range
<1>4. \A p \in Ports : /\ Increasing(buckets[p])
                       /\ Range(buckets[p]) = {i \in 1 .. Len(routed) : BelongsTo(routed[i], p)}
  BY DEF SwitchInv
<1>5. \A p \in Ports : /\ Increasing(buckets[p])'
                       /\ Range(buckets[p])' = {i \in 1 .. Len(routed') : BelongsTo(routed[i], p)'}
  BY <1>1, <1>2, <1>3, <1>4
<1>6. /\ cases' \in Seq(Cases) /\ fallback' \in Ports
      /\ routed' \in Seq(FieldValues) /\ buckets' \in [Ports -> Seq(Nat)]
  BY <1>1 DEF SwitchInv
<1> QED
  BY <1>5, <1>6 DEF SwitchInv

\* The comparison's invariant is about its own variables.
LEMMA CompareKept ==
  ASSUME CompareInv, UNCHANGED compareVars
  PROVE  CompareInv'
<1>1. /\ input_a' = input_a /\ input_b' = input_b /\ ports' = ports
      /\ left_index' = left_index /\ right_index' = right_index
      /\ seen_a' = seen_a /\ seen_b' = seen_b
  BY DEF compareVars
<1>2. /\ DictOf(input_a, left_index)' <=> DictOf(input_a, left_index)
      /\ DictOf(input_b, right_index)' <=> DictOf(input_b, right_index)
  BY <1>1 DEF DictOf, KeysOf, LastWith, Range, IsInjective
<1>3. \A k : PortOf(k)' = PortOf(k) /\ (Has(left_index, k)' <=> Has(left_index, k))
  BY <1>1 DEF PortOf, Has
<1>4. \A p : Range(ports[p])' = Range(ports[p]) /\ (IsInjective(ports[p])' <=> IsInjective(ports[p]))
  BY <1>1 DEF Range, IsInjective
<1>5. DictOf(input_a, left_index)' /\ DictOf(input_b, right_index)'
  BY <1>2 DEF CompareInv
<1>6. /\ \A p \in {"a_only", "same", "diff"}, k \in Keys :
           k \in Range(ports[p])
             <=> PortOf(k) = p /\ \E i \in 1 .. seen_a : left_index.order[i] = k
      /\ \A k \in Keys :
           k \in Range(ports["b_only"])
             <=> ~ Has(left_index, k) /\ \E i \in 1 .. seen_b : right_index.order[i] = k
      /\ \A p \in ComparePorts : IsInjective(ports[p])
      /\ seen_a \in 0 .. Len(left_index.order) /\ seen_b \in 0 .. Len(right_index.order)
      /\ ports \in [ComparePorts -> Seq(Keys)]
  BY DEF CompareInv
<1>7. /\ \A p \in {"a_only", "same", "diff"}, k \in Keys :
           k \in Range(ports[p])'
             <=> PortOf(k)' = p /\ \E i \in 1 .. seen_a' : left_index'.order[i] = k
      /\ \A k \in Keys :
           k \in Range(ports["b_only"])'
             <=> ~ Has(left_index, k)' /\ \E i \in 1 .. seen_b' : right_index'.order[i] = k
      /\ \A p \in ComparePorts : IsInjective(ports[p])'
      /\ seen_a' \in 0 .. Len(left_index'.order) /\ seen_b' \in 0 .. Len(right_index'.order)
      /\ ports' \in [ComparePorts -> Seq(Keys)]
  BY <1>1, <1>3, <1>4, <1>6
<1> QED
  BY <1>5, <1>7 DEF CompareInv

\* A node does not disturb what another has computed.
LEMMA OthersKeepTheirs ==
  /\ MergeInv /\ UNCHANGED mergeVars => MergeInv'
  /\ SwitchInv /\ UNCHANGED switchVars => SwitchInv'
  /\ CompareInv /\ UNCHANGED compareVars => CompareInv'
  /\ FieldInv /\ UNCHANGED fieldVars => FieldInv'
  /\ TextInv /\ UNCHANGED textVars => TextInv'
<1>1. MergeInv /\ UNCHANGED mergeVars => MergeInv'
  BY SMTT(30) DEF MergeInv, mergeVars, Increasing, Before, Range
<1>2. SwitchInv /\ UNCHANGED switchVars => SwitchInv'
  BY SwitchKept DEF switchVars
<1>3. CompareInv /\ UNCHANGED compareVars => CompareInv'
  BY CompareKept
<1>4. FieldInv /\ UNCHANGED fieldVars => FieldInv'
  BY FieldKept
<1>5. TextInv /\ UNCHANGED textVars => TextInv'
  BY DEF TextInv, textVars, Length, End, Pieces, Chunked, Fits, Chunk, Opening, Linked, Spread, EndOf
<1> QED
  BY <1>1, <1>2, <1>3, <1>4, <1>5

\* A step of one loop keeps the invariants of all.
LEMMA NextOK ==
  ASSUME NodesInv, [Next]_vars
  PROVE  NodesInv'
<1>1. CASE Merge
  <2>1. PICK key \in Keys : IndexRight(key) \/ JoinLeft(key)
    BY <1>1 DEF Merge, MergeNext
  <2>2. MergeInv'
    BY <2>1, IndexRightOK, JoinLeftOK DEF NodesInv
  <2>3. UNCHANGED switchVars /\ UNCHANGED compareVars /\ UNCHANGED fieldVars /\ UNCHANGED textVars
    BY <1>1 DEF Merge
  <2> QED
    BY <2>2, <2>3, OthersKeepTheirs DEF NodesInv
<1>2. CASE Switch
  <2>1. PICK value \in FieldValues : RouteItem(value) \/ RouteRaises(value)
    BY <1>2 DEF Switch, SwitchNext
  <2>2. UNCHANGED mergeVars /\ UNCHANGED compareVars /\ UNCHANGED fieldVars /\ UNCHANGED textVars
    BY <1>2 DEF Switch
  <2>3. SwitchInv'
    <3>1. CASE RouteItem(value)
      BY <3>1, RouteItemOK DEF NodesInv
    <3>2. CASE RouteRaises(value)
      BY <3>2, SwitchKept DEF NodesInv, RouteRaises
    <3> QED
      BY <2>1, <3>1, <3>2
  <2> QED
    BY <2>2, <2>3, OthersKeepTheirs DEF NodesInv
<1>3. CASE CompareDatasets
  <2>1. CompareInv'
    <3>1. (\E item \in Items : ReadA(item) \/ ReadB(item)) \/ CompareKey \/ CollectB
      BY <1>3 DEF CompareDatasets, CompareNext
    <3> QED
      BY <3>1, ReadOK, CompareKeyOK, CollectBOK DEF NodesInv
  <2>2. UNCHANGED mergeVars /\ UNCHANGED switchVars /\ UNCHANGED fieldVars /\ UNCHANGED textVars
    BY <1>3 DEF CompareDatasets
  <2> QED
    BY <2>1, <2>2, OthersKeepTheirs DEF NodesInv
<1>4. CASE RewriteFields
  <2>1. FieldInv'
    <3>1. \/ \E entry \in Entries : Assign(entry) \/ Transform(entry)
          \/ \E path \in Names : Remove(path)
          \/ \E mapping \in Mappings : Rename(mapping)
      BY <1>4 DEF RewriteFields, FieldNext
    <3> QED
      BY <3>1, AssignOK, TransformOK, RemoveOK, RenameOK DEF NodesInv
  <2>2. UNCHANGED mergeVars /\ UNCHANGED switchVars /\ UNCHANGED compareVars /\ UNCHANGED textVars
    BY <1>4 DEF RewriteFields
  <2> QED
    BY <2>1, <2>2, OthersKeepTheirs DEF NodesInv
<1>5. CASE SplitText
  <2>1. TextInv'
    BY <1>5, MergePieceOK DEF NodesInv, SplitText, TextNext
  <2>2. UNCHANGED mergeVars /\ UNCHANGED switchVars /\ UNCHANGED compareVars /\ UNCHANGED fieldVars
    BY <1>5 DEF SplitText
  <2> QED
    BY <2>1, <2>2, OthersKeepTheirs DEF NodesInv
<1>6. CASE UNCHANGED vars
  <2>1. /\ UNCHANGED mergeVars /\ UNCHANGED switchVars /\ UNCHANGED compareVars
        /\ UNCHANGED fieldVars /\ UNCHANGED textVars
    BY <1>6 DEF vars
  <2> QED
    BY <2>1, OthersKeepTheirs DEF NodesInv
<1> QED
  BY <1>1, <1>2, <1>3, <1>4, <1>5, <1>6 DEF Next

\* So every loop keeps its invariant.
LEMMA InvHolds == Spec => []NodesInv
<1>1. Init => NodesInv
  BY InitOK
<1>2. NodesInv /\ [Next]_vars => NodesInv'
  BY NextOK
<1> QED
  BY <1>1, <1>2, PTL DEF Spec

\* merge by key joins the items that have the key as an inner join does, in the
\* order of the left input, and by position it pairs what both have:
\* _combine_by_key and _combine_by_position.
THEOREM MergeIsAJoin == Spec => []JoinsMatchTheKeys
<1>1. NodesInv => JoinsMatchTheKeys
  BY MergeInvSuffices DEF NodesInv
<1> QED
  BY <1>1, InvHolds, PTL

\* switch puts every item on the one port it belongs to, in order and once;
\* compare_datasets reports every key on the side or sides it is found on, once
\* and compared rightly if no input has it twice: whatever the cases, the relation
\* between values and the input.
THEOREM RoutingIsAlwaysExact == Spec => []RoutingIsExact
<1>1. NodesInv => RoutingIsExact
  BY SwitchInvSuffices, CompareInvSuffices DEF NodesInv, RoutingIsExact
<1> QED
  BY <1>1, InvHolds, PTL

\* set, with its removals, and transform, when no entry without a name comes before
\* one with a name, leave exactly the leaves that no later entry overwrites, buries
\* or removes, whatever the dotted paths; rename_keys to new places loses no value.
THEOREM FieldsAlwaysGetTheirValues == Spec => []FieldsGetTheirValues
<1>1. NodesInv => FieldsGetTheirValues
  BY FieldInvSuffices DEF NodesInv
<1> QED
  BY <1>1, InvHolds, PTL

\* The chunks of split_text cover the text without gap and go forward, for any
\* chunk_size, overlap and pieces; they keep to chunk_size and chunk_overlap if the
\* pieces are small or there is no overlap.
THEOREM ChunksAlwaysCoverTheText == Spec => []ChunksCoverTheText
<1>1. NodesInv => ChunksCoverTheText
  BY TextInvSuffices DEF NodesInv
<1> QED
  BY <1>1, InvHolds, PTL

=============================================================================
