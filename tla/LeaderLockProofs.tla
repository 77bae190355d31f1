------------------------- MODULE LeaderLockProofs -------------------------
(***************************************************************************)
(* While Redis answers and every leader refreshes in time, no two instances*)
(* lead, whatever their number, the TTL and the refresh period are.  The   *)
(* inductive invariant says how much of the key's life is left: as much as *)
(* the leader's last call is ago, at least.                                *)
(***************************************************************************)
EXTENDS LeaderLock, TLAPS

\* Initial states have the declared type.
LEMMA InitTypeOK == Init => TypeOK
  BY ConstantsAssumption DEF Init, TypeOK

\* Every step keeps the type.
LEMMA NextTypeOK == TypeOK /\ [Next]_vars => TypeOK'
<1> SUFFICES ASSUME TypeOK, [Next]_vars PROVE TypeOK'
  OBVIOUS
<1> USE ConstantsAssumption DEF TypeOK, Returns, Sends, Called, Raises
<1>1. CASE Tick
  BY <1>1 DEF Tick, OnTime
<1>2. CASE \E i \in Instance : Acquire(i)
  <2> PICK i \in Instance : Acquire(i)
    BY <1>2
  <2>1. age' \in [Instance -> 0 .. Ttl] /\ failures' \in Nat
    BY DEF Acquire
  <2>2. owner' \in Instance \cup {NoOwner} /\ ttl' \in 0 .. Ttl
    BY DEF Acquire
  <2>3. held' \in [Instance -> BOOLEAN]
    BY DEF Acquire
  <2>4. pc' \in [Instance -> {"idle", "acquire", "expire", "delete", "down"}]
    BY DEF Acquire
  <2>5. QED
    BY <2>1, <2>2, <2>3, <2>4
<1>3. CASE \E i \in Instance : AcquireFails(i)
  BY <1>3 DEF AcquireFails
<1>4. CASE \E i \in Instance : RefreshGet(i)
  <2> PICK i \in Instance : RefreshGet(i)
    BY <1>4
  <2>1. age' \in [Instance -> 0 .. Ttl] /\ failures' \in Nat
    BY DEF RefreshGet
  <2>2. owner' \in Instance \cup {NoOwner} /\ ttl' \in 0 .. Ttl
    BY DEF RefreshGet
  <2>3. held' \in [Instance -> BOOLEAN]
    BY DEF RefreshGet
  <2>4. pc' \in [Instance -> {"idle", "acquire", "expire", "delete", "down"}]
    BY DEF RefreshGet
  <2>5. QED
    BY <2>1, <2>2, <2>3, <2>4
<1>5. CASE \E i \in Instance : RefreshGetFails(i)
  BY <1>5 DEF RefreshGetFails
<1>6. CASE \E i \in Instance : RefreshExpire(i)
  BY <1>6 DEF RefreshExpire
<1>7. CASE \E i \in Instance : RefreshExpireFails(i)
  BY <1>7 DEF RefreshExpireFails
<1>8. CASE \E i \in Instance : ReleaseGet(i)
  BY <1>8 DEF ReleaseGet
<1>9. CASE \E i \in Instance : ReleaseDelete(i)
  BY <1>9 DEF ReleaseDelete
<1>10. CASE \E i \in Instance : ReleaseFails(i)
  BY <1>10 DEF ReleaseFails
<1>11. CASE \E i \in Instance : Crash(i)
  BY <1>11 DEF Crash
<1>12. CASE UNCHANGED vars
  BY <1>12 DEF vars
<1>13. QED
  BY <1>1, <1>2, <1>3, <1>4, <1>5, <1>6, <1>7, <1>8, <1>9, <1>10, <1>11,
     <1>12 DEF Next, Command

\* The state has its type for every number of instances, failures and every
\* period, timely or not.
THEOREM TypeCorrect == Spec => []TypeOK
<1>1. QED
  BY InitTypeOK, NextTypeOK, PTL DEF Spec

-----------------------------------------------------------------------------
\* An instance that believes it leads owns the key, and so does one that is
\* about to prolong or to delete it.
BeliefIsRight ==
  \A i \in Instance :
    /\ held[i] \/ pc[i] \in {"expire", "delete"} => owner = i
    /\ pc[i] \in {"acquire", "down"} => ~held[i]

\* The key of an idle leader cannot expire before its next refresh is due.
KeyOutlivesPeriod ==
  /\ owner # NoOwner => ttl > 0
  /\ \A i \in Instance :
       held[i] /\ pc[i] = "idle" => age[i] <= RefreshEvery /\ ttl + age[i] >= Ttl
  /\ \A i \in Instance : pc[i] = "expire" => age[i] = 0

LeaderInv == failures = 0 => BeliefIsRight /\ KeyOutlivesPeriod

\* Initially there is no key and no leader.
LEMMA InitLeaderInv == Init => LeaderInv
  BY DEF Init, LeaderInv, BeliefIsRight, KeyOutlivesPeriod

\* On time, every step but a failing command keeps belief and key together.
LEMMA NextLeaderInv ==
  ASSUME Timely, TypeOK, LeaderInv, [Next]_vars
  PROVE  LeaderInv'
<1> USE ConstantsAssumption
    DEF TypeOK, LeaderInv, BeliefIsRight, KeyOutlivesPeriod, Returns, Sends, Called,
        Raises
<1>1. CASE Tick
  BY <1>1 DEF Tick, OnTime
<1>2. CASE \E i \in Instance : Acquire(i)
  BY <1>2 DEF Acquire
<1>3. CASE \E i \in Instance : AcquireFails(i)
  BY <1>3 DEF AcquireFails
<1>4. CASE \E i \in Instance : RefreshGet(i)
  BY <1>4 DEF RefreshGet
<1>5. CASE \E i \in Instance : RefreshGetFails(i)
  BY <1>5 DEF RefreshGetFails
<1>6. CASE \E i \in Instance : RefreshExpire(i)
  BY <1>6 DEF RefreshExpire
<1>7. CASE \E i \in Instance : RefreshExpireFails(i)
  BY <1>7 DEF RefreshExpireFails
<1>8. CASE \E i \in Instance : ReleaseGet(i)
  BY <1>8 DEF ReleaseGet
<1>9. CASE \E i \in Instance : ReleaseDelete(i)
  BY <1>9 DEF ReleaseDelete
<1>10. CASE \E i \in Instance : ReleaseFails(i)
  BY <1>10 DEF ReleaseFails
<1>11. CASE \E i \in Instance : Crash(i)
  BY <1>11 DEF Crash
<1>12. CASE UNCHANGED vars
  BY <1>12 DEF vars
<1>13. QED
  BY <1>1, <1>2, <1>3, <1>4, <1>5, <1>6, <1>7, <1>8, <1>9, <1>10, <1>11,
     <1>12 DEF Next, Command

\* With timely refreshes there is at most one leader until a command fails.
THEOREM OneLeader ==
  ASSUME Timely PROVE Spec => []NoSplitBrain
<1>1. TypeOK /\ LeaderInv /\ [Next]_vars => LeaderInv'
  BY NextLeaderInv
<1>2. LeaderInv => NoSplitBrain
  BY DEF LeaderInv, BeliefIsRight, NoSplitBrain, AtMostOneLeader
<1>3. QED
  BY <1>1, <1>2, InitTypeOK, NextTypeOK, InitLeaderInv, PTL DEF Spec
=============================================================================
