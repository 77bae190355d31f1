----------------------------- MODULE LeaderLock -----------------------------
(***************************************************************************)
(* triggers/leader.py: RedisLeaderLock, the election of the instance whose *)
(* schedules fire (ActiveTriggerManager asks is_leader() on every tick of  *)
(* the scheduler).  The lock is one Redis key, SET NX EX by acquire,       *)
(* prolonged by refresh, deleted by release; every command is a step of    *)
(* its own, so GET and the EXPIRE or DELETE that follows it are not atomic.*)
(* What an instance believes (_held) is only updated by its own calls.     *)
(*                                                                         *)
(* Time is counted in ticks.  Redis and the caller that is to refresh      *)
(* "periodically from a background task" are outside the module.           *)
(***************************************************************************)
EXTENDS Integers

CONSTANTS
  Instance,      \* API instances, by instance_id
  NoOwner,       \* the key does not exist
  Ttl,           \* LEADER_LOCK_TTL_SECONDS, in ticks
  RefreshEvery,  \* the period of the caller's refresh(), in ticks
  Timely,        \* callers keep that period and commands take less than a tick
  MaxFailures    \* bound: commands that raise

ASSUME ConstantsAssumption ==
  /\ NoOwner \notin Instance
  /\ Ttl \in Nat /\ RefreshEvery \in Nat /\ 0 < RefreshEvery /\ RefreshEvery < Ttl
  /\ Timely \in BOOLEAN /\ MaxFailures \in Nat

VARIABLES
  owner,  \* the value of the key
  ttl,    \* ticks until the key expires
  held,   \* held[i]: instance i's _held
  pc,     \* the command instance i has yet to send, "idle" between calls
  age,    \* age[i]: ticks since the last acquire() or refresh(), at most Ttl
  failures

vars == <<owner, ttl, held, pc, age, failures>>

Init ==
  /\ owner = NoOwner /\ ttl = 0
  /\ held = [i \in Instance |-> FALSE]
  /\ pc = [i \in Instance |-> "idle"]
  /\ age = [i \in Instance |-> 0]
  /\ failures = 0

\* The call of instance i is over and leaves _held = h.
Returns(i, h) ==
  /\ held' = [held EXCEPT ![i] = h]
  /\ pc' = [pc EXCEPT ![i] = "idle"]

Sends(i, command) == pc' = [pc EXCEPT ![i] = command] /\ held' = held

\* Redis does not answer: the client raises.
Raises == failures < MaxFailures /\ failures' = failures + 1

Called(i) == age' = [age EXCEPT ![i] = 0]

-----------------------------------------------------------------------------
(* acquire                                                                  *)

\* SET NX EX, called directly or by a refresh that found no key.  An
\* instance that acquires what it already owns is told that it lost.
Acquire(i) ==
  /\ pc[i] \in {"idle", "acquire"}
  /\ \/ owner = NoOwner /\ owner' = i /\ ttl' = Ttl /\ Returns(i, TRUE)
     \/ owner # NoOwner /\ UNCHANGED <<owner, ttl>> /\ Returns(i, FALSE)
  /\ Called(i)
  /\ UNCHANGED failures

\* The command raises; the key may have been set all the same.
AcquireFails(i) ==
  /\ Raises /\ pc[i] \in {"idle", "acquire"}
  /\ \/ UNCHANGED <<owner, ttl>>
     \/ owner = NoOwner /\ owner' = i /\ ttl' = Ttl
  /\ Returns(i, FALSE)
  /\ Called(i)

-----------------------------------------------------------------------------
(* refresh                                                                  *)

\* Mutant: a key that has expired counts as lost.
RefreshGivesUp(i) ==
  /\ pc[i] = "idle"
  /\ \/ owner # i /\ Returns(i, FALSE)
     \/ owner = i /\ Sends(i, "expire")
  /\ Called(i)
  /\ UNCHANGED <<owner, ttl, failures>>

\* Mutant: _held is not cleared when somebody else owns the key.
RefreshKeepsBelief(i) ==
  /\ pc[i] = "idle"
  /\ \/ owner = NoOwner /\ Sends(i, "acquire")
     \/ owner \notin {NoOwner, i} /\ Returns(i, held[i])
     \/ owner = i /\ Sends(i, "expire")
  /\ Called(i)
  /\ UNCHANGED <<owner, ttl, failures>>

\* GET: nobody's key is acquired, somebody else's ends the leadership.
RefreshGet(i) ==
  /\ pc[i] = "idle"
  /\ \/ owner = NoOwner /\ Sends(i, "acquire")
     \/ owner \notin {NoOwner, i} /\ Returns(i, FALSE)
     \/ owner = i /\ Sends(i, "expire")
  /\ Called(i)
  /\ UNCHANGED <<owner, ttl, failures>>

\* GET raises: refresh() answers False, but _held keeps its value.
RefreshGetFails(i) ==
  /\ Raises /\ pc[i] = "idle"
  /\ Returns(i, held[i])
  /\ Called(i)
  /\ UNCHANGED <<owner, ttl>>

\* EXPIRE prolongs the key whoever owns it by now; the reply is not looked at.
RefreshExpire(i) ==
  /\ pc[i] = "expire"
  /\ ttl' = IF owner = NoOwner THEN ttl ELSE Ttl
  /\ Returns(i, TRUE)
  /\ UNCHANGED <<owner, age, failures>>

RefreshExpireFails(i) ==
  /\ Raises /\ pc[i] = "expire"
  /\ Returns(i, held[i])
  /\ UNCHANGED <<owner, ttl, age>>

-----------------------------------------------------------------------------
(* release                                                                  *)

\* Mutant: neither _held nor the owner of the key is checked.
ReleaseAnyKey(i) ==
  /\ pc[i] = "idle"
  /\ Sends(i, "delete")
  /\ UNCHANGED <<owner, ttl, age, failures>>

\* Does nothing unless _held; GET, and DELETE only the instance's own key.
ReleaseGet(i) ==
  /\ pc[i] = "idle" /\ held[i]
  /\ \/ owner = i /\ Sends(i, "delete")
     \/ owner # i /\ Returns(i, FALSE)
  /\ UNCHANGED <<owner, ttl, age, failures>>

\* The key DELETE meets may be a later owner's.
ReleaseDelete(i) ==
  /\ pc[i] = "delete"
  /\ owner' = NoOwner /\ ttl' = 0
  /\ Returns(i, FALSE)
  /\ UNCHANGED <<age, failures>>

ReleaseFails(i) ==
  /\ Raises
  /\ pc[i] = "delete" \/ (pc[i] = "idle" /\ held[i])
  /\ Returns(i, FALSE)
  /\ UNCHANGED <<owner, ttl, age>>

-----------------------------------------------------------------------------
(* The environment.                                                         *)

\* The process dies; its key remains until it expires.
Crash(i) ==
  /\ pc[i] # "down"
  /\ \E j \in Instance \ {i} : pc[j] # "down"
  /\ pc' = [pc EXCEPT ![i] = "down"]
  /\ held' = [held EXCEPT ![i] = FALSE]
  /\ UNCHANGED <<owner, ttl, age, failures>>

\* Every live instance that leads has called refresh() within the period,
\* and no call is in the middle of its commands.
OnTime ==
  \A i \in Instance :
    pc[i] \in {"idle", "down"} /\ (held[i] => age[i] < RefreshEvery)

\* A tick passes; the key goes with its last one.
Tick ==
  /\ Timely => OnTime
  /\ age' = [i \in Instance |-> IF age[i] < Ttl THEN age[i] + 1 ELSE age[i]]
  /\ ttl' = IF ttl > 0 THEN ttl - 1 ELSE 0
  /\ owner' = IF ttl <= 1 THEN NoOwner ELSE owner
  /\ UNCHANGED <<held, pc, failures>>

-----------------------------------------------------------------------------
RefreshAcquire(i) == pc[i] = "acquire" /\ Acquire(i)

Command(i) ==
  \/ Acquire(i) \/ AcquireFails(i)
  \/ RefreshGet(i) \/ RefreshGetFails(i) \/ RefreshExpire(i) \/ RefreshExpireFails(i)
  \/ ReleaseGet(i) \/ ReleaseDelete(i) \/ ReleaseFails(i)

Next == Tick \/ \E i \in Instance : Command(i) \/ Crash(i)

\* Time passes, and a live instance goes on calling refresh() and finishes
\* the calls it began.
Fairness ==
  /\ SF_vars(Tick)
  /\ \A i \in Instance :
       /\ WF_vars(RefreshGet(i)) /\ WF_vars(RefreshAcquire(i))
       /\ WF_vars(RefreshExpire(i)) /\ WF_vars(ReleaseDelete(i))

Spec == Init /\ [][Next]_vars /\ Fairness

-----------------------------------------------------------------------------
(* Properties.                                                              *)

\* The type of the state.
TypeOK ==
  /\ owner \in Instance \cup {NoOwner} /\ ttl \in 0 .. Ttl
  /\ held \in [Instance -> BOOLEAN] /\ age \in [Instance -> 0 .. Ttl]
  /\ pc \in [Instance -> {"idle", "acquire", "expire", "delete", "down"}]
  /\ failures \in Nat

\* leader.py: "Only one instance of Weftlyflow should own active-trigger state
\* at a time"; no two instances answer True to is_leader().
AtMostOneLeader == \A i, j \in Instance : held[i] /\ held[j] => i = j

\* GET and the command after it are not atomic, and a dead leader's key lives
\* on; still, as long as Redis has answered every command and refresh() came
\* in time, the beliefs of the instances never overlap.
NoSplitBrain == failures = 0 => AtMostOneLeader

\* An outage may leave two instances that both believe they lead; once Redis
\* answers again, the refresh() of the one that lost the key puts an end to it.
SplitBrainHeals == <>[]AtMostOneLeader

\* After a crash or a release the leadership is taken up again: the key of a
\* dead leader expires and refresh() of the others acquires it.
LeadershipIsRegained == []<>(\E i \in Instance : held[i])
=============================================================================
