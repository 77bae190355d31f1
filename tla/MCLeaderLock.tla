---------------------------- MODULE MCLeaderLock ----------------------------
(***************************************************************************)
(* Instances of LeaderLock for TLC.  The key lives three ticks and is      *)
(* refreshed every tick, or every second one: triggers/constants.py has    *)
(* 30 seconds and 10.                                                      *)
(***************************************************************************)
EXTENDS LeaderLock

CONSTANTS i1, i2, i3

TwoInstances == {i1, i2}
ThreeInstances == {i1, i2, i3}
=============================================================================
