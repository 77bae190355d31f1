----------------------- MODULE MCExecutionDispatch -----------------------
(***************************************************************************)
(* Instances of ExecutionDispatch for TLC: the .cfg files choose the       *)
(* faults.                                                                 *)
(***************************************************************************)
EXTENDS ExecutionDispatch

CONSTANTS w1, w2, e1

TwoWorkers == {w1, w2}
OneExecution == {e1}
=============================================================================
