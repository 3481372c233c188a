----------------------------- MODULE MCTaskBudget -----------------------------
(***************************************************************************)
(* Instances of TaskBudget for TLC.                                        *)
(***************************************************************************)
EXTENDS TaskBudget, TLC

CONSTANTS strict, lenient

(* Two agents with different caps sharing the tasks.                        *)
TwoCaps == (strict :> 2) @@ (lenient :> 3)

=============================================================================
