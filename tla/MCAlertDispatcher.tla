-------------------------- MODULE MCAlertDispatcher ---------------------------
(***************************************************************************)
(* Instances of AlertDispatcher for TLC.                                   *)
(***************************************************************************)
EXTENDS AlertDispatcher, TLC

CONSTANTS warning, again, kill, fifty

(* Two reports of one threshold and an alert of another type.               *)
TwoOfThree == (warning :> fifty) @@ (again :> fifty) @@ (kill :> None)

(* The two reports are interchangeable: warning is dispatched first.        *)
InOrder == pc[again] # "new" => pc[warning] # "new"

MCSpec == Init /\ [][Next /\ InOrder']_vars /\ Fairness

=============================================================================
