----------------------------- MODULE AlertMailbox -----------------------------
(***************************************************************************)
(* What the alert dispatcher promises about one delivery, an alert for one *)
(* destination (src/internal/alert/dispatcher.go): it is taken or dropped  *)
(* at once, and one that was taken ends once, delivered or failed.         *)
(***************************************************************************)
CONSTANT Jobs

VARIABLE fate   \* where each delivery stands

Init == fate = [j \in Jobs |-> "none"]

Take(j)  == fate[j] = "none" /\ fate' = [fate EXCEPT ![j] = "queued"]
Drop(j)  == fate[j] = "none" /\ fate' = [fate EXCEPT ![j] = "dropped"]
End(j)   == /\ fate[j] = "queued"
            /\ \E f \in {"delivered", "failed"} : fate' = [fate EXCEPT ![j] = f]

Next == \E j \in Jobs : Take(j) \/ Drop(j) \/ End(j)

Spec == Init /\ [][Next]_fate

=============================================================================
