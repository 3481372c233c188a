---------------------------- MODULE MCAgentBudget -----------------------------
(***************************************************************************)
(* Instances of AgentBudget for TLC.                                       *)
(***************************************************************************)
EXTENDS AgentBudget, TLC

CONSTANT found

Kills == [limit |-> 1, period |-> 2, action |-> "kill", downgrade |-> 80, alerts |-> {50, 100}]
Unset == [limit |-> 2, period |-> 1, action |-> "unset", downgrade |-> 0, alerts |-> {}]

(* What a PUT without the optional fields sets.                             *)
ThePolicies == {Unset}
(* The agent is discovered, or an edited file lists it.                     *)
TheConfigs == {[a \in {} |-> Kills], [a \in {found} |-> Kills]}

(* Where flushes cross: another policy, and nothing in the file.            *)
Daily == [Kills EXCEPT !.period = 1]
NoConfig == {[a \in {} |-> Daily]}

(* A copy is written before anything else happens.  Only a restart reads    *)
(* the rows, so a lone flush that writes later shows memory nothing else,   *)
(* and one that fails leaves rows and memory as no flush at all does; the   *)
(* flag it lowers, only CleanIsSafe reads.                                  *)
PromptNext ==
  \/ (\A f \in Flushers : copies[f] = NoCopies) /\ Next
  \/ \E f \in Flushers, a \in Agents : StoreCopy(f, a)

PromptSpec == Init /\ [][PromptNext]_vars

Symmetry == Permutations(Flushers)

=============================================================================
