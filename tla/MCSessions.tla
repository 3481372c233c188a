------------------------------ MODULE MCSessions ------------------------------
(***************************************************************************)
(* Instances of Sessions for TLC.                                          *)
(***************************************************************************)
EXTENDS Sessions, TLC

CONSTANTS ann, bob, c1, c2, c3, c4

Symmetry == Permutations(Calls) \cup Permutations(People)

=============================================================================
