------------------------------- MODULE MCUpgrade -------------------------------
(***************************************************************************)
(* Instances of Upgrade for TLC.                                           *)
(***************************************************************************)
EXTENDS Upgrade

Word(rank)   == [numeric |-> FALSE, value |-> rank]
Number(n)    == [numeric |-> TRUE, value |-> n]
Candidate(v, pre) == [v EXCEPT !.pre = pre]

(* A candidate of the first release is installed.                           *)
V2 == Stable(1, 1, 0)
V1 == Candidate(V2, <<Word(1), Number(1)>>)
V3 == Stable(1, 1, 1)

TwoReleases == {V2, V3}

(* The first upload of V3 holds another binary.                             *)
WrongBinary == {[of |-> V3, build |-> 1]}

(* Compare (version.go:143-210) orders versions, those with prereleases     *)
(* too: it has no cycle, and what it calls equal is the same version.       *)
Prereleases == UNION {[1 .. n -> {Word(1), Number(0), Number(1)}] : n \in 0 .. 2}
Samples     == {Candidate(v, pre) : v \in {V2, V3}, pre \in Prereleases}

ASSUME VersionsAreOrdered ==
  \A a, b \in Samples :
    /\ Compare(a, b) = -Compare(b, a)
    /\ Compare(a, b) = 0 => a = b
    /\ \A c \in Samples : Compare(a, b) <= 0 /\ Compare(b, c) <= 0 => Compare(a, c) <= 0

=============================================================================
