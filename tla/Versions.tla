-------------------------------- MODULE Versions --------------------------------
(***************************************************************************)
(* Semantic versions and their precedence (src/internal/upgrade/version.go *)
(* and policy.go).                                                         *)
(*                                                                         *)
(* An identifier of a prerelease is numeric, and has a value, when         *)
(* parseNumericIdentifier accepts it; any other is represented by its rank *)
(* in the order of strings.                                                *)
(***************************************************************************)
EXTENDS Integers, Sequences

Identifier == [numeric : BOOLEAN, value : Nat]
Version    == [major : Nat, minor : Nat, patch : Nat, pre : Seq(Identifier)]

Stable(major, minor, patch) == [major |-> major, minor |-> minor, patch |-> patch, pre |-> <<>>]

CompareInt(a, b) == IF a < b THEN -1 ELSE IF a > b THEN 1 ELSE 0

(* Numbers come before words.                                               *)
CompareIdentifier(a, b) ==
  IF a.numeric = b.numeric THEN CompareInt(a.value, b.value)
  ELSE IF a.numeric THEN -1 ELSE 1

(* A release comes after its prereleases; of two of them the first          *)
(* identifier that differs decides, and then the length.                    *)
ComparePrerelease(a, b) ==
  LET shared  == {i \in DOMAIN a : i \in DOMAIN b}
      differ  == {i \in shared : a[i] # b[i]}
      isFirst(i) == i \in differ /\ \A j \in differ : i <= j
  IN IF a = b THEN 0
     ELSE IF a = <<>> THEN 1
     ELSE IF b = <<>> THEN -1
     ELSE IF differ = {} THEN CompareInt(Len(a), Len(b))
     ELSE LET i == CHOOSE i \in differ : isFirst(i)
          IN CompareIdentifier(a[i], b[i])

Compare(a, b) ==
  IF a.major # b.major THEN CompareInt(a.major, b.major)
  ELSE IF a.minor # b.minor THEN CompareInt(a.minor, b.minor)
  ELSE IF a.patch # b.patch THEN CompareInt(a.patch, b.patch)
  ELSE ComparePrerelease(a.pre, b.pre)

IsStable(v) == v.pre = <<>>

(* What the dashboard may offer.                                            *)
IsUpgrade(current, latest) == IsStable(latest) /\ Compare(latest, current) > 0

=============================================================================
