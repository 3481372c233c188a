--------------------------- MODULE AgentBudgetProofs ---------------------------
(***************************************************************************)
(* Theorems about AgentBudget, for any agents, policies, costs, limits and *)
(* windows.  The first part proves what sums over finite sets satisfy.     *)
(***************************************************************************)
EXTENDS AgentBudget, FiniteSetTheorems, WellFoundedInduction, TLAPS

(* Induction, for a property given as the set of what has it.               *)
LEMMA NatSet ==
  ASSUME NEW G, 0 \in G, \A n \in Nat : n \in G => n + 1 \in G
  PROVE  \A n \in Nat : n \in G
<1> DEFINE R == {ss \in Nat \X Nat : ss[1] < ss[2]}
<1> DEFINE T == Nat \ G
<1>1. IsWellFoundedOn(R, Nat)
  BY NatLessThanWellFounded DEF OpToRel
<1> SUFFICES ASSUME T # {} PROVE FALSE
  OBVIOUS
<1>2. PICK m \in T : \A k \in T : <<k, m>> \notin R
  <2> HIDE DEF R
  <2> QED BY <1>1, WFMin
<1>3. m \in Nat /\ m # 0 /\ m - 1 \in Nat
  OBVIOUS
<1>4. m - 1 \in T
  <2>1. m - 1 \in G => (m - 1) + 1 \in G
    BY <1>3
  <2> QED BY <1>3, <2>1
<1>5. <<m - 1, m>> \in R
  BY <1>3
<1> QED
  BY <1>2, <1>4, <1>5

LEMMA SetInduction ==
  ASSUME NEW S, IsFiniteSet(S), NEW G, {} \in G,
         \A T \in SUBSET S : T # {} /\ (\A x \in T : T \ {x} \in G) => T \in G
  PROVE  S \in G
<1> DEFINE H == {n \in Nat : \A T \in SUBSET S : Cardinality(T) = n => T \in G}
<1>1. 0 \in H
  BY FS_Subset, FS_EmptySet
<1>2. ASSUME NEW n \in Nat, n \in H PROVE n + 1 \in H
  <2> SUFFICES ASSUME NEW T \in SUBSET S, Cardinality(T) = n + 1 PROVE T \in G
    OBVIOUS
  <2>1. IsFiniteSet(T) /\ T # {}
    BY FS_Subset, FS_EmptySet
  <2>2. ASSUME NEW x \in T PROVE Cardinality(T \ {x}) = n
    <3>1. Cardinality(T \ {x}) = Cardinality(T) - 1
      BY <2>1, FS_RemoveElement
    <3> QED BY <3>1
  <2>3. \A x \in T : T \ {x} \in G
    BY <1>2, <2>2
  <2> QED BY <2>1, <2>3
<1>3. \A n \in Nat : n \in H
  <2> HIDE DEF H
  <2> QED BY <1>1, <1>2, NatSet
<1> QED
  BY <1>3, FS_CardinalityType

-----------------------------------------------------------------------------
(* Sums over finite sets, by the definition of the fold they are.           *)

Pick(s) == CHOOSE x \in s : TRUE
Adds(g, f, S) == g = [s \in SUBSET S |-> IF s = {} THEN 0 ELSE f[Pick(s)] + g[s \ {Pick(s)}]]
Adder(f, S) == CHOOSE g : Adds(g, f, S)

LEMMA SumIsFold ==
  ASSUME NEW f, NEW S
  PROVE  Sum(f, S) = Adder(f, S)[S]
BY DEF Sum, MapThenSumSet, MapThenFoldSet, Adder, Adds, Pick

LEMMA PickLess ==
  ASSUME NEW S, IsFiniteSet(S), NEW s \in SUBSET S, s # {}
  PROVE  /\ Pick(s) \in s /\ Pick(s) \in S /\ s \ {Pick(s)} \in SUBSET S
         /\ Cardinality(s) \in Nat /\ Cardinality(s \ {Pick(s)}) = Cardinality(s) - 1
<1>1. Pick(s) \in s
  BY DEF Pick
<1>2. IsFiniteSet(s) /\ Cardinality(s) \in Nat
  BY FS_Subset, FS_CardinalityType
<1>3. Cardinality(s \ {Pick(s)}) = Cardinality(s) - 1
  BY <1>1, <1>2, FS_RemoveElement
<1> QED
  BY <1>1, <1>2, <1>3

(* At most one function adds, also over a part of the set.                  *)
LEMMA AddsSame ==
  ASSUME NEW S, IsFiniteSet(S), NEW T \in SUBSET S, NEW f, NEW g, NEW h, Adds(g, f, S), Adds(h, f, T)
  PROVE  \A s \in SUBSET T : g[s] = h[s]
<1> DEFINE G == {n \in Nat : \A s \in SUBSET T : Cardinality(s) = n => g[s] = h[s]}
<1>1. \A s \in SUBSET T : /\ s \in SUBSET S
                          /\ g[s] = IF s = {} THEN 0 ELSE f[Pick(s)] + g[s \ {Pick(s)}]
                          /\ h[s] = IF s = {} THEN 0 ELSE f[Pick(s)] + h[s \ {Pick(s)}]
  BY DEF Adds
<1>2. 0 \in G
  <2> SUFFICES ASSUME NEW s \in SUBSET T, Cardinality(s) = 0 PROVE g[s] = h[s]
    OBVIOUS
  <2>1. s = {}
    BY FS_Subset, FS_EmptySet
  <2> QED BY <1>1, <2>1
<1>3. ASSUME NEW n \in Nat, n \in G PROVE n + 1 \in G
  <2> SUFFICES ASSUME NEW s \in SUBSET T, Cardinality(s) = n + 1 PROVE g[s] = h[s]
    OBVIOUS
  <2>1. s # {}
    BY FS_EmptySet
  <2>2. s \ {Pick(s)} \in SUBSET T /\ Cardinality(s \ {Pick(s)}) = n
    BY <2>1, PickLess
  <2>3. g[s \ {Pick(s)}] = h[s \ {Pick(s)}]
    BY <1>3, <2>2
  <2> QED BY <1>1, <2>1, <2>3
<1>4. \A n \in Nat : n \in G
  <2> HIDE DEF G
  <2> QED BY <1>2, <1>3, NatSet
<1>5. \A s \in SUBSET T : Cardinality(s) \in Nat
  BY FS_Subset, FS_CardinalityType
<1> QED
  BY <1>4, <1>5

(* The recursion defines a function: one can be built set size by set size. *)
LEMMA AdderAdds ==
  ASSUME NEW S, IsFiniteSet(S), NEW f, \A x \in S : f[x] \in Nat
  PROVE  Adds(Adder(f, S), f, S) /\ Adder(f, S) \in [SUBSET S -> Nat]
<1> DEFINE D(n) == {s \in SUBSET S : Cardinality(s) <= n}
<1> DEFINE Step(g, s) == IF s = {} THEN 0 ELSE f[Pick(s)] + g[s \ {Pick(s)}]
<1> DEFINE G == {n \in Nat : \E g \in [D(n) -> Nat] : \A s \in D(n) : g[s] = Step(g, s)}
<1>1. 0 \in G
  <2> DEFINE g == [s \in D(0) |-> 0]
  <2>1. \A s \in D(0) : s = {}
    <3> TAKE s \in D(0)
    <3>1. IsFiniteSet(s) /\ Cardinality(s) \in Nat /\ Cardinality(s) <= 0
      BY FS_Subset, FS_CardinalityType
    <3> QED BY <3>1, FS_EmptySet
  <2>2. g \in [D(0) -> Nat] /\ \A s \in D(0) : g[s] = Step(g, s)
    BY <2>1
  <2> QED BY <2>2
<1>2. ASSUME NEW n \in Nat, n \in G PROVE n + 1 \in G
  <2>1. PICK g \in [D(n) -> Nat] : \A s \in D(n) : g[s] = Step(g, s)
    BY <1>2
  <2> DEFINE h == [s \in D(n + 1) |-> Step(g, s)]
  <2>2. ASSUME NEW s \in D(n + 1), s # {} PROVE Pick(s) \in S /\ s \ {Pick(s)} \in D(n)
    <3>1. s \in SUBSET S /\ Cardinality(s) <= n + 1
      OBVIOUS
    <3> QED BY <2>2, <3>1, PickLess
  <2>3. h \in [D(n + 1) -> Nat]
    <3>1. \A s \in D(n + 1) : Step(g, s) \in Nat
      BY <2>2
    <3> QED BY <3>1
  <2>4. \A s \in D(n) : s \in D(n + 1) /\ h[s] = g[s]
    <3> TAKE s \in D(n)
    <3>1. IsFiniteSet(s) /\ Cardinality(s) \in Nat /\ Cardinality(s) <= n
      BY FS_Subset, FS_CardinalityType
    <3>2. s \in D(n + 1)
      BY <3>1
    <3> QED BY <2>1, <3>2
  <2>5. \A s \in D(n + 1) : h[s] = Step(h, s)
    <3> TAKE s \in D(n + 1)
    <3>1. CASE s = {}
      BY <3>1
    <3>2. CASE s # {}
      <4>1. h[s \ {Pick(s)}] = g[s \ {Pick(s)}]
        BY <2>2, <2>4, <3>2
      <4> QED BY <3>2, <4>1
    <3> QED BY <3>1, <3>2
  <2> HIDE DEF h
  <2>6. \E g1 \in [D(n + 1) -> Nat] : \A s \in D(n + 1) : g1[s] = Step(g1, s)
    BY <2>3, <2>5
  <2> HIDE DEF D, Step
  <2> QED BY <2>6
<1>3. Cardinality(S) \in G
  <2> HIDE DEF G
  <2>1. \A n \in Nat : n \in G
    BY <1>1, <1>2, NatSet
  <2> QED BY <2>1, FS_CardinalityType
<1>4. D(Cardinality(S)) = SUBSET S
  BY FS_Subset
<1>5. \E g \in [SUBSET S -> Nat] : \A s \in SUBSET S : g[s] = Step(g, s)
  <2> HIDE DEF Step
  <2>1. \E g \in [D(Cardinality(S)) -> Nat] : \A s \in D(Cardinality(S)) : g[s] = Step(g, s)
    BY <1>3
  <2> HIDE DEF D
  <2> QED BY <1>4, <2>1
<1>6. PICK g \in [SUBSET S -> Nat] : \A s \in SUBSET S : g[s] = Step(g, s)
  BY <1>5
<1>7. Adds(g, f, S)
  BY <1>6 DEF Adds
<1>8. Adds(Adder(f, S), f, S)
  BY <1>7 DEF Adder
<1>9. \A s \in SUBSET S : Adder(f, S)[s] = g[s]
  BY <1>7, <1>8, AddsSame
<1>10. \A s \in SUBSET S : Adder(f, S)[s] \in Nat
  BY <1>9
<1> QED
  BY <1>8, <1>10 DEF Adds

LEMMA SumRec ==
  ASSUME NEW S, IsFiniteSet(S), NEW f, \A x \in S : f[x] \in Nat
  PROVE  /\ Sum(f, S) \in Nat
         /\ S = {} => Sum(f, S) = 0
         /\ S # {} => Sum(f, S) = f[Pick(S)] + Sum(f, S \ {Pick(S)})
<1>1. Adds(Adder(f, S), f, S) /\ Adder(f, S) \in [SUBSET S -> Nat]
  BY AdderAdds
<1>2. Adder(f, S)[S] = IF S = {} THEN 0 ELSE f[Pick(S)] + Adder(f, S)[S \ {Pick(S)}]
  BY <1>1 DEF Adds
<1>3. ASSUME S # {} PROVE Adder(f, S)[S \ {Pick(S)}] = Sum(f, S \ {Pick(S)})
  <2> DEFINE T == S \ {Pick(S)}
  <2>1. T \in SUBSET S /\ IsFiniteSet(T)
    BY FS_Subset
  <2>2. Adds(Adder(f, T), f, T)
    BY <2>1, AdderAdds
  <2>3. Adder(f, S)[T] = Adder(f, T)[T]
    <3> HIDE DEF T
    <3> QED BY <1>1, <2>1, <2>2, AddsSame
  <2> QED BY <2>3, SumIsFold
<1> QED
  BY <1>1, <1>2, <1>3, SumIsFold

(* The order of a sum does not matter.                                      *)
LEMMA SumSplit ==
  ASSUME NEW S, IsFiniteSet(S), NEW f, \A x \in S : f[x] \in Nat
  PROVE  \A x \in S : Sum(f, S) = f[x] + Sum(f, S \ {x}) /\ Sum(f, S \ {x}) \in Nat
<1> DEFINE G == {T \in SUBSET S : \A x \in T : Sum(f, T) = f[x] + Sum(f, T \ {x})}
<1>1. ASSUME NEW T \in SUBSET S PROVE Sum(f, T) \in Nat /\ IsFiniteSet(T)
  BY FS_Subset, SumRec
<1>2. ASSUME NEW T \in SUBSET S, T # {}, \A x \in T : T \ {x} \in G PROVE T \in G
  <2> SUFFICES ASSUME NEW x \in T PROVE Sum(f, T) = f[x] + Sum(f, T \ {x})
    OBVIOUS
  <2> DEFINE c == Pick(T)
  <2>1. Sum(f, T) = f[c] + Sum(f, T \ {c}) /\ c \in T
    BY <1>1, <1>2, SumRec DEF Pick
  <2>2. CASE x = c
    BY <2>1, <2>2
  <2>3. CASE x # c
    <3> HIDE DEF c
    <3>1. x \in T \ {c} /\ c \in T \ {x} /\ (T \ {c}) \ {x} = (T \ {x}) \ {c}
      BY <2>1, <2>3
    <3>2. Sum(f, T \ {c}) = f[x] + Sum(f, (T \ {x}) \ {c})
      BY <1>2, <2>1, <3>1
    <3>3. Sum(f, T \ {x}) = f[c] + Sum(f, (T \ {x}) \ {c})
      BY <1>2, <3>1
    <3>4. f[c] \in Nat /\ f[x] \in Nat /\ Sum(f, (T \ {x}) \ {c}) \in Nat
      BY <1>1, <2>1
    <3> QED BY <2>1, <3>2, <3>3, <3>4
  <2> QED BY <2>2, <2>3
<1>3. S \in G
  <2> HIDE DEF G
  <2>1. {} \in G
    BY DEF G
  <2> QED BY <1>2, <2>1, SetInduction
<1> QED
  BY <1>1, <1>3

(* Each term is at most the sum.                                            *)
LEMMA SumTerm ==
  ASSUME NEW S, IsFiniteSet(S), NEW f, \A y \in S : f[y] \in Nat, NEW x \in S
  PROVE  f[x] <= Sum(f, S)
<1>1. Sum(f, S) = f[x] + Sum(f, S \ {x}) /\ Sum(f, S \ {x}) \in Nat /\ f[x] \in Nat
  BY SumSplit
<1> QED
  BY <1>1

LEMMA SumMonotonic ==
  ASSUME NEW S, IsFiniteSet(S), NEW T \in SUBSET S, NEW f, NEW g,
         \A x \in S : g[x] \in Nat, \A x \in T : f[x] \in Nat /\ f[x] <= g[x]
  PROVE  Sum(f, T) <= Sum(g, S)
<1> DEFINE G == {U \in SUBSET S : Sum(f, U \cap T) <= Sum(g, U)}
<1>1. ASSUME NEW U \in SUBSET S
      PROVE  /\ IsFiniteSet(U) /\ IsFiniteSet(U \cap T)
             /\ Sum(g, U) \in Nat /\ Sum(f, U \cap T) \in Nat
             /\ \A x \in U : Sum(g, U) = g[x] + Sum(g, U \ {x})
             /\ \A x \in U \cap T : Sum(f, U \cap T) = f[x] + Sum(f, (U \cap T) \ {x})
  <2>1. IsFiniteSet(U) /\ IsFiniteSet(U \cap T)
    BY FS_Subset
  <2>2. (\A x \in U : g[x] \in Nat) /\ (\A x \in U \cap T : f[x] \in Nat)
    OBVIOUS
  <2>3. Sum(g, U) \in Nat /\ Sum(f, U \cap T) \in Nat
    BY <2>1, <2>2, SumRec
  <2>4. \A x \in U : Sum(g, U) = g[x] + Sum(g, U \ {x})
    BY <2>1, <2>2, SumSplit
  <2>5. \A x \in U \cap T : Sum(f, U \cap T) = f[x] + Sum(f, (U \cap T) \ {x})
    BY <2>1, <2>2, SumSplit
  <2> QED BY <2>1, <2>3, <2>4, <2>5
<1>2. ASSUME NEW U \in SUBSET S, U # {}, \A x \in U : U \ {x} \in G PROVE U \in G
  <2>1. PICK x \in U : TRUE
    BY <1>2
  <2> DEFINE V == U \ {x}
  <2>2. /\ Sum(f, V \cap T) <= Sum(g, V) /\ Sum(g, U) = g[x] + Sum(g, V)
        /\ Sum(g, V) \in Nat /\ Sum(f, V \cap T) \in Nat /\ g[x] \in Nat
    BY <1>1, <1>2
  <2>3. CASE x \in T
    <3>1. (U \cap T) \ {x} = V \cap T /\ x \in U \cap T
      BY <2>3
    <3>2. Sum(f, U \cap T) = f[x] + Sum(f, V \cap T) /\ f[x] \in Nat /\ f[x] <= g[x]
      <4>1. Sum(f, U \cap T) = f[x] + Sum(f, (U \cap T) \ {x})
        BY <1>1, <3>1
      <4> QED BY <2>3, <3>1, <4>1
    <3>3. Sum(f, U \cap T) <= Sum(g, U)
      <4> HIDE DEF V
      <4> QED BY <2>2, <3>2
    <3> QED BY <3>3
  <2>4. CASE x \notin T
    <3>1. U \cap T = V \cap T
      BY <2>4
    <3>2. Sum(f, U \cap T) <= Sum(g, U)
      <4> HIDE DEF V
      <4> QED BY <2>2, <3>1
    <3> QED BY <3>2
  <2> QED BY <2>3, <2>4
<1>3. S \in G
  <2>1. {} \in G
    <3>1. {} \cap T = {} /\ {} \in SUBSET S /\ IsFiniteSet({})
      BY FS_EmptySet
    <3>2. Sum(f, {}) = 0 /\ Sum(g, {}) = 0
      BY <3>1, SumRec
    <3> QED BY <3>1, <3>2
  <2> HIDE DEF G
  <2> QED BY <1>2, <2>1, SetInduction
<1>4. S \cap T = T
  OBVIOUS
<1> QED
  BY <1>3, <1>4

LEMMA SumChange ==
  ASSUME NEW S, IsFiniteSet(S), NEW f, NEW g, NEW x \in S,
         \A y \in S : f[y] \in Nat /\ g[y] \in Nat /\ (y # x => g[y] = f[y])
  PROVE  Sum(g, S) = Sum(f, S) + g[x] - f[x]
<1> DEFINE T == S \ {x}
<1>1. IsFiniteSet(T) /\ \A y \in T : f[y] \in Nat /\ g[y] \in Nat /\ f[y] <= g[y] /\ g[y] <= f[y]
  BY FS_Subset
<1>2. Sum(f, T) <= Sum(g, T)
  <2> HIDE DEF T
  <2> QED BY <1>1, SumMonotonic
<1>3. Sum(g, T) <= Sum(f, T)
  <2> HIDE DEF T
  <2> QED BY <1>1, SumMonotonic
<1>4. /\ Sum(f, S) = f[x] + Sum(f, T) /\ Sum(f, T) \in Nat
      /\ Sum(g, S) = g[x] + Sum(g, T) /\ Sum(g, T) \in Nat
  BY SumSplit
<1> QED
  BY <1>2, <1>3, <1>4

LEMMA SumZero ==
  ASSUME NEW S, IsFiniteSet(S), NEW f, \A x \in S : f[x] = 0
  PROVE  Sum(f, S) = 0
<1> DEFINE G == {T \in SUBSET S : Sum(f, T) = 0}
<1>1. ASSUME NEW T \in SUBSET S, T # {}, \A x \in T : T \ {x} \in G PROVE T \in G
  <2>1. IsFiniteSet(T) /\ Pick(T) \in T /\ \A x \in T : f[x] \in Nat
    BY <1>1, FS_Subset DEF Pick
  <2>2. Sum(f, T) = f[Pick(T)] + Sum(f, T \ {Pick(T)})
    <3> HIDE DEF G
    <3> QED BY <1>1, <2>1, SumRec
  <2> QED BY <1>1, <2>1, <2>2
<1>2. {} \in G
  BY FS_EmptySet, SumRec
<1>3. S \in G
  <2> HIDE DEF G
  <2> QED BY <1>1, <1>2, SetInduction
<1> QED
  BY <1>3

(* A finite set of costs has a largest one.                                 *)
LEMMA MaxOfFinite ==
  ASSUME NEW S \in SUBSET Nat, IsFiniteSet(S), S # {}
  PROVE  Max(S) \in S /\ \A x \in S : x <= Max(S)
<1> DEFINE G == {T \in SUBSET S : T = {} \/ \E m \in T : \A x \in T : x <= m}
<1>1. ASSUME NEW T \in SUBSET S, T # {}, \A x \in T : T \ {x} \in G PROVE T \in G
  <2>1. PICK c \in T : TRUE
    BY <1>1
  <2>2. CASE T \ {c} = {}
    <3>1. \A x \in T : x <= c
      BY <2>2
    <3> QED BY <3>1
  <2>3. CASE T \ {c} # {}
    <3>1. PICK m \in T \ {c} : \A x \in T \ {c} : x <= m
      BY <1>1, <2>3
    <3>2. m \in Nat /\ c \in Nat /\ \A x \in T : x \in Nat
      OBVIOUS
    <3>3. (\A x \in T : x <= m) \/ (\A x \in T : x <= c)
      BY <3>1, <3>2
    <3> QED BY <3>3
  <2> QED BY <2>2, <2>3
<1>2. S \in G
  <2>1. {} \in G
    OBVIOUS
  <2> HIDE DEF G
  <2> QED BY <1>1, <2>1, SetInduction
<1>3. \E m \in S : \A x \in S : m >= x
  BY <1>2
<1> QED
  BY <1>3 DEF Max

-----------------------------------------------------------------------------
(* What the state of one agent satisfies.                                   *)

Typed(s) == s \in StateType /\ (s.killed <=> s.reason # NoReason)

CauseOK(s) == s.reason = "budget_exceeded" => s.cause = s.start

(* ThresholdsFire for one state, also before anything is spent.             *)
Thresholds(s, p) ==
  p.limit > 0 /\ ~s.moved =>
    \A thr \in p.alerts \ {0} : Reaches(p, s.spent, thr) <=> thr \in s.fired

Overspends(p, s) == Enforces(p) /\ ~s.moved /\ s.spent > p.limit

(* OverspendBounded for one state with u requests under way.                *)
Bounded(s, p, u) == Overspends(p, s) => s.spent + MaxCost * u <= p.limit + MaxCost * MaxUnder

Span == IF LateCalls THEN Window - 1 ELSE Window
Stretch(t) == {u \in 0 .. MaxTime : t <= u /\ u <= t + Span}

(* The window still remembers the requests let through that a call may have *)
(* to count, and no stretch let too many through.                           *)
Bursts(s, now) ==
  Detects =>
    /\ \A u \in 0 .. MaxTime : u + Window >= now => s.passed[u] <= s.times[u]
    /\ \A t \in 0 .. MaxTime : Sum(s.passed, Stretch(t)) <= MaxRequests

Fits(s, p, u, now) == Typed(s) /\ CauseOK(s) /\ Thresholds(s, p) /\ Bounded(s, p, u) /\ Bursts(s, now)

(* A state that was just created or whose period has just begun.            *)
Renewed(a, s) ==
  /\ s.spent = 0 /\ s.fired = {} /\ s.times = Never /\ s.passed = Never /\ s.dirty = TRUE
  /\ s.reason # "budget_exceeded"
  /\ IF a \in Tracked /\ state[a].reason \in Permanent
     THEN s.reason = state[a].reason ELSE s.reason = NoReason

(* The variables have their types, and a call has a time to enter with.     *)
Frame ==
  /\ clock \in 0 .. MaxTime /\ settled \in BOOLEAN /\ (settled => clock > 0)
  /\ policy \in [Agents -> Policy]
  /\ state \in [Agents -> StateType \cup {None}]
  /\ row \in [Agents -> RowType \cup {None}]
  /\ copies \in [Flushers -> [Agents -> RowType \cup {None}]] /\ astray \subseteq Agents
  /\ under \in [Agents -> Nat] /\ Sum(under, Agents) <= MaxUnder
  /\ global \in [spent : Nat, resets : Nat]

Rules == Frame /\ \A a \in Tracked : Typed(state[a])

LEMMA Numbers ==
  /\ MaxTime \in Nat /\ MaxUnder \in Nat /\ MaxRequests \in Nat /\ Window \in Nat
  /\ GlobalLimit \in Nat /\ GlobalPeriod \in Nat \ {0} /\ LateCalls \in BOOLEAN
  /\ MaxCost \in Nat /\ \A c \in Costs : c \in Nat /\ c <= MaxCost
<1>1. Costs \cup {0} \subseteq Nat /\ IsFiniteSet(Costs \cup {0})
  BY ConstantsAssumption, FS_AddElement
<1>2. Max(Costs \cup {0}) \in Costs \cup {0} /\ \A x \in Costs \cup {0} : x <= Max(Costs \cup {0})
  BY <1>1, MaxOfFinite
<1> QED
  BY <1>1, <1>2, ConstantsAssumption DEF MaxCost

LEMMA CallTimes ==
  ASSUME Frame, NEW n \in Now
  PROVE  n \in 0 .. MaxTime /\ n <= clock /\ clock <= n + 1 /\ (~LateCalls => n = clock)
BY Numbers DEF Frame, Now

LEMMA NeverCounts == Never \in Counts /\ \A u \in 0 .. MaxTime : Never[u] = 0
BY DEF Never, Counts

LEMMA NewIsTyped ==
  ASSUME NEW p \in Policy, NEW n \in 0 .. MaxTime
  PROVE  New(p, n) \in StateType
<1>1. n \in Nat /\ p.period \in Nat /\ n + p.period \in Nat
  BY Numbers DEF Policy
<1> QED
  BY <1>1, NeverCounts DEF New, StateType, Reasons

(* Pardon and NewPeriod, field by field.                                    *)
LEMMA NewPeriodIs ==
  ASSUME NEW s, Typed(s), NEW p \in Policy, NEW n \in 0 .. MaxTime
  PROVE  /\ Typed(NewPeriod(s, p, n))
         /\ NewPeriod(s, p, n).spent = 0 /\ NewPeriod(s, p, n).fired = {}
         /\ NewPeriod(s, p, n).times = Never /\ NewPeriod(s, p, n).passed = Never
         /\ NewPeriod(s, p, n).dirty = TRUE
         /\ NewPeriod(s, p, n).reason = IF s.reason = "budget_exceeded" THEN NoReason ELSE s.reason
<1>1. n \in Nat /\ p.period \in Nat /\ n + p.period \in Nat
  BY Numbers DEF Policy
<1> DEFINE t == Pardon(s)
<1>2. Typed(t) /\ t.reason = IF s.reason = "budget_exceeded" THEN NoReason ELSE s.reason
  BY DEF Pardon, Typed, StateType, Reasons
<1>3. NewPeriod(s, p, n) = [t EXCEPT !.spent = 0, !.start = n, !.resets = n + p.period, !.times = Never,
                                     !.fired = {}, !.dirty = TRUE, !.moved = FALSE, !.passed = Never]
  BY DEF NewPeriod
<1> HIDE DEF t
<1>4. t \in StateType
  BY <1>2 DEF Typed
<1>5. NewPeriod(s, p, n) \in StateType
  <2> DEFINE t1 == [t EXCEPT !.spent = 0, !.start = n, !.resets = n + p.period, !.times = Never]
  <2>1. t1 \in StateType
    BY <1>1, <1>4, NeverCounts DEF StateType
  <2>2. NewPeriod(s, p, n) = [t1 EXCEPT !.fired = {}, !.dirty = TRUE, !.moved = FALSE, !.passed = Never]
    BY <1>3
  <2> HIDE DEF t1
  <2> QED BY <2>1, <2>2, NeverCounts DEF StateType
<1>6. /\ NewPeriod(s, p, n).spent = 0 /\ NewPeriod(s, p, n).fired = {}
      /\ NewPeriod(s, p, n).times = Never /\ NewPeriod(s, p, n).passed = Never
      /\ NewPeriod(s, p, n).dirty = TRUE
  BY <1>3, <1>4 DEF StateType
<1>7. NewPeriod(s, p, n).reason = t.reason /\ NewPeriod(s, p, n).killed = t.killed
  BY <1>3, <1>4 DEF StateType
<1> QED
  BY <1>2, <1>5, <1>6, <1>7 DEF Typed

LEMMA StateIs ==
  ASSUME Rules, NEW a \in Agents, NEW p \in Policy, NEW n \in 0 .. MaxTime,
         NEW s \in {Of(a, p, n), Roll(Of(a, p, n), p, n), NewPeriod(Of(a, p, n), p, n)}
  PROVE  Typed(s) /\ ((a \in Tracked /\ s = state[a]) \/ Renewed(a, s))
<1>1. CASE a \in Tracked
  <2>1. Of(a, p, n) = state[a] /\ Typed(state[a])
    BY <1>1 DEF Of, Rules
  <2>2. s = state[a] \/ s = NewPeriod(state[a], p, n)
    BY <2>1 DEF Roll
  <2>3. state[a].reason \in Permanent \cup {NoReason, "budget_exceeded"}
    BY <2>1 DEF Typed, StateType, Reasons
  <2>4. Renewed(a, NewPeriod(state[a], p, n)) /\ Typed(NewPeriod(state[a], p, n))
    <3> DEFINE r == NewPeriod(state[a], p, n)
    <3>1. /\ Typed(r) /\ r.spent = 0 /\ r.fired = {} /\ r.times = Never /\ r.passed = Never /\ r.dirty = TRUE
          /\ r.reason = IF state[a].reason = "budget_exceeded" THEN NoReason ELSE state[a].reason
      BY <2>1, NewPeriodIs
    <3> HIDE DEF r
    <3>2. Renewed(a, r)
      BY <1>1, <2>3, <3>1 DEF Renewed, Permanent, NoReason
    <3> QED BY <3>1, <3>2 DEF r
  <2> QED BY <1>1, <2>1, <2>2, <2>4
<1>2. CASE a \notin Tracked
  <2>1. Of(a, p, n) = New(p, n) /\ Typed(New(p, n))
    BY <1>2, NewIsTyped DEF Of, New, Typed
  <2>2. s = New(p, n) \/ s = NewPeriod(New(p, n), p, n)
    BY <2>1 DEF Roll
  <2>3. Renewed(a, New(p, n))
    BY <1>2 DEF Renewed, New, NoReason
  <2>4. Renewed(a, NewPeriod(New(p, n), p, n)) /\ Typed(NewPeriod(New(p, n), p, n))
    BY <1>2, <2>1, <2>3, NewPeriodIs DEF Renewed
  <2> QED BY <2>1, <2>2, <2>3, <2>4
<1> QED
  BY <1>1, <1>2

LEMMA RenewedFits ==
  ASSUME NEW a, NEW s, Typed(s), Renewed(a, s), NEW p \in Policy, NEW u, NEW now
  PROVE  Fits(s, p, u, now)
<1>1. CauseOK(s)
  BY DEF CauseOK, Renewed
<1>2. Thresholds(s, p)
  BY DEF Thresholds, Renewed, Reaches
<1>3. Bounded(s, p, u)
  BY DEF Bounded, Overspends, Renewed, Policy
<1>4. Bursts(s, now)
  <2>1. ASSUME NEW t \in 0 .. MaxTime PROVE Sum(Never, Stretch(t)) = 0
    <3>1. IsFiniteSet(0 .. MaxTime) /\ Stretch(t) \subseteq 0 .. MaxTime
      BY Numbers, FS_Interval DEF Stretch
    <3>2. IsFiniteSet(Stretch(t))
      BY <3>1, FS_Subset
    <3> QED BY <3>1, <3>2, NeverCounts, SumZero
  <2> QED BY <2>1, NeverCounts, Numbers DEF Bursts, Renewed
<1> QED
  BY <1>1, <1>2, <1>3, <1>4 DEF Fits

LEMMA TimesCount ==
  ASSUME NEW s \in StateType, NEW v \in 0 .. MaxTime
  PROVE  s.times[v] \in Nat /\ s.passed[v] \in Nat /\ s.times[v] <= s.times[v]
<1>1. s.times[v] \in Nat /\ s.passed[v] \in Nat
  BY DEF StateType, Counts
<1> QED
  BY <1>1

(* A change that leaves spend, thresholds and the requests let through.     *)
LEMMA FitsAlike ==
  ASSUME NEW s, NEW p, NEW u, NEW now \in Nat, Fits(s, p, u, now), NEW r, Typed(r), CauseOK(r),
         r.spent = s.spent, r.moved = s.moved, r.fired = s.fired, r.passed = s.passed,
         \A v \in 0 .. MaxTime : v + Window >= now => s.times[v] <= r.times[v]
  PROVE  Fits(r, p, u, now)
<1>1. Thresholds(r, p) /\ Bounded(r, p, u)
  BY DEF Fits, Thresholds, Bounded, Overspends
<1>2. \A v \in 0 .. MaxTime : s.passed[v] \in Nat /\ s.times[v] \in Nat /\ r.times[v] \in Nat
  BY DEF Fits, Typed, StateType, Counts
<1>3. Bursts(r, now)
  BY <1>2, Numbers DEF Fits, Bursts
<1> QED
  BY <1>1, <1>3 DEF Fits

LEMMA RegisteredIs ==
  ASSUME NEW s, Typed(s), NEW n \in 0 .. MaxTime
  PROVE  LET r == Registered(s, n) IN
         /\ Typed(r) /\ r.spent = s.spent /\ r.start = s.start /\ r.resets = s.resets /\ r.fired = s.fired
         /\ r.killed = s.killed /\ r.reason = s.reason /\ r.dirty = s.dirty /\ r.cause = s.cause
         /\ r.moved = s.moved /\ r.passed = s.passed
         /\ \A v \in 0 .. MaxTime : v + Window >= n => s.times[v] <= r.times[v]
         /\ Detects => r.times[n] = s.times[n] + 1
<1>0. s \in StateType /\ \A v \in 0 .. MaxTime : s.times[v] \in Nat
  BY DEF Typed, StateType, Counts
<1>1. CASE ~Detects
  BY <1>0, <1>1 DEF Registered
<1>2. CASE Detects
  <2> DEFINE T == [t \in 0 .. MaxTime |-> (IF t + Window >= n THEN s.times[t] ELSE 0) + (IF t = n THEN 1 ELSE 0)]
  <2>1. T \in Counts
    BY <1>0 DEF Counts
  <2>2. /\ \A v \in 0 .. MaxTime : v + Window >= n => s.times[v] <= T[v]
        /\ T[n] = s.times[n] + 1
    BY <1>0, Numbers
  <2>3. Registered(s, n) = [s EXCEPT !.times = T]
    BY <1>2 DEF Registered
  <2> HIDE DEF T
  <2>4. /\ Registered(s, n) \in StateType /\ Registered(s, n).times = T
    BY <1>0, <2>1, <2>3 DEF StateType
  <2> QED BY <1>0, <2>2, <2>3, <2>4 DEF Typed, StateType
<1> QED
  BY <1>1, <1>2

LEMMA RegisteredFits ==
  ASSUME NEW s, NEW p, NEW u, NEW now \in Nat, Fits(s, p, u, now), NEW n \in 0 .. MaxTime, n <= now
  PROVE  Fits(Registered(s, n), p, u, now)
<1>1. Typed(s) /\ CauseOK(s)
  BY DEF Fits
<1>2. CauseOK(Registered(s, n))
  BY <1>1, RegisteredIs DEF CauseOK
<1>3. \A v \in 0 .. MaxTime : v + Window >= now => v + Window >= n
  BY Numbers
<1> QED
  BY <1>1, <1>2, <1>3, RegisteredIs, FitsAlike

LEMMA KillIs ==
  ASSUME NEW s, Typed(s), NEW reason \in Reasons \ {NoReason}
  PROVE  LET r == Kill(s, reason) IN
         /\ Typed(r) /\ r.spent = s.spent /\ r.start = s.start /\ r.fired = s.fired /\ r.times = s.times
         /\ r.reason = reason /\ r.dirty = TRUE /\ r.moved = s.moved /\ r.passed = s.passed
BY DEF Kill, Typed, StateType

LEMMA KillFits ==
  ASSUME NEW s, NEW p, NEW u, NEW now \in Nat, Fits(s, p, u, now), NEW reason \in Permanent
  PROVE  Fits(Kill(s, reason), p, u, now)
<1>1. Typed(s) /\ s \in StateType /\ reason \in Reasons \ {NoReason} /\ reason # "budget_exceeded"
  BY DEF Fits, Typed, Permanent, Reasons, NoReason
<1>2. \A v \in 0 .. MaxTime : s.times[v] <= s.times[v]
  BY <1>1, TimesCount
<1>3. CauseOK(Kill(s, reason))
  BY <1>1, KillIs DEF CauseOK
<1>4. Kill(s, reason).times = s.times
  BY <1>1, KillIs
<1> QED
  BY <1>1, <1>2, <1>3, <1>4, KillIs, FitsAlike

LEMMA ExceededFits ==
  ASSUME NEW s, NEW p, NEW u, NEW now \in Nat, Fits(s, p, u, now),
         NEW r, r = [Kill(s, "budget_exceeded") EXCEPT !.cause = s.start]
  PROVE  Fits(r, p, u, now) /\ r.dirty = TRUE
<1> DEFINE t == Kill(s, "budget_exceeded")
<1>1. Typed(s) /\ s \in StateType
  BY DEF Fits, Typed
<1>2. /\ Typed(t) /\ t.spent = s.spent /\ t.start = s.start /\ t.fired = s.fired /\ t.times = s.times
      /\ t.reason = "budget_exceeded" /\ t.dirty = TRUE /\ t.moved = s.moved /\ t.passed = s.passed
  BY <1>1, KillIs DEF Reasons, NoReason
<1> HIDE DEF t
<1>3. /\ r.spent = s.spent /\ r.fired = s.fired /\ r.times = s.times
      /\ r.dirty = TRUE /\ r.moved = s.moved /\ r.passed = s.passed /\ r.cause = r.start
      /\ Typed(r)
  BY <1>1, <1>2 DEF t, Typed, StateType
<1>4. \A v \in 0 .. MaxTime : s.times[v] <= r.times[v]
  BY <1>1, <1>3, TimesCount
<1> QED
  BY <1>3, <1>4, FitsAlike DEF CauseOK

LEMMA EnabledFits ==
  ASSUME NEW s, NEW p, NEW u, NEW now \in Nat, Fits(s, p, u, now),
         NEW r, r = [s EXCEPT !.killed = FALSE, !.reason = NoReason, !.cause = 0, !.dirty = TRUE]
  PROVE  Fits(r, p, u, now) /\ r.dirty = TRUE
<1>1. s \in StateType
  BY DEF Fits, Typed
<1>2. /\ r.spent = s.spent /\ r.fired = s.fired /\ r.times = s.times /\ r.reason = NoReason
      /\ r.dirty = TRUE /\ r.moved = s.moved /\ r.passed = s.passed
      /\ Typed(r)
  BY <1>1 DEF Typed, StateType, Reasons
<1>3. \A v \in 0 .. MaxTime : s.times[v] <= r.times[v]
  BY <1>1, <1>2, TimesCount
<1> QED
  BY <1>2, <1>3, FitsAlike DEF CauseOK, NoReason

(* A policy update: what the old limits said no longer counts.              *)
LEMMA MovedFits ==
  ASSUME NEW s, Typed(s), CauseOK(s), NEW now, Bursts(s, now), NEW p, NEW u,
         NEW r, r = [s EXCEPT !.dirty = TRUE, !.moved = TRUE]
  PROVE  Fits(r, p, u, now) /\ r.dirty = TRUE
<1>1. /\ Typed(r) /\ r.moved = TRUE /\ r.dirty = TRUE /\ r.reason = s.reason /\ r.cause = s.cause
      /\ r.start = s.start /\ r.passed = s.passed /\ r.times = s.times
  BY DEF Typed, StateType
<1> QED
  BY <1>1 DEF Fits, CauseOK, Thresholds, Bounded, Overspends, Bursts

LEMMA Times ==
  ASSUME NEW m \in Nat, NEW k \in Nat
  PROVE  m * (k + 1) = m * k + m /\ m * k \in Nat
OBVIOUS

LEMMA TimesUpTo ==
  ASSUME NEW m \in Nat, NEW k \in Nat, NEW l \in Nat, k <= l
  PROVE  m * k <= m * l
OBVIOUS

LEMMA StretchIs ==
  ASSUME NEW t \in 0 .. MaxTime
  PROVE  /\ Stretch(t) \in SUBSET (0 .. MaxTime) /\ IsFiniteSet(0 .. MaxTime) /\ IsFiniteSet(Stretch(t))
<1>1. IsFiniteSet(0 .. MaxTime) /\ Stretch(t) \in SUBSET (0 .. MaxTime)
  BY Numbers, FS_Interval DEF Stretch
<1> QED
  BY <1>1, FS_Subset

LetsOneThrough(s, q, n) ==
  \A v \in 0 .. MaxTime : q.passed[v] = IF v = n THEN s.passed[v] + 1 ELSE s.passed[v]

(* A request is let through: the window counts it, and has not lost any     *)
(* request of a stretch that the new one belongs to.                        *)
LEMMA AdmittedBursts ==
  ASSUME NEW s, Typed(s), NEW now \in Nat, Bursts(s, now),
         NEW n \in 0 .. MaxTime, n <= now, now <= n + 1, ~LateCalls => n = now,
         NEW r, r = Registered(s, n), ~Runaway(r),
         NEW q, q.times = r.times, LetsOneThrough(s, q, n)
  PROVE  Bursts(q, now)
<1> SUFFICES ASSUME Detects PROVE Bursts(q, now)
  BY DEF Bursts
<1>1. Window \in Nat \ {0} /\ LateCalls \in BOOLEAN /\ MaxTime \in Nat /\ MaxRequests \in Nat
  BY Numbers DEF Detects
<1>2. /\ r \in StateType /\ r.passed = s.passed /\ r.times[n] = s.times[n] + 1
      /\ \A v \in 0 .. MaxTime : v + Window >= n => s.times[v] <= r.times[v]
  BY RegisteredIs DEF Typed
<1>3. \A v \in 0 .. MaxTime : /\ s.passed[v] \in Nat /\ s.times[v] \in Nat /\ r.times[v] \in Nat
  BY <1>2, TimesCount DEF Typed
<1>4. \A v \in 0 .. MaxTime : q.passed[v] = (IF v = n THEN s.passed[v] + 1 ELSE s.passed[v]) /\ q.passed[v] \in Nat
  BY <1>3 DEF LetsOneThrough
<1>5. \A v \in 0 .. MaxTime : v + Window >= now => s.passed[v] <= s.times[v]
  BY DEF Bursts
<1>6. \A v \in 0 .. MaxTime : v + Window >= now => q.passed[v] <= r.times[v]
  BY <1>1, <1>2, <1>3, <1>4, <1>5
<1>7. ASSUME NEW t \in 0 .. MaxTime PROVE Sum(q.passed, Stretch(t)) <= MaxRequests
  <2>1. CASE n \in Stretch(t)
    <3>1. \A v \in Stretch(t) : v \in 0 .. MaxTime /\ v + Window >= now
      BY <1>1, <2>1 DEF Stretch, Span
    <3>2. Sum(q.passed, Stretch(t)) <= Sum(r.times, 0 .. MaxTime)
      <4>1. \A v \in Stretch(t) : q.passed[v] \in Nat /\ q.passed[v] <= r.times[v]
        BY <1>4, <1>6, <3>1
      <4> QED BY <1>3, <4>1, StretchIs, SumMonotonic
    <3>3. DOMAIN r.times = 0 .. MaxTime
      BY <1>2 DEF StateType, Counts
    <3>4. Sum(r.times, 0 .. MaxTime) <= MaxRequests /\ Sum(r.times, 0 .. MaxTime) \in Nat
      <4>1. Sum(r.times, 0 .. MaxTime) \in Nat
        BY <1>3, StretchIs, SumRec
      <4>2. ~(Sum(r.times, 0 .. MaxTime) > MaxRequests)
        BY <3>3 DEF Runaway, Total
      <4> QED BY <1>1, <4>1, <4>2
    <3>5. Sum(q.passed, Stretch(t)) \in Nat
      BY <1>4, <3>1, StretchIs, SumRec
    <3> QED BY <1>1, <3>2, <3>4, <3>5
  <2>2. CASE n \notin Stretch(t)
    <3>1. \A v \in Stretch(t) : v \in 0 .. MaxTime /\ q.passed[v] = s.passed[v] /\ s.passed[v] \in Nat
      BY <1>3, <1>4, <2>2, StretchIs
    <3>2. \A v \in Stretch(t) : s.passed[v] \in Nat /\ q.passed[v] \in Nat /\ q.passed[v] <= s.passed[v]
      BY <3>1
    <3>3. Sum(q.passed, Stretch(t)) <= Sum(s.passed, Stretch(t))
      BY <3>2, StretchIs, SumMonotonic
    <3>4. Sum(s.passed, Stretch(t)) <= MaxRequests
      BY DEF Bursts
    <3>5. Sum(q.passed, Stretch(t)) \in Nat /\ Sum(s.passed, Stretch(t)) \in Nat
      BY <3>2, StretchIs, SumRec
    <3> QED BY <1>1, <3>3, <3>4, <3>5
  <2> QED BY <2>1, <2>2
<1> QED
  BY <1>6, <1>7 DEF Bursts

LetThrough(s, n) == [s EXCEPT !.passed[n] = @ + 1]

LEMMA AdmittedFits ==
  ASSUME NEW s, NEW p \in Policy, NEW u, NEW now \in Nat, Fits(s, p, u, now),
         NEW n \in 0 .. MaxTime, n <= now, now <= n + 1, ~LateCalls => n = now, NEW est \in Costs,
         NEW r, r = Registered(s, n), ~Runaway(r), ~(OverLimit(p, r, est) /\ Enforces(p)),
         NEW q, q = LetThrough(r, n)
  PROVE  /\ Fits(q, p, u + 1, now) /\ q.dirty = s.dirty
         /\ q.spent = s.spent /\ q.start = s.start /\ q.resets = s.resets /\ q.killed = s.killed
         /\ q.reason = s.reason /\ q.cause = s.cause /\ q.moved = s.moved
<1>1. Typed(s) /\ Typed(r) /\ r \in StateType
  BY RegisteredIs DEF Fits, Typed
<1>2. r.passed[n] + 1 \in Nat /\ [r.passed EXCEPT ![n] = @ + 1] \in Counts
  <2>1. r.passed[n] \in Nat /\ r.passed \in Counts
    BY <1>1, TimesCount DEF StateType
  <2> QED BY <2>1 DEF Counts
<1>3. /\ q \in StateType /\ q.passed = [r.passed EXCEPT ![n] = @ + 1] /\ q.times = r.times
      /\ q.fired = r.fired /\ q.dirty = r.dirty
      /\ q.spent = r.spent /\ q.start = r.start /\ q.resets = r.resets /\ q.killed = r.killed
      /\ q.reason = r.reason /\ q.cause = r.cause /\ q.moved = r.moved
  BY <1>1, <1>2 DEF StateType, LetThrough
<1>4. /\ r.spent = s.spent /\ r.start = s.start /\ r.resets = s.resets /\ r.fired = s.fired
      /\ r.killed = s.killed /\ r.reason = s.reason /\ r.dirty = s.dirty /\ r.cause = s.cause
      /\ r.moved = s.moved
  BY <1>1, RegisteredIs
<1>5. Bursts(q, now)
  <2>1. Bursts(s, now) /\ r.passed = s.passed
    BY <1>1, RegisteredIs DEF Fits
  <2>2. LetsOneThrough(s, q, n)
    <3>1. s.passed \in Counts /\ q.passed = [s.passed EXCEPT ![n] = @ + 1]
      BY <1>1, <1>3, <2>1 DEF StateType
    <3> QED BY <3>1 DEF Counts, LetsOneThrough
  <2> QED BY <1>1, <1>3, <2>1, <2>2, AdmittedBursts
<1>6. ~Overspends(p, q)
  <2>1. est \in Nat /\ q.spent \in Nat /\ p.limit \in Nat
    BY <1>3, Numbers DEF StateType, Policy
  <2> QED BY <1>3, <2>1 DEF OverLimit, Overspends, Enforces
<1>7. Typed(q) /\ CauseOK(q) /\ Thresholds(q, p)
  BY <1>3, <1>4 DEF Fits, Typed, CauseOK, Thresholds
<1> QED
  BY <1>3, <1>4, <1>5, <1>6, <1>7 DEF Fits, Bounded

Billed(s, p, cost) ==
  [s EXCEPT !.spent = @ + cost, !.dirty = TRUE, !.fired = @ \cup Crossed(p, s.spent, s.spent + cost)]

(* What is billed belongs to a request that was under way.                  *)
LEMMA BilledFits ==
  ASSUME NEW s, NEW p \in Policy, NEW u \in Nat, u > 0, u <= MaxUnder, NEW now, Fits(s, p, u, now),
         NEW cost \in Costs,
         NEW q, q = Billed(s, p, cost)
  PROVE  Fits(q, p, u - 1, now) /\ q.dirty = TRUE
<1>1. s \in StateType /\ cost \in Nat /\ cost <= MaxCost /\ MaxCost \in Nat /\ MaxUnder \in Nat /\ s.spent \in Nat
      /\ p.limit \in Nat /\ p.alerts \in SUBSET (0 .. 100)
  BY Numbers DEF Fits, Typed, StateType, Policy
<1>2. /\ s.fired \cup Crossed(p, s.spent, s.spent + cost) \in SUBSET (0 .. 100)
      /\ s.spent + cost \in Nat
  BY <1>1 DEF Crossed, StateType
<1>3. /\ q \in StateType /\ q.spent = s.spent + cost /\ q.fired = s.fired \cup Crossed(p, s.spent, s.spent + cost)
      /\ q.killed = s.killed /\ q.reason = s.reason /\ q.cause = s.cause /\ q.start = s.start
      /\ q.moved = s.moved /\ q.dirty = TRUE /\ q.passed = s.passed /\ q.times = s.times
  BY <1>1, <1>2 DEF StateType, Billed
<1>4. Thresholds(q, p)
  <2> SUFFICES ASSUME p.limit > 0, ~s.moved, NEW thr \in p.alerts \ {0}
               PROVE  Reaches(p, q.spent, thr) <=> thr \in q.fired
    BY <1>3 DEF Thresholds
  <2>1. Reaches(p, s.spent, thr) <=> thr \in s.fired
    BY DEF Fits, Thresholds
  <2>2. Reaches(p, s.spent, thr) => Reaches(p, s.spent + cost, thr)
    <3> DEFINE m == thr * p.limit
    <3>1. m \in Int /\ thr # 0
      BY <1>1
    <3>2. 100 * s.spent >= m => 100 * (s.spent + cost) >= m
      <4> HIDE DEF m
      <4> QED BY <1>1, <3>1
    <3> QED BY <1>1, <3>1, <3>2 DEF Reaches
  <2> QED BY <1>3, <2>1, <2>2 DEF Crossed
<1>5. Bounded(q, p, u - 1)
  <2> SUFFICES ASSUME Overspends(p, q) PROVE q.spent + MaxCost * (u - 1) <= p.limit + MaxCost * MaxUnder
    BY DEF Bounded
  <2> DEFINE m == MaxCost * (u - 1)
  <2>1. m \in Nat /\ MaxCost * u = m + MaxCost
    <3>1. u - 1 \in Nat /\ u = (u - 1) + 1
      OBVIOUS
    <3> QED BY <1>1, <3>1, Times
  <2> DEFINE k == MaxCost * u
  <2> DEFINE l == MaxCost * MaxUnder
  <2>2. k <= l /\ k \in Nat /\ l \in Nat
    BY <1>1, Times, TimesUpTo
  <2>3. CASE s.spent > p.limit
    <3>1. s.spent + k <= p.limit + l
      BY <1>3, <2>3 DEF Fits, Bounded, Overspends
    <3> HIDE DEF m, k, l
    <3>2. q.spent + m <= p.limit + l
      BY <1>1, <1>3, <2>1, <2>2, <3>1 DEF k
    <3> QED BY <3>2 DEF m, l
  <2>4. CASE s.spent <= p.limit
    <3> HIDE DEF m, k, l
    <3>1. k = m + MaxCost
      BY <2>1 DEF k
    <3>2. q.spent + m <= p.limit + l
      BY <1>1, <1>3, <2>1, <2>2, <2>4, <3>1
    <3> QED BY <3>2 DEF m, l
  <2> QED BY <1>1, <2>3, <2>4
<1>6. Typed(q) /\ CauseOK(q) /\ Bursts(q, now)
  BY <1>3 DEF Fits, Typed, CauseOK, Bursts
<1> QED
  BY <1>3, <1>4, <1>5, <1>6 DEF Fits

-----------------------------------------------------------------------------
(* Rows.                                                                    *)

(* What OverspendBounded leaves in a row: nothing is under way after a      *)
(* restart.                                                                 *)
RowBounded(r) ==
  Enforces(r.policy) /\ ~r.moved /\ r.spent > r.policy.limit
    => r.spent <= r.policy.limit + MaxCost * MaxUnder

RowFits(r) ==
  /\ r.policy = Stored(r.policy)
  /\ r.status = "budget_exceeded" => r.cause = r.start
  /\ RowBounded(r)

LEMMA StoredIs ==
  ASSUME NEW p \in Policy
  PROVE  /\ Stored(p) \in Policy /\ Stored(Stored(p)) = Stored(p)
         /\ Stored(p).limit = p.limit /\ (Enforces(Stored(p)) => Enforces(p))
<1>1. Stored(p) \in Policy /\ Stored(p).limit = p.limit
  <2> DEFINE act == IF p.action = "unset" THEN "alert" ELSE p.action
  <2> DEFINE low == IF p.downgrade = 0 THEN 80 ELSE p.downgrade
  <2> DEFINE at  == IF p.alerts = {} THEN {50, 80, 100} ELSE p.alerts
  <2>1. act \in Actions /\ low \in 0 .. 100
    BY DEF Policy, Actions
  <2>2. at \in SUBSET (0 .. 100)
    BY DEF Policy
  <2>3. Stored(p) = [p EXCEPT !.action = act, !.downgrade = low, !.alerts = at]
    BY DEF Stored
  <2> HIDE DEF act, low, at
  <2> QED BY <2>1, <2>2, <2>3 DEF Policy
<1>2. /\ Stored(p).action = (IF p.action = "unset" THEN "alert" ELSE p.action)
      /\ Stored(p).downgrade = (IF p.downgrade = 0 THEN 80 ELSE p.downgrade)
      /\ Stored(p).alerts = (IF p.alerts = {} THEN {50, 80, 100} ELSE p.alerts)
  BY DEF Stored, Policy
<1>3. \A q \in Policy : q.action # "unset" /\ q.downgrade # 0 /\ q.alerts # {} => Stored(q) = q
  BY DEF Stored, Policy
<1>4. Stored(Stored(p)) = Stored(p)
  <2>1. Stored(p).action # "unset" /\ Stored(p).downgrade # 0 /\ Stored(p).alerts # {}
    BY <1>2
  <2> QED BY <1>1, <1>3, <2>1
<1>5. Enforces(Stored(p)) => Enforces(p)
  BY <1>1, <1>2 DEF Enforces
<1> QED
  BY <1>1, <1>4, <1>5

LEMMA RecordFits ==
  ASSUME NEW a, policy[a] \in Policy, NEW u \in Nat, NEW now, NEW s, Fits(s, policy[a], u, now)
  PROVE  Record(a, s) \in RowType /\ RowFits(Record(a, s))
<1> DEFINE r == Record(a, s)
<1>1. s \in StateType /\ (s.killed <=> s.reason # NoReason) /\ CauseOK(s)
  BY DEF Fits, Typed
<1>2. Status(s) \in {"active"} \cup (Reasons \ {NoReason}) /\ (Status(s) = "budget_exceeded" => s.reason = "budget_exceeded")
  BY <1>1 DEF Status, StateType
<1>3. /\ r.policy = Stored(policy[a]) /\ r.spent = s.spent /\ r.start = s.start /\ r.resets = s.resets
      /\ r.status = Status(s) /\ r.cause = s.cause /\ r.moved = s.moved
  BY DEF Record
<1>4. r \in RowType
  <2>1. Stored(policy[a]) \in Policy
    BY StoredIs
  <2> QED BY <1>1, <1>2, <2>1 DEF Record, RowType, StateType
<1>5. RowBounded(r)
  <2> SUFFICES ASSUME Enforces(r.policy), ~r.moved, r.spent > r.policy.limit
               PROVE  r.spent <= r.policy.limit + MaxCost * MaxUnder
    BY DEF RowBounded
  <2> HIDE DEF r
  <2>1. Overspends(policy[a], s)
    BY <1>3, StoredIs DEF Overspends
  <2> DEFINE k == MaxCost * u
  <2> DEFINE l == MaxCost * MaxUnder
  <2>2. s.spent + k <= policy[a].limit + l
    BY <2>1 DEF Fits, Bounded
  <2>3. k \in Nat /\ l \in Nat /\ s.spent \in Nat /\ policy[a].limit \in Nat
    BY <1>1, Numbers, Times DEF StateType, Policy
  <2>4. r.spent = s.spent /\ r.policy.limit = policy[a].limit
    BY <1>3, StoredIs
  <2> HIDE DEF k, l
  <2>5. r.spent <= r.policy.limit + l
    BY <2>2, <2>3, <2>4
  <2> QED BY <2>5 DEF l
<1> HIDE DEF r
<1>6. RowFits(r)
  BY <1>1, <1>2, <1>3, <1>5, StoredIs DEF RowFits, CauseOK
<1> QED
  BY <1>4, <1>6 DEF r

(* A restart puts a policy of the file into a row and remembers a change.   *)
LEMMA SeededFits ==
  ASSUME NEW rows \in [Agents -> RowType \cup {None}], \A a \in Agents : rows[a] # None => RowFits(rows[a]),
         NEW cfg \in Configs, NEW n \in Nat
  PROVE  LET r == Seeded(rows, cfg, n) IN
         /\ r \in [Agents -> RowType \cup {None}]
         /\ \A a \in Agents : /\ r[a] # None => RowFits(r[a])
                              /\ rows[a] # None => r[a] # None /\ r[a].status = rows[a].status
<1> DEFINE r == Seeded(rows, cfg, n)
<1> SUFFICES ASSUME NEW a \in Agents
             PROVE  /\ r[a] \in RowType \cup {None} /\ (r[a] # None => RowFits(r[a]))
                    /\ rows[a] # None => r[a] # None /\ r[a].status = rows[a].status
  <2>1. r = [a \in Agents |-> r[a]]
    BY DEF Seeded
  <2> HIDE DEF r
  <2>2. \A a \in Agents : /\ r[a] \in RowType \cup {None} /\ (r[a] # None => RowFits(r[a]))
                          /\ rows[a] # None => r[a] # None /\ r[a].status = rows[a].status
    OBVIOUS
  <2> QED BY <2>1, <2>2 DEF r
<1>1. CASE a \notin DOMAIN cfg
  BY <1>1 DEF Seeded
<1>2. CASE a \in DOMAIN cfg
  <2> DEFINE p == cfg[a]
  <2>1. p \in Policy /\ Stored(p) \in Policy /\ Stored(Stored(p)) = Stored(p) /\ p.period \in Nat
    <3>1. p \in Policy
      BY <1>2, ConstantsAssumption
    <3> QED BY <3>1, StoredIs DEF Policy
  <2>2. CASE rows[a] # None
    <3> DEFINE q == rows[a]
    <3>1. r[a] = [q EXCEPT !.policy = Stored(p), !.moved = q.moved \/ q.policy # Stored(p)]
      BY <1>2, <2>2 DEF Seeded
    <3>2. q \in RowType /\ RowFits(q)
      BY <2>2
    <3> HIDE DEF q, r, p
    <3>3. /\ r[a] \in RowType /\ r[a].policy = Stored(p) /\ r[a].moved = (q.moved \/ q.policy # Stored(p))
          /\ r[a].spent = q.spent /\ r[a].start = q.start /\ r[a].status = q.status /\ r[a].cause = q.cause
      BY <2>1, <3>1, <3>2 DEF RowType
    <3>4. RowFits(r[a])
      BY <2>1, <3>2, <3>3 DEF RowFits, RowBounded
    <3> QED BY <3>2, <3>3, <3>4, NoneAssumption DEF q
  <2>3. CASE rows[a] = None
    <3>1. r[a] = [policy |-> Stored(p), spent |-> 0, start |-> n, resets |-> n + p.period,
                  status |-> "active", cause |-> 0, moved |-> FALSE]
      BY <1>2, <2>3 DEF Seeded
    <3> HIDE DEF r, p
    <3>2. r[a] \in RowType
      BY <2>1, <3>1 DEF RowType
    <3>3. RowFits(r[a])
      BY <2>1, <3>1 DEF RowFits, RowBounded, Policy
    <3> QED BY <2>3, <3>2, <3>3
  <2> QED BY <2>2, <2>3
<1> QED
  BY <1>1, <1>2

LEMMA LoadedIs ==
  ASSUME NEW r \in RowType, r.policy = Stored(r.policy)
  PROVE  LET s == Loaded(r) IN
         /\ Typed(s) /\ s.spent = r.spent /\ s.start = r.start /\ s.resets = r.resets /\ s.cause = r.cause
         /\ s.moved = r.moved /\ s.times = Never /\ s.passed = Never /\ s.fired = Fired(r)
         /\ s.dirty = FALSE /\ Status(s) = r.status
         /\ s.reason = IF r.status = "active" THEN NoReason ELSE r.status
<1> DEFINE s == Loaded(r)
<1>1. Fired(r) \in SUBSET (0 .. 100) /\ Reason(r) \in Reasons
  BY DEF Fired, RowType, Policy, Reason, Reasons
<1>2. s \in StateType
  BY <1>1, NeverCounts DEF Loaded, RowType, StateType
<1>3. (s.killed <=> s.reason # NoReason) /\ Status(s) = r.status
  BY DEF Loaded, Reason, Status, RowType, Reasons
<1> QED
  BY <1>2, <1>3 DEF Typed, Loaded, Reason

LEMMA LoadedFits ==
  ASSUME NEW r \in RowType, RowFits(r), NEW now
  PROVE  Fits(Loaded(r), r.policy, 0, now)
<1> DEFINE s == Loaded(r)
<1>1. /\ Typed(s) /\ s.spent = r.spent /\ s.start = r.start /\ s.cause = r.cause
      /\ s.moved = r.moved /\ s.times = Never /\ s.passed = Never /\ s.fired = Fired(r)
      /\ s.reason = IF r.status = "active" THEN NoReason ELSE r.status
  BY LoadedIs DEF RowFits
<1> HIDE DEF s
<1>2. CauseOK(s) /\ Thresholds(s, r.policy)
  BY <1>1 DEF CauseOK, Thresholds, RowFits, Fired, NoReason
<1>3. Bounded(s, r.policy, 0)
  <2>1. MaxCost * 0 = 0 /\ s.spent + 0 = s.spent
    BY <1>1, Numbers DEF RowType
  <2> QED BY <1>1, <2>1 DEF Bounded, Overspends, RowFits, RowBounded
<1>4. Bursts(s, now)
  <2>1. ASSUME NEW t \in 0 .. MaxTime PROVE Sum(Never, Stretch(t)) = 0
    BY StretchIs, NeverCounts, SumZero
  <2> QED BY <1>1, <2>1, NeverCounts, Numbers DEF Bursts
<1> QED
  BY <1>1, <1>2, <1>3, <1>4 DEF Fits, s

-----------------------------------------------------------------------------
(* The inductive invariant.                                                 *)

GlobalBounded(g, u) ==
  GlobalLimit > 0 /\ g.spent > GlobalLimit => g.spent + MaxCost * u <= GlobalLimit + MaxCost * MaxUnder

(* With these rows and copies, no flush is needed for q to be what the row  *)
(* of the agent will show.                                                  *)
Stands(r, cs, a, q) ==
  /\ \A f \in Flushers : cs[f][a] \in {None, q}
  /\ (\A f \in Flushers : cs[f][a] = None) => r[a] = q

AgentsInv ==
  \A a \in Tracked : /\ Fits(state[a], policy[a], under[a], clock)
                     /\ ~state[a].dirty /\ a \notin astray => Stands(row, copies, a, Record(a, state[a]))

(* What a restart may read, now or when a copy has landed.                  *)
RowsInv ==
  \A a \in Agents : /\ row[a] # None => RowFits(row[a])
                    /\ \A f \in Flushers : copies[f][a] # None => RowFits(copies[f][a])

Inv == Frame /\ AgentsInv /\ RowsInv /\ GlobalBounded(global, Sum(under, Agents))

(* A clean state still stands.                                              *)
Kept(a, s) ==
  \/ s.dirty
  \/ a \in Tracked /\ s.dirty = state[a].dirty /\ Record(a, s) = Record(a, state[a])

LEMMA InvRules ==
  ASSUME Inv
  PROVE  Rules
BY DEF Inv, AgentsInv, Fits, Rules

LEMMA TypedIsSome ==
  ASSUME NEW s, Typed(s)
  PROVE  s # None /\ s \in StateType
BY NoneAssumption DEF Typed

LEMMA UnderFits ==
  ASSUME Frame
  PROVE  /\ IsFiniteSet(Agents) /\ Sum(under, Agents) \in Nat /\ DOMAIN under = Agents
         /\ \A a \in Agents : under[a] \in Nat /\ under[a] <= Sum(under, Agents) /\ under[a] <= MaxUnder
<1>1. IsFiniteSet(Agents) /\ \A a \in Agents : under[a] \in Nat
  BY ConstantsAssumption DEF Frame
<1>2. Sum(under, Agents) \in Nat
  BY <1>1, SumRec
<1>3. \A a \in Agents : under[a] <= Sum(under, Agents)
  BY <1>1, SumTerm
<1> QED
  BY <1>1, <1>2, <1>3, Numbers DEF Frame

(* A call about one agent.                                                  *)
LEMMA ChangeKeepsInv ==
  ASSUME Inv, NEW a \in Agents, NEW s, Set(a, s), UNCHANGED <<clock, settled, row, copies, astray>>,
         policy' \in [Agents -> Policy], \A b \in Agents : b # a => policy'[b] = policy[b],
         under' \in [Agents -> Nat], \A b \in Agents : b # a => under'[b] = under[b],
         Sum(under', Agents) <= MaxUnder,
         global' \in [spent : Nat, resets : Nat], GlobalBounded(global', Sum(under', Agents)),
         Fits(s, policy'[a], under'[a], clock), s.dirty \/ (policy'[a] = policy[a] /\ Kept(a, s))
  PROVE  Inv'
<1>1. s # None /\ s \in StateType
  BY TypedIsSome DEF Fits
<1>2. UNCHANGED <<clock, settled, row, copies, astray>> /\ state' = [state EXCEPT ![a] = s]
  BY DEF Set
<1>3. state' \in [Agents -> StateType \cup {None}] /\ state'[a] = s /\ \A b \in Agents : b # a => state'[b] = state[b]
  BY <1>1, <1>2 DEF Inv, Frame
<1>4. Frame'
  BY <1>2, <1>3 DEF Inv, Frame
<1>5. \A b \in Tracked' : b = a \/ (b \in Tracked /\ b # a)
  BY <1>3 DEF Tracked
<1>6. AgentsInv'
  <2> SUFFICES ASSUME NEW b \in Tracked'
               PROVE  /\ Fits(state'[b], policy'[b], under'[b], clock')
                      /\ ~state'[b].dirty /\ b \notin astray' => Stands(row', copies', b, Record(b, state[b])')
    BY DEF AgentsInv
  <2>1. CASE b = a
    <3>1. Fits(state'[b], policy'[b], under'[b], clock')
      BY <1>2, <1>3, <2>1
    <3>2. ASSUME ~s.dirty, a \notin astray PROVE Stands(row', copies', b, Record(b, state[b])')
      <4>1. /\ a \in Tracked /\ ~state[a].dirty /\ Record(a, s) = Record(a, state[a])
            /\ policy'[a] = policy[a]
        BY <3>2 DEF Kept
      <4>2. Stands(row, copies, a, Record(a, s))
        BY <3>2, <4>1 DEF Inv, AgentsInv
      <4>3. Record(b, state[b])' = Record(a, s)
        BY <1>3, <2>1, <4>1 DEF Record
      <4> QED BY <1>2, <2>1, <4>2, <4>3
    <3> QED BY <1>3, <2>1, <3>1, <3>2
  <2>2. CASE b \in Tracked /\ b # a
    <3>1. b \in Agents /\ state'[b] = state[b] /\ policy'[b] = policy[b] /\ under'[b] = under[b]
          /\ clock' = clock /\ row' = row /\ copies' = copies /\ astray' = astray
      BY <1>2, <1>3, <2>2 DEF Tracked
    <3>2. Record(b, state[b])' = Record(b, state[b])
      BY <3>1 DEF Record
    <3>3. /\ Fits(state[b], policy[b], under[b], clock)
          /\ ~state[b].dirty /\ b \notin astray => Stands(row, copies, b, Record(b, state[b]))
      BY <2>2 DEF Inv, AgentsInv
    <3> QED BY <3>1, <3>2, <3>3
  <2> QED BY <1>5, <2>1, <2>2
<1>7. RowsInv'
  BY <1>2 DEF Inv, RowsInv
<1> QED
  BY <1>4, <1>6, <1>7 DEF Inv

(* The same for a call that leaves the policy alone.                        *)
LEMMA SetKeepsInv ==
  ASSUME Inv, NEW a \in Agents, NEW s, Set(a, s), Outside,
         under' \in [Agents -> Nat], \A b \in Agents : b # a => under'[b] = under[b],
         Sum(under', Agents) <= MaxUnder,
         global' \in [spent : Nat, resets : Nat], GlobalBounded(global', Sum(under', Agents)),
         Fits(s, policy[a], under'[a], clock), Kept(a, s)
  PROVE  Inv'
<1>1. UNCHANGED <<clock, settled, row, copies, astray>> /\ policy' = policy /\ policy' \in [Agents -> Policy]
  BY DEF Outside, store, Inv, Frame
<1> QED
  BY <1>1, ChangeKeepsInv

(* The same for a call that changes nothing but the state.                  *)
LEMMA CallKeepsInv ==
  ASSUME Inv, NEW a \in Agents, NEW s, Set(a, s), Outside, UNCHANGED under,
         global' \in [spent : Nat, resets : Nat], GlobalBounded(global', Sum(under, Agents)),
         Fits(s, policy[a], under[a], clock), Kept(a, s)
  PROVE  Inv'
BY SetKeepsInv DEF Inv, Frame

(* The state a call works on: the one there is, or a fresh one.             *)
LEMMA CurrentFits ==
  ASSUME Inv, NEW a \in Agents, NEW n \in Now,
         NEW s \in {Of(a, policy[a], n), Current(a, n), NewPeriod(Of(a, policy[a], n), policy[a], n)}
  PROVE  /\ Fits(s, policy[a], under[a], clock) /\ Kept(a, s) /\ ((a \in Tracked /\ s = state[a]) \/ Renewed(a, s))
<1>1. policy[a] \in Policy /\ n \in 0 .. MaxTime
  BY CallTimes DEF Inv, Frame
<1>2. Typed(s) /\ ((a \in Tracked /\ s = state[a]) \/ Renewed(a, s))
  BY <1>1, InvRules, StateIs DEF Current
<1>3. CASE a \in Tracked /\ s = state[a]
  BY <1>2, <1>3 DEF Kept, Inv, AgentsInv
<1>4. CASE Renewed(a, s)
  <2>1. Fits(s, policy[a], under[a], clock)
    BY <1>1, <1>2, <1>4, RenewedFits
  <2>2. Kept(a, s)
    BY <1>4 DEF Kept, Renewed
  <2> QED BY <1>2, <2>1, <2>2
<1> QED
  BY <1>2, <1>3, <1>4

LEMMA RollGlobalFits ==
  ASSUME Inv, NEW n \in Now
  PROVE  /\ RollGlobal(n) \in [spent : Nat, resets : Nat]
         /\ GlobalBounded(RollGlobal(n), Sum(under, Agents))
<1>1. n \in Nat /\ n + GlobalPeriod \in Nat
  BY CallTimes, Numbers DEF Inv
<1>2. CASE RollGlobal(n) = global
  BY <1>2 DEF Inv, Frame
<1>3. CASE RollGlobal(n) = [spent |-> 0, resets |-> n + GlobalPeriod]
  <2>1. RollGlobal(n).spent = 0 /\ RollGlobal(n) \in [spent : Nat, resets : Nat]
    BY <1>1, <1>3
  <2> QED BY <2>1, Numbers DEF GlobalBounded
<1> QED
  BY <1>2, <1>3 DEF RollGlobal

LEMMA KeptAlike ==
  ASSUME NEW a, NEW s, Kept(a, s), NEW r, r.dirty = s.dirty, r.spent = s.spent, r.start = s.start,
         r.resets = s.resets, r.killed = s.killed, r.reason = s.reason, r.cause = s.cause, r.moved = s.moved
  PROVE  Kept(a, r)
BY DEF Kept, Record, Status

LEMMA RegisteredCurrent ==
  ASSUME Inv, NEW a \in Agents, NEW n \in Now
  PROVE  LET s == Registered(Current(a, n), n) IN
         Typed(s) /\ Fits(s, policy[a], under[a], clock) /\ Kept(a, s)
<1> DEFINE c == Current(a, n)
<1>1. Fits(c, policy[a], under[a], clock) /\ Kept(a, c)
  BY CurrentFits
<1>2. n \in 0 .. MaxTime /\ n <= clock /\ clock \in Nat
  BY CallTimes, Numbers DEF Inv, Frame
<1> HIDE DEF c
<1> DEFINE s == Registered(c, n)
<1>3. Fits(s, policy[a], under[a], clock)
  BY <1>1, <1>2, RegisteredFits
<1>4. /\ s.spent = c.spent /\ s.start = c.start /\ s.resets = c.resets
      /\ s.killed = c.killed /\ s.reason = c.reason /\ s.dirty = c.dirty /\ s.cause = c.cause
      /\ s.moved = c.moved
  BY <1>1, <1>2, RegisteredIs DEF Fits
<1> HIDE DEF s
<1>5. Typed(s) /\ Kept(a, s)
  BY <1>1, <1>3, <1>4, KeptAlike DEF Fits
<1> QED
  BY <1>3, <1>5 DEF s, c

-----------------------------------------------------------------------------
(* The steps of a request.                                                  *)

LEMMA RefuseKilledKeepsInv ==
  ASSUME Inv, NEW a \in Agents, NEW n \in Now, RefuseKilled(a, n)
  PROVE  Inv'
<1>1. Set(a, Current(a, n)) /\ UNCHANGED <<global, under>> /\ Outside
  BY DEF RefuseKilled
<1>2. Fits(Current(a, n), policy[a], under[a], clock) /\ Kept(a, Current(a, n))
  BY CurrentFits
<1>3. global' \in [spent : Nat, resets : Nat] /\ GlobalBounded(global', Sum(under, Agents))
  BY <1>1 DEF Inv, Frame
<1> QED
  BY <1>1, <1>2, <1>3, CallKeepsInv

LEMMA RefuseGlobalKeepsInv ==
  ASSUME Inv, NEW a \in Agents, NEW n \in Now, NEW est \in Costs, RefuseGlobal(a, n, est)
  PROVE  Inv'
<1>1. Set(a, Current(a, n)) /\ global' = RollGlobal(n) /\ UNCHANGED under /\ Outside
  BY DEF RefuseGlobal
<1>2. Fits(Current(a, n), policy[a], under[a], clock) /\ Kept(a, Current(a, n))
  BY CurrentFits
<1> QED
  BY <1>1, <1>2, RollGlobalFits, CallKeepsInv

LEMMA RefuseRunawayKeepsInv ==
  ASSUME Inv, NEW a \in Agents, NEW n \in Now, NEW est \in Costs, RefuseRunaway(a, n, est)
  PROVE  Inv'
<1> DEFINE s == Registered(Current(a, n), n)
<1> DEFINE r == Kill(s, "runaway_detected")
<1>1. Set(a, r) /\ global' = RollGlobal(n) /\ UNCHANGED under /\ Outside
  BY DEF RefuseRunaway
<1>2. Typed(s) /\ Fits(s, policy[a], under[a], clock) /\ Kept(a, s)
  BY RegisteredCurrent
<1>3. clock \in Nat
  BY Numbers DEF Inv, Frame
<1> HIDE DEF s
<1>4. Fits(r, policy[a], under[a], clock)
  BY <1>2, <1>3, KillFits DEF Permanent
<1>5. r.dirty
  BY <1>2 DEF Typed, StateType, Kill
<1> HIDE DEF r
<1>6. Kept(a, r)
  BY <1>5 DEF Kept
<1> QED
  BY <1>1, <1>4, <1>6, RollGlobalFits, CallKeepsInv

LEMMA RefuseOverLimitKeepsInv ==
  ASSUME Inv, NEW a \in Agents, NEW n \in Now, NEW est \in Costs, RefuseOverLimit(a, n, est)
  PROVE  Inv'
<1> DEFINE s == Registered(Current(a, n), n)
<1> DEFINE r == [Kill(s, "budget_exceeded") EXCEPT !.cause = s.start]
<1>1. /\ Set(a, IF policy[a].action = "kill" THEN r ELSE s)
      /\ global' = RollGlobal(n) /\ UNCHANGED under /\ Outside
  BY DEF RefuseOverLimit
<1>2. Typed(s) /\ Fits(s, policy[a], under[a], clock) /\ Kept(a, s)
  BY RegisteredCurrent
<1>3. clock \in Nat
  BY Numbers DEF Inv, Frame
<1> HIDE DEF s
<1>4. CASE policy[a].action = "kill"
  <2>1. Fits(r, policy[a], under[a], clock) /\ r.dirty
    BY <1>2, <1>3, ExceededFits
  <2> HIDE DEF r
  <2>2. Kept(a, r)
    BY <2>1 DEF Kept
  <2> QED BY <1>1, <1>4, <2>1, <2>2, RollGlobalFits, CallKeepsInv
<1>5. CASE policy[a].action # "kill"
  <2> HIDE DEF r
  <2> QED BY <1>1, <1>2, <1>5, RollGlobalFits, CallKeepsInv
<1> QED
  BY <1>4, <1>5

(* The sum follows the requests under way of one agent.                     *)
LEMMA UnderChange ==
  ASSUME Frame, NEW a \in Agents, NEW v \in Nat, under' = [under EXCEPT ![a] = v]
  PROVE  /\ under' \in [Agents -> Nat] /\ under'[a] = v /\ \A b \in Agents : b # a => under'[b] = under[b]
         /\ Sum(under', Agents) = Sum(under, Agents) + v - under[a] /\ Sum(under', Agents) \in Nat
<1>1. /\ under' \in [Agents -> Nat] /\ under'[a] = v
      /\ \A b \in Agents : b # a => under'[b] = under[b]
  BY DEF Frame
<1>2. \A b \in Agents : under[b] \in Nat /\ under'[b] \in Nat /\ (b # a => under'[b] = under[b])
  BY <1>1 DEF Frame
<1>3. Sum(under', Agents) = Sum(under, Agents) + under'[a] - under[a]
  <2>1. IsFiniteSet(Agents)
    BY UnderFits
  <2> DEFINE f == under
  <2> DEFINE g == under'
  <2>2. \A b \in Agents : f[b] \in Nat /\ g[b] \in Nat /\ (b # a => g[b] = f[b])
    BY <1>2
  <2> HIDE DEF f, g
  <2>3. Sum(g, Agents) = Sum(f, Agents) + g[a] - f[a]
    BY <2>1, <2>2, SumChange
  <2> QED BY <2>3 DEF f, g
<1>4. Sum(under', Agents) \in Nat
  BY <1>2, UnderFits, SumRec
<1> QED
  BY <1>1, <1>3, <1>4

LEMMA AdmitKeepsInv ==
  ASSUME Inv, NEW a \in Agents, NEW n \in Now, NEW est \in Costs, Admit(a, n, est)
  PROVE  Inv'
<1> DEFINE c == Current(a, n)
<1> DEFINE r == Registered(c, n)
<1> DEFINE q == LetThrough(r, n)
<1>1. /\ Set(a, q) /\ global' = RollGlobal(n) /\ Outside
      /\ under' = [under EXCEPT ![a] = under[a] + 1]
      /\ Total(under) < MaxUnder /\ ~GlobalFull(n, est)
      /\ ~Runaway(r) /\ ~(OverLimit(policy[a], r, est) /\ Enforces(policy[a]))
  BY DEF Admit, LetThrough
<1>2. Fits(c, policy[a], under[a], clock) /\ Kept(a, c) /\ policy[a] \in Policy
  BY CurrentFits DEF Inv, Frame
<1>3. /\ clock \in Nat /\ n \in 0 .. MaxTime /\ n <= clock /\ clock <= n + 1 /\ (~LateCalls => n = clock)
  BY CallTimes, Numbers DEF Inv, Frame
<1> HIDE DEF c
<1>4. /\ Fits(q, policy[a], under[a] + 1, clock) /\ q.dirty = c.dirty
      /\ q.spent = c.spent /\ q.start = c.start /\ q.resets = c.resets /\ q.killed = c.killed
      /\ q.reason = c.reason /\ q.cause = c.cause /\ q.moved = c.moved
  <2> HIDE DEF r
  <2>1. r = Registered(c, n) /\ q = LetThrough(r, n)
    BY DEF r
  <2> HIDE DEF q
  <2> QED BY <1>1, <1>2, <1>3, <2>1, AdmittedFits
<1> HIDE DEF r, q
<1>5. Kept(a, q)
  BY <1>2, <1>4, KeptAlike
<1>6. under[a] + 1 \in Nat /\ under[a] \in Nat
  BY UnderFits DEF Inv
<1>7. /\ under' \in [Agents -> Nat] /\ under'[a] = under[a] + 1 /\ \A b \in Agents : b # a => under'[b] = under[b]
      /\ Sum(under', Agents) = Sum(under, Agents) + (under[a] + 1) - under[a]
  BY <1>1, <1>6, UnderChange DEF Inv
<1>8. Sum(under', Agents) <= MaxUnder
  BY <1>1, <1>6, <1>7, UnderFits, Numbers DEF Inv, Total
<1>9. GlobalBounded(global', Sum(under', Agents))
  <2>1. est \in Nat /\ GlobalLimit \in Nat /\ RollGlobal(n).spent \in Nat
    BY RollGlobalFits, Numbers
  <2>2. ~(GlobalLimit > 0 /\ global'.spent > GlobalLimit)
    BY <1>1, <2>1 DEF GlobalFull
  <2> QED BY <2>2 DEF GlobalBounded
<1> QED
  BY <1>1, <1>4, <1>5, <1>7, <1>8, <1>9, RollGlobalFits, SetKeepsInv

LEMMA GlobalBilled ==
  ASSUME NEW g, g.spent \in Nat, NEW u \in Nat, u > 0, u <= MaxUnder, GlobalBounded(g, u), NEW cost \in Costs,
         NEW h, h.spent = g.spent + cost
  PROVE  GlobalBounded(h, u - 1)
<1> SUFFICES ASSUME GlobalLimit > 0, h.spent > GlobalLimit
             PROVE  h.spent + MaxCost * (u - 1) <= GlobalLimit + MaxCost * MaxUnder
  BY DEF GlobalBounded
<1>1. cost \in Nat /\ cost <= MaxCost /\ MaxCost \in Nat /\ MaxUnder \in Nat /\ GlobalLimit \in Nat
  BY Numbers
<1> DEFINE m == MaxCost * (u - 1)
<1> DEFINE k == MaxCost * u
<1> DEFINE l == MaxCost * MaxUnder
<1>2. m \in Nat /\ k = m + MaxCost
  <2>1. u - 1 \in Nat /\ u = (u - 1) + 1
    OBVIOUS
  <2> QED BY <1>1, <2>1, Times
<1>3. k <= l /\ k \in Nat /\ l \in Nat
  BY <1>1, Times, TimesUpTo
<1>4. g.spent > GlobalLimit => g.spent + k <= GlobalLimit + l
  BY DEF GlobalBounded
<1> HIDE DEF m, k, l
<1>5. h.spent + m <= GlobalLimit + l
  BY <1>1, <1>2, <1>3, <1>4
<1> QED
  BY <1>5 DEF m, l

LEMMA RecordSpendKeepsInv ==
  ASSUME Inv, NEW a \in Agents, NEW n \in Now, NEW cost \in Costs, RecordSpend(a, n, cost)
  PROVE  Inv'
<1> DEFINE c == Current(a, n)
<1> DEFINE q == Billed(c, policy[a], cost)
<1> DEFINE g == RollGlobal(n)
<1>1. /\ under[a] > 0 /\ Set(a, q) /\ global' = [g EXCEPT !.spent = @ + cost]
      /\ under' = [under EXCEPT ![a] = under[a] - 1] /\ Outside
  BY DEF RecordSpend, Billed
<1>2. Fits(c, policy[a], under[a], clock) /\ policy[a] \in Policy
  BY CurrentFits DEF Inv, Frame
<1>3. under[a] \in Nat /\ under[a] <= MaxUnder /\ under[a] - 1 \in Nat /\ under[a] <= Sum(under, Agents)
      /\ Sum(under, Agents) \in Nat /\ Sum(under, Agents) <= MaxUnder /\ MaxUnder \in Nat /\ cost \in Nat
  BY <1>1, UnderFits, Numbers DEF Inv, Frame
<1> HIDE DEF c
<1>4. Fits(q, policy[a], under[a] - 1, clock) /\ q.dirty = TRUE
  <2>1. q = Billed(c, policy[a], cost)
    OBVIOUS
  <2> HIDE DEF q
  <2> QED BY <1>1, <1>2, <1>3, <2>1, BilledFits
<1> HIDE DEF q
<1>5. Fits(q, policy[a], under[a] - 1, clock) /\ Kept(a, q)
  BY <1>4 DEF Kept
<1>6. /\ under' \in [Agents -> Nat] /\ under'[a] = under[a] - 1 /\ \A b \in Agents : b # a => under'[b] = under[b]
      /\ Sum(under', Agents) = Sum(under, Agents) + (under[a] - 1) - under[a]
  BY <1>1, <1>3, UnderChange DEF Inv
<1>7. Sum(under', Agents) = Sum(under, Agents) - 1 /\ Sum(under', Agents) <= MaxUnder
  BY <1>3, <1>6
<1>8. g \in [spent : Nat, resets : Nat] /\ GlobalBounded(g, Sum(under, Agents))
  BY RollGlobalFits
<1> HIDE DEF g
<1>9. global' \in [spent : Nat, resets : Nat] /\ global'.spent = g.spent + cost /\ g.spent \in Nat
  BY <1>1, <1>3, <1>8
<1>10. GlobalBounded(global', Sum(under', Agents))
  <2>1. Sum(under, Agents) > 0
    BY <1>1, <1>3
  <2>2. GlobalBounded(global', Sum(under, Agents) - 1)
    BY <1>3, <1>8, <1>9, <2>1, GlobalBilled
  <2> QED BY <1>7, <2>2
<1> QED
  BY <1>1, <1>5, <1>6, <1>7, <1>9, <1>10, SetKeepsInv

LEMMA FailKeepsInv ==
  ASSUME Inv, NEW a \in Agents, Fail(a)
  PROVE  Inv'
<1>1. /\ under[a] > 0 /\ under' = [under EXCEPT ![a] = under[a] - 1]
      /\ UNCHANGED <<clock, settled, policy, row, copies, astray, state, global>>
  BY DEF Fail, Outside, store
<1>2. /\ \A b \in Agents : under[b] \in Nat
      /\ under[a] - 1 \in Nat /\ Sum(under, Agents) \in Nat /\ Sum(under, Agents) <= MaxUnder
      /\ MaxUnder \in Nat /\ MaxCost \in Nat
  BY <1>1, UnderFits, Numbers DEF Inv, Frame
<1>3. /\ under' \in [Agents -> Nat] /\ under'[a] = under[a] - 1 /\ \A b \in Agents : b # a => under'[b] = under[b]
      /\ Sum(under', Agents) = Sum(under, Agents) + (under[a] - 1) - under[a] /\ Sum(under', Agents) \in Nat
  BY <1>1, <1>2, UnderChange DEF Inv
<1>4. Sum(under', Agents) <= MaxUnder /\ Sum(under', Agents) <= Sum(under, Agents)
  BY <1>2, <1>3
<1>5. Frame'
  BY <1>1, <1>3, <1>4 DEF Inv, Frame
<1>6. AgentsInv'
  <2> SUFFICES ASSUME NEW b \in Tracked'
               PROVE  /\ Fits(state'[b], policy'[b], under'[b], clock')
                      /\ ~state'[b].dirty /\ b \notin astray' => Stands(row', copies', b, Record(b, state[b])')
    BY DEF AgentsInv
  <2>1. b \in Agents /\ b \in Tracked
    BY <1>1 DEF Tracked
  <2>2. /\ Fits(state[b], policy[b], under[b], clock)
        /\ ~state[b].dirty /\ b \notin astray => Stands(row, copies, b, Record(b, state[b]))
    BY <2>1 DEF Inv, AgentsInv
  <2>3. Record(b, state[b])' = Record(b, state[b])
    BY <1>1 DEF Record
  <2>4. under'[b] \in Nat /\ under[b] \in Nat /\ under'[b] <= under[b]
    BY <1>2, <1>3, <2>1
  <2>5. Bounded(state[b], policy[b], under'[b])
    <3> DEFINE k == MaxCost * under'[b]
    <3> DEFINE m == MaxCost * under[b]
    <3> DEFINE l == MaxCost * MaxUnder
    <3>1. k <= m /\ k \in Nat /\ m \in Nat /\ l \in Nat
      BY <1>2, <2>4, Times, TimesUpTo
    <3>2. state[b].spent \in Nat /\ policy[b].limit \in Nat
      BY <2>1, <2>2 DEF Fits, Typed, StateType, Inv, Frame, Policy
    <3>3. Overspends(policy[b], state[b]) => state[b].spent + m <= policy[b].limit + l
      BY <2>2 DEF Fits, Bounded
    <3> HIDE DEF k, m, l
    <3>4. Overspends(policy[b], state[b]) => state[b].spent + k <= policy[b].limit + l
      BY <3>1, <3>2, <3>3
    <3> QED BY <3>4 DEF Bounded, k, l
  <2>6. Fits(state[b], policy[b], under'[b], clock)
    BY <2>2, <2>5 DEF Fits
  <2> QED BY <1>1, <2>2, <2>3, <2>6
<1>7. RowsInv'
  BY <1>1 DEF Inv, RowsInv
<1>8. GlobalBounded(global', Sum(under', Agents))
  <2> DEFINE k == MaxCost * Sum(under', Agents)
  <2> DEFINE m == MaxCost * Sum(under, Agents)
  <2> DEFINE l == MaxCost * MaxUnder
  <2>1. k <= m /\ k \in Nat /\ m \in Nat /\ l \in Nat
    BY <1>2, <1>3, <1>4, Times, TimesUpTo
  <2>2. global.spent \in Nat /\ GlobalLimit \in Nat /\ global' = global
    BY <1>1, Numbers DEF Inv, Frame
  <2>3. GlobalLimit > 0 /\ global.spent > GlobalLimit => global.spent + m <= GlobalLimit + l
    BY DEF Inv, GlobalBounded
  <2> HIDE DEF k, m, l
  <2>4. GlobalLimit > 0 /\ global.spent > GlobalLimit => global.spent + k <= GlobalLimit + l
    BY <2>1, <2>2, <2>3
  <2> QED BY <2>2, <2>4 DEF GlobalBounded, k, l
<1> QED
  BY <1>5, <1>6, <1>7, <1>8 DEF Inv

-----------------------------------------------------------------------------
(* The management API.                                                      *)

(* What every call that leaves the sums alone keeps.                        *)
LEMMA GlobalKept ==
  ASSUME Inv, UNCHANGED global
  PROVE  global' \in [spent : Nat, resets : Nat] /\ GlobalBounded(global', Sum(under, Agents))
BY DEF Inv, Frame

LEMMA KillAgentKeepsInv ==
  ASSUME Inv, NEW a \in Agents, NEW n \in Now, KillAgent(a, n)
  PROVE  Inv'
<1> DEFINE s == Of(a, policy[a], n)
<1> DEFINE r == Kill(s, "manual_kill")
<1>1. Set(a, r) /\ UNCHANGED <<global, under>> /\ Outside
  BY DEF KillAgent
<1>2. Fits(s, policy[a], under[a], clock) /\ clock \in Nat
  BY CurrentFits, Numbers DEF Inv, Frame
<1> HIDE DEF s
<1>3. Fits(r, policy[a], under[a], clock)
  BY <1>2, KillFits DEF Permanent
<1>4. Kept(a, r)
  BY <1>2 DEF Fits, Typed, StateType, Kill, Kept
<1> HIDE DEF r
<1> QED
  BY <1>1, <1>3, <1>4, GlobalKept, CallKeepsInv

LEMMA EnableAgentKeepsInv ==
  ASSUME Inv, NEW a \in Agents, NEW n \in Now, EnableAgent(a, n)
  PROVE  Inv'
<1> DEFINE s == Of(a, policy[a], n)
<1> DEFINE r == [s EXCEPT !.killed = FALSE, !.reason = NoReason, !.cause = 0, !.dirty = TRUE]
<1>1. Set(a, r) /\ UNCHANGED <<global, under>> /\ Outside
  BY DEF EnableAgent
<1>2. Fits(s, policy[a], under[a], clock) /\ clock \in Nat
  BY CurrentFits, Numbers DEF Inv, Frame
<1> HIDE DEF s
<1>3. Fits(r, policy[a], under[a], clock) /\ r.dirty = TRUE
  BY <1>2, EnabledFits
<1> HIDE DEF r
<1>4. Kept(a, r)
  BY <1>3 DEF Kept
<1> QED
  BY <1>1, <1>3, <1>4, GlobalKept, CallKeepsInv

LEMMA UpdateBudgetKeepsInv ==
  ASSUME Inv, NEW a \in Agents, NEW n \in Now, NEW p \in Policies, UpdateBudget(a, n, p)
  PROVE  Inv'
<1> DEFINE s == Roll(Of(a, p, n), p, n)
<1> DEFINE r == [s EXCEPT !.dirty = TRUE, !.moved = TRUE]
<1>1. /\ policy' = [policy EXCEPT ![a] = p] /\ Set(a, r)
      /\ UNCHANGED <<clock, settled, row, copies, astray>> /\ UNCHANGED global /\ UNCHANGED under
  BY DEF UpdateBudget, store
<1>2. p \in Policy /\ n \in 0 .. MaxTime
  BY ConstantsAssumption, CallTimes DEF Inv
<1>3. Typed(s) /\ ((a \in Tracked /\ s = state[a]) \/ Renewed(a, s))
  BY <1>2, InvRules, StateIs
<1> HIDE DEF s
<1>4. CauseOK(s) /\ Bursts(s, clock)
  <2>1. CASE a \in Tracked /\ s = state[a]
    BY <2>1 DEF Inv, AgentsInv, Fits
  <2>2. CASE Renewed(a, s)
    BY <1>2, <1>3, <2>2, RenewedFits DEF Fits
  <2> QED BY <1>3, <2>1, <2>2
<1>5. Fits(r, p, under[a], clock) /\ r.dirty = TRUE
  BY <1>3, <1>4, MovedFits
<1> HIDE DEF r
<1>6. /\ policy' \in [Agents -> Policy] /\ policy'[a] = p /\ \A b \in Agents : b # a => policy'[b] = policy[b]
  BY <1>1, <1>2 DEF Inv, Frame
<1>7. under' \in [Agents -> Nat] /\ under'[a] = under[a] /\ Sum(under', Agents) <= MaxUnder
      /\ Sum(under', Agents) = Sum(under, Agents) /\ \A b \in Agents : b # a => under'[b] = under[b]
  BY <1>1 DEF Inv, Frame
<1>8. global' \in [spent : Nat, resets : Nat] /\ GlobalBounded(global', Sum(under', Agents))
  BY <1>1, <1>7, GlobalKept
<1>9. Fits(r, policy'[a], under'[a], clock)
  BY <1>5, <1>6, <1>7
<1>10. Set(a, r) /\ UNCHANGED <<clock, settled, row, copies, astray>>
  BY <1>1
<1>11. r.dirty \/ (policy'[a] = policy[a] /\ Kept(a, r))
  BY <1>5
<1> QED
  BY <1>6, <1>7, <1>8, <1>9, <1>10, <1>11, ChangeKeepsInv

LEMMA ResetBudgetKeepsInv ==
  ASSUME Inv, NEW a \in Agents, NEW n \in Now, ResetBudget(a, n)
  PROVE  Inv'
<1> DEFINE s == NewPeriod(Of(a, policy[a], n), policy[a], n)
<1>1. Set(a, s) /\ UNCHANGED <<global, under>> /\ Outside
  BY DEF ResetBudget
<1>2. Fits(s, policy[a], under[a], clock) /\ Kept(a, s)
  BY CurrentFits
<1> HIDE DEF s
<1> QED
  BY <1>1, <1>2, GlobalKept, CallKeepsInv

LEMMA ViewKeepsInv ==
  ASSUME Inv, NEW a \in Agents, NEW n \in Now, View(a, n)
  PROVE  Inv'
<1>1. Set(a, Current(a, n)) /\ UNCHANGED <<global, under>> /\ Outside
  BY DEF View
<1>2. Fits(Current(a, n), policy[a], under[a], clock) /\ Kept(a, Current(a, n))
  BY CurrentFits
<1> QED
  BY <1>1, <1>2, GlobalKept, CallKeepsInv

LEMMA GetGlobalBudgetKeepsInv ==
  ASSUME Inv, NEW n \in Now, GetGlobalBudget(n)
  PROVE  Inv'
<1>1. global' = RollGlobal(n) /\ UNCHANGED <<clock, settled, policy, row, copies, astray, state, under>>
  BY DEF GetGlobalBudget, Outside, store
<1>2. Frame'
  BY <1>1, RollGlobalFits DEF Inv, Frame
<1>3. AgentsInv' /\ RowsInv'
  BY <1>1 DEF Inv, AgentsInv, RowsInv, Tracked, Record
<1>4. GlobalBounded(global', Sum(under', Agents))
  BY <1>1, RollGlobalFits
<1> QED
  BY <1>2, <1>3, <1>4 DEF Inv

-----------------------------------------------------------------------------
(* The store, restarts and the clock.                                       *)

Cleaned(s) == [s EXCEPT !.dirty = FALSE]

LEMMA CleanFits ==
  ASSUME NEW s, NEW p, NEW u, NEW now, Fits(s, p, u, now)
  PROVE  /\ Fits(Cleaned(s), p, u, now) /\ Cleaned(s).dirty = FALSE
         /\ Cleaned(s).spent = s.spent /\ Cleaned(s).start = s.start /\ Cleaned(s).resets = s.resets
         /\ Cleaned(s).killed = s.killed /\ Cleaned(s).reason = s.reason /\ Cleaned(s).cause = s.cause
         /\ Cleaned(s).moved = s.moved
<1> DEFINE r == Cleaned(s)
<1>1. s \in StateType
  BY DEF Fits, Typed
<1>2. /\ r \in StateType /\ r.dirty = FALSE /\ r.spent = s.spent /\ r.start = s.start /\ r.resets = s.resets
      /\ r.killed = s.killed /\ r.reason = s.reason /\ r.cause = s.cause /\ r.moved = s.moved
      /\ r.fired = s.fired /\ r.times = s.times /\ r.passed = s.passed
  BY <1>1 DEF StateType, Cleaned
<1> HIDE DEF r
<1>3. Fits(r, p, u, now)
  BY <1>2 DEF Fits, Typed, CauseOK, Thresholds, Bounded, Overspends, Bursts
<1> QED
  BY <1>2, <1>3 DEF r

LEMMA FlushedFits ==
  ASSUME Inv, NEW n \in Now, NEW a \in Tracked, NEW c, c = Current(a, n), NEW r, r = Cleaned(c)
  PROVE  /\ Fits(r, policy[a], under[a], clock) /\ r \in StateType /\ r.dirty = FALSE
         /\ Record(a, r) = Record(a, c) /\ Record(a, c) \in RowType /\ RowFits(Record(a, c))
         /\ ~c.dirty /\ a \notin astray => Stands(row, copies, a, Record(a, c))
<1>1. a \in Agents /\ policy[a] \in Policy /\ under[a] \in Nat
  BY DEF Tracked, Inv, Frame
<1>2. Fits(c, policy[a], under[a], clock) /\ Kept(a, c)
  BY <1>1, CurrentFits
<1>3. /\ Fits(r, policy[a], under[a], clock) /\ r.dirty = FALSE
      /\ r.spent = c.spent /\ r.start = c.start /\ r.resets = c.resets /\ r.killed = c.killed
      /\ r.reason = c.reason /\ r.cause = c.cause /\ r.moved = c.moved
  BY <1>2, CleanFits
<1>4. Record(a, c) \in RowType /\ RowFits(Record(a, c))
  BY <1>1, <1>2, RecordFits
<1>5. ~c.dirty /\ a \notin astray => Stands(row, copies, a, Record(a, c))
  BY <1>2 DEF Kept, Inv, AgentsInv
<1>6. Record(a, r) = Record(a, c) /\ r \in StateType
  BY <1>3 DEF Record, Status, Fits, Typed
<1> QED
  BY <1>3, <1>4, <1>5, <1>6

LEMMA TakeCopiesKeepsInv ==
  ASSUME Inv, NEW f \in Flushers, NEW n \in Now, TakeCopies(f, n)
  PROVE  Inv'
<1> DEFINE c(a) == Current(a, n)
<1> DEFINE r(a) == Cleaned(c(a))
<1> DEFINE due == {a \in Tracked : c(a).dirty}
<1>1. /\ copies[f] = NoCopies
      /\ state' = [a \in Agents |-> IF a \in Tracked THEN r(a) ELSE None]
      /\ copies' = [copies EXCEPT ![f] = [a \in Agents |-> IF a \in due THEN Record(a, c(a)) ELSE None]]
      /\ astray' = (astray \ due) \cup {a \in due : OnTheWay(a) # {}}
      /\ UNCHANGED <<clock, settled, policy, global, row, under>>
  BY DEF TakeCopies, Cleaned
<1>2. ASSUME NEW a \in Agents, a \in Tracked
      PROVE  /\ Fits(r(a), policy[a], under[a], clock) /\ r(a) \in StateType /\ r(a).dirty = FALSE
             /\ Record(a, r(a)) = Record(a, c(a)) /\ Record(a, c(a)) \in RowType /\ RowFits(Record(a, c(a)))
             /\ ~c(a).dirty /\ a \notin astray => Stands(row, copies, a, Record(a, c(a)))
  BY <1>2, FlushedFits
<1>3. due \subseteq Agents /\ \A a \in Agents : a \in due <=> a \in Tracked /\ c(a).dirty
  BY DEF Tracked
<1> HIDE DEF c, r, due
<1>4. state' \in [Agents -> StateType \cup {None}]
  BY <1>1, <1>2
<1>5. /\ copies' \in [Flushers -> [Agents -> RowType \cup {None}]]
      /\ \A a \in Agents : copies'[f][a] = IF a \in due THEN Record(a, c(a)) ELSE None
      /\ \A g \in Flushers : g # f => copies'[g] = copies[g]
      /\ \A a \in Agents : copies[f][a] = None
  <2> DEFINE new == [a \in Agents |-> IF a \in due THEN Record(a, c(a)) ELSE None]
  <2>1. new \in [Agents -> RowType \cup {None}]
    BY <1>2, <1>3
  <2>2. copies' = [copies EXCEPT ![f] = new] /\ \A a \in Agents : new[a] = IF a \in due THEN Record(a, c(a)) ELSE None
    BY <1>1
  <2> HIDE DEF new
  <2>3. copies \in [Flushers -> [Agents -> RowType \cup {None}]]
    BY DEF Inv, Frame
  <2>4. \A a \in Agents : copies[f][a] = None
    BY <1>1 DEF NoCopies
  <2> QED BY <2>1, <2>2, <2>3, <2>4
<1>6. astray' \subseteq Agents
  BY <1>1, <1>3 DEF Inv, Frame
<1>7. Frame'
  BY <1>1, <1>4, <1>5, <1>6 DEF Inv, Frame
<1>8. AgentsInv'
  <2> SUFFICES ASSUME NEW a \in Tracked'
               PROVE  /\ Fits(state'[a], policy'[a], under'[a], clock')
                      /\ ~state'[a].dirty /\ a \notin astray' => Stands(row', copies', a, Record(a, state[a])')
    BY DEF AgentsInv
  <2>1. a \in Agents /\ a \in Tracked
    BY <1>1 DEF Tracked
  <2>2. state'[a] = r(a)
    BY <1>1, <2>1
  <2>3. Record(a, state[a])' = Record(a, c(a))
    <3>1. Record(a, state[a])' = Record(a, r(a))
      BY <1>1, <2>2 DEF Record
    <3> QED BY <1>2, <2>1, <3>1
  <2> DEFINE q == Record(a, c(a))
  <2>4. ASSUME a \notin astray', a \in due PROVE Stands(row', copies', a, q)
    <3>1. OnTheWay(a) = {}
      BY <1>1, <2>4
    <3>2. \A g \in Flushers : copies[g][a] = None
      BY <3>1 DEF OnTheWay
    <3>3. copies'[f][a] = q /\ q # None /\ \A g \in Flushers : copies'[g][a] \in {None, q}
      BY <1>2, <1>5, <2>1, <2>4, <3>2, NoneAssumption
    <3> HIDE DEF q
    <3> QED BY <3>3 DEF Stands
  <2>5. ASSUME a \notin astray', a \notin due PROVE Stands(row', copies', a, q)
    <3>1. Stands(row, copies, a, q)
      BY <1>1, <1>2, <1>3, <2>1, <2>5
    <3>2. \A g \in Flushers : copies'[g][a] = copies[g][a]
      BY <1>5, <2>1, <2>5
    <3> HIDE DEF q
    <3> QED BY <1>1, <3>1, <3>2 DEF Stands
  <2> QED BY <1>1, <1>2, <2>1, <2>2, <2>3, <2>4, <2>5
<1>9. RowsInv'
  <2> SUFFICES ASSUME NEW a \in Agents
               PROVE  /\ row'[a] # None => RowFits(row'[a])
                      /\ \A g \in Flushers : copies'[g][a] # None => RowFits(copies'[g][a])
    BY DEF RowsInv
  <2>1. /\ row[a] # None => RowFits(row[a])
        /\ \A g \in Flushers : copies[g][a] # None => RowFits(copies[g][a])
    BY DEF Inv, RowsInv
  <2>2. a \in due => RowFits(Record(a, c(a)))
    BY <1>2, <1>3
  <2> QED BY <1>1, <1>5, <2>1, <2>2
<1>10. GlobalBounded(global', Sum(under', Agents))
  BY <1>1 DEF Inv
<1> QED
  BY <1>7, <1>8, <1>9, <1>10 DEF Inv

(* What a write and its failure leave alone.                                *)
LEMMA StoreStepKeepsInv ==
  ASSUME Inv, UNCHANGED <<clock, settled, policy, state, global, under>>,
         row' \in [Agents -> RowType \cup {None}],
         copies' \in [Flushers -> [Agents -> RowType \cup {None}]], astray' \subseteq Agents, RowsInv',
         \A a \in Agents, q \in RowType :
           a \notin astray' /\ (a \notin astray => Stands(row, copies, a, q)) => Stands(row', copies', a, q)
  PROVE  Inv'
<1>1. Frame'
  BY DEF Inv, Frame
<1>2. AgentsInv'
  <2> SUFFICES ASSUME NEW a \in Tracked
               PROVE  /\ Fits(state[a], policy[a], under[a], clock)
                      /\ ~state[a].dirty /\ a \notin astray' => Stands(row', copies', a, Record(a, state[a]))
    BY DEF AgentsInv, Tracked, Record
  <2>1. a \in Agents /\ policy[a] \in Policy /\ under[a] \in Nat
    BY DEF Tracked, Inv, Frame
  <2>2. /\ Fits(state[a], policy[a], under[a], clock)
        /\ ~state[a].dirty /\ a \notin astray => Stands(row, copies, a, Record(a, state[a]))
    BY DEF Inv, AgentsInv
  <2>3. Record(a, state[a]) \in RowType
    BY <2>1, <2>2, RecordFits
  <2> QED BY <2>1, <2>2, <2>3
<1>3. GlobalBounded(global', Sum(under', Agents))
  BY DEF Inv
<1> QED
  BY <1>1, <1>2, <1>3 DEF Inv

LEMMA StoreCopyKeepsInv ==
  ASSUME Inv, NEW f \in Flushers, NEW a \in Agents, StoreCopy(f, a)
  PROVE  Inv'
<1> DEFINE w == copies[f][a]
<1>1. /\ w # None /\ row' = [row EXCEPT ![a] = w] /\ copies' = [copies EXCEPT ![f][a] = None]
      /\ UNCHANGED <<clock, settled, policy, state, global, astray, under>>
  BY DEF StoreCopy
<1>2. row \in [Agents -> RowType \cup {None}] /\ copies \in [Flushers -> [Agents -> RowType \cup {None}]]
      /\ astray \subseteq Agents
  BY DEF Inv, Frame
<1>3. w \in RowType /\ RowFits(w)
  <2>1. w \in RowType
    BY <1>1, <1>2
  <2> QED BY <1>1, <2>1 DEF Inv, RowsInv
<1>4. /\ \A b \in Agents : row'[b] = IF b = a THEN w ELSE row[b]
      /\ \A g \in Flushers, b \in Agents : copies'[g][b] = IF g = f /\ b = a THEN None ELSE copies[g][b]
      /\ row' \in [Agents -> RowType \cup {None}] /\ copies' \in [Flushers -> [Agents -> RowType \cup {None}]]
  BY <1>1, <1>2, <1>3
<1>5. RowsInv'
  BY <1>3, <1>4 DEF Inv, RowsInv
<1>6. ASSUME NEW b \in Agents, NEW q \in RowType, Stands(row, copies, b, q) PROVE Stands(row', copies', b, q)
  <2>1. CASE b = a
    <3>1. w = q
      BY <1>1, <1>6, <2>1 DEF Stands
    <3> HIDE DEF w
    <3> QED BY <1>4, <1>6, <2>1, <3>1 DEF Stands
  <2>2. CASE b # a
    BY <1>4, <1>6, <2>2 DEF Stands
  <2> QED BY <2>1, <2>2
<1> QED
  BY <1>1, <1>2, <1>4, <1>5, <1>6, StoreStepKeepsInv

LEMMA FailStoreKeepsInv ==
  ASSUME Inv, NEW f \in Flushers, FailStore(f)
  PROVE  Inv'
<1>1. /\ copies' = [copies EXCEPT ![f] = NoCopies]
      /\ astray' = astray \cup {a \in Agents : copies[f][a] # None}
      /\ UNCHANGED <<clock, settled, policy, state, global, row, under>>
  BY DEF FailStore
<1>2. row \in [Agents -> RowType \cup {None}] /\ copies \in [Flushers -> [Agents -> RowType \cup {None}]]
      /\ astray \subseteq Agents
  BY DEF Inv, Frame
<1>3. /\ \A g \in Flushers, b \in Agents : copies'[g][b] = IF g = f THEN None ELSE copies[g][b]
      /\ copies' \in [Flushers -> [Agents -> RowType \cup {None}]] /\ astray' \subseteq Agents
  BY <1>1, <1>2 DEF NoCopies
<1>4. RowsInv'
  BY <1>1, <1>3 DEF Inv, RowsInv
<1>5. ASSUME NEW b \in Agents, NEW q \in RowType, b \notin astray', b \notin astray => Stands(row, copies, b, q)
      PROVE  Stands(row', copies', b, q)
  <2>1. b \notin astray /\ copies[f][b] = None
    BY <1>1, <1>5
  <2>2. \A g \in Flushers : copies'[g][b] = copies[g][b]
    BY <1>3, <2>1
  <2> QED BY <1>1, <1>5, <2>1, <2>2 DEF Stands
<1> QED
  BY <1>1, <1>2, <1>3, <1>4, <1>5, StoreStepKeepsInv

(* A start, the first or a later one: everything is read from the rows.     *)
LEMMA StartInv ==
  ASSUME NEW r \in [Agents -> RowType \cup {None}], \A a \in Agents : r[a] # None => RowFits(r[a]),
         row' = r, copies' = [f \in Flushers |-> NoCopies], astray' = {}, state' = [a \in Agents |-> IF r[a] = None THEN None ELSE Loaded(r[a])],
         policy' = StartPolicy(r), global' \in [spent : Nat, resets : Nat], global'.spent = 0,
         under' = [a \in Agents |-> 0], clock' \in 0 .. MaxTime, settled' = FALSE
  PROVE  Inv'
<1>1. Sum(under', Agents) = 0 /\ under' \in [Agents -> Nat]
  <2> DEFINE f == under'
  <2>1. IsFiniteSet(Agents) /\ \A a \in Agents : f[a] = 0
    BY ConstantsAssumption
  <2> HIDE DEF f
  <2>2. Sum(f, Agents) = 0
    BY <2>1, SumZero
  <2> QED BY <2>2 DEF f
<1>2. ASSUME NEW a \in Agents, r[a] # None
      PROVE  /\ r[a] \in RowType /\ RowFits(r[a]) /\ r[a].policy \in Policy
             /\ Loaded(r[a]) \in StateType /\ Fits(Loaded(r[a]), r[a].policy, 0, clock')
             /\ Loaded(r[a]).spent = r[a].spent /\ Loaded(r[a]).start = r[a].start
             /\ Loaded(r[a]).resets = r[a].resets /\ Loaded(r[a]).cause = r[a].cause
             /\ Loaded(r[a]).moved = r[a].moved /\ Status(Loaded(r[a])) = r[a].status
  <2>1. r[a] \in RowType /\ RowFits(r[a]) /\ r[a].policy \in Policy /\ r[a].policy = Stored(r[a].policy)
    BY <1>2 DEF RowType, RowFits
  <2>2. /\ Typed(Loaded(r[a]))
        /\ Loaded(r[a]).spent = r[a].spent /\ Loaded(r[a]).start = r[a].start
        /\ Loaded(r[a]).resets = r[a].resets /\ Loaded(r[a]).cause = r[a].cause
        /\ Loaded(r[a]).moved = r[a].moved /\ Status(Loaded(r[a])) = r[a].status
    BY <2>1, LoadedIs
  <2>3. Fits(Loaded(r[a]), r[a].policy, 0, clock')
    BY <2>1, LoadedFits
  <2> QED BY <2>1, <2>2, <2>3 DEF Typed
<1>3. policy' \in [Agents -> Policy] /\ \A a \in Agents : r[a] # None => policy'[a] = r[a].policy
  BY <1>2, ConstantsAssumption DEF StartPolicy
<1>4. state' \in [Agents -> StateType \cup {None}] /\ \A a \in Agents : r[a] # None => state'[a] = Loaded(r[a])
  BY <1>2
<1>5. Frame'
  <2>1. Sum(under', Agents) <= MaxUnder
    BY <1>1, Numbers
  <2>2. copies' \in [Flushers -> [Agents -> RowType \cup {None}]]
    BY DEF NoCopies
  <2> QED BY <1>1, <1>3, <1>4, <2>1, <2>2 DEF Frame
<1>6. AgentsInv'
  <2> SUFFICES ASSUME NEW a \in Tracked'
               PROVE  /\ Fits(state'[a], policy'[a], under'[a], clock')
                      /\ ~state'[a].dirty /\ a \notin astray' => Stands(row', copies', a, Record(a, state[a])')
    BY DEF AgentsInv
  <2>1. a \in Agents /\ r[a] # None
    BY DEF Tracked
  <2>2. state'[a] = Loaded(r[a]) /\ policy'[a] = r[a].policy /\ under'[a] = 0
    BY <1>3, <1>4, <2>1
  <2>3. Record(a, state[a])' = r[a]
    <3> DEFINE s == Loaded(r[a])
    <3>1. Record(a, state[a])' = [policy |-> Stored(r[a].policy), spent |-> s.spent, start |-> s.start,
                                  resets |-> s.resets, status |-> Status(s), cause |-> s.cause, moved |-> s.moved]
      BY <2>2 DEF Record
    <3> HIDE DEF s
    <3>2. /\ s.spent = r[a].spent /\ s.start = r[a].start /\ s.resets = r[a].resets /\ s.cause = r[a].cause
          /\ s.moved = r[a].moved /\ Status(s) = r[a].status
      BY <1>2, <2>1 DEF s
    <3>3. r[a] = [policy |-> r[a].policy, spent |-> r[a].spent, start |-> r[a].start, resets |-> r[a].resets,
                  status |-> r[a].status, cause |-> r[a].cause, moved |-> r[a].moved]
      BY <1>2, <2>1 DEF RowType
    <3>4. Stored(r[a].policy) = r[a].policy
      BY <1>2, <2>1 DEF RowFits
    <3> QED BY <3>1, <3>2, <3>3, <3>4
  <2>4. Stands(row', copies', a, r[a])
    BY <2>1 DEF Stands, NoCopies
  <2> QED BY <1>2, <2>1, <2>2, <2>3, <2>4
<1>7. RowsInv'
  BY DEF RowsInv, NoCopies
<1>8. GlobalBounded(global', Sum(under', Agents))
  BY Numbers DEF GlobalBounded
<1> QED
  BY <1>5, <1>6, <1>7, <1>8 DEF Inv

LEMMA RestartKeepsInv ==
  ASSUME Inv, NEW cfg \in Configs, Restart(cfg)
  PROVE  Inv'
<1> DEFINE r == Seeded(row, cfg, clock)
<1>1. /\ row' = r /\ copies' = [f \in Flushers |-> NoCopies] /\ astray' = {}
      /\ state' = [a \in Agents |-> IF r[a] = None THEN None ELSE Loaded(r[a])]
      /\ policy' = StartPolicy(r) /\ global' = [spent |-> 0, resets |-> clock + GlobalPeriod]
      /\ under' = [a \in Agents |-> 0] /\ settled' = FALSE /\ clock' = clock
  BY DEF Restart
<1>2. clock \in 0 .. MaxTime /\ clock \in Nat /\ clock + GlobalPeriod \in Nat
  BY Numbers DEF Inv, Frame
<1>3. r \in [Agents -> RowType \cup {None}] /\ \A a \in Agents : r[a] # None => RowFits(r[a])
  BY <1>2, SeededFits DEF Inv, Frame, RowsInv
<1> HIDE DEF r
<1>4. global' \in [spent : Nat, resets : Nat] /\ global'.spent = 0
  BY <1>1, <1>2
<1> QED
  BY <1>1, <1>2, <1>3, <1>4, StartInv

LEMMA TickKeepsInv ==
  ASSUME Inv, Tick
  PROVE  Inv'
<1>1. /\ clock < MaxTime /\ clock' = clock + 1 /\ settled' = LateCalls
      /\ UNCHANGED <<policy, state, global, row, copies, astray, under>>
  BY DEF Tick, store
<1>2. Frame'
  BY <1>1, Numbers DEF Inv, Frame
<1>3. AgentsInv'
  <2> SUFFICES ASSUME NEW a \in Tracked
               PROVE  /\ Fits(state[a], policy[a], under[a], clock + 1)
                      /\ ~state[a].dirty /\ a \notin astray => Stands(row, copies, a, Record(a, state[a]))
    BY <1>1 DEF AgentsInv, Tracked, Record
  <2>1. /\ Fits(state[a], policy[a], under[a], clock)
        /\ ~state[a].dirty /\ a \notin astray => Stands(row, copies, a, Record(a, state[a]))
    BY DEF Inv, AgentsInv
  <2>2. clock \in Nat /\ Window \in Nat /\ MaxTime \in Nat
    BY Numbers DEF Inv, Frame
  <2>3. Bursts(state[a], clock + 1)
    <3>1. \A u \in 0 .. MaxTime : u + Window >= clock + 1 => u + Window >= clock
      BY <2>2
    <3> QED BY <2>1, <3>1 DEF Fits, Bursts
  <2> QED BY <2>1, <2>3 DEF Fits
<1>4. RowsInv' /\ GlobalBounded(global', Sum(under', Agents))
  BY <1>1 DEF Inv, RowsInv
<1> QED
  BY <1>2, <1>3, <1>4 DEF Inv

LEMMA InitInv ==
  ASSUME Init
  PROVE  Inv
<1> DEFINE empty == [a \in Agents |-> None]
<1>1. PICK cfg \in Configs : row = Seeded(empty, cfg, 0)
  BY DEF Init
<1>2. empty \in [Agents -> RowType \cup {None}] /\ \A a \in Agents : empty[a] # None => RowFits(empty[a])
  OBVIOUS
<1> HIDE DEF empty
<1>3. row \in [Agents -> RowType \cup {None}] /\ \A a \in Agents : row[a] # None => RowFits(row[a])
  BY <1>1, <1>2, SeededFits
<1>10. copies = [f \in Flushers |-> NoCopies] /\ astray = {} /\ RowsInv
       /\ copies \in [Flushers -> [Agents -> RowType \cup {None}]]
  BY <1>3 DEF Init, RowsInv, NoCopies
<1>4. /\ clock = 0 /\ settled = FALSE /\ policy = StartPolicy(row)
      /\ state = [a \in Agents |-> IF row[a] = None THEN None ELSE Loaded(row[a])]
      /\ global = [spent |-> 0, resets |-> GlobalPeriod] /\ under = [a \in Agents |-> 0]
  BY DEF Init
<1>5. Sum(under, Agents) = 0
  <2>1. IsFiniteSet(Agents) /\ \A a \in Agents : under[a] = 0
    BY <1>4, ConstantsAssumption
  <2> QED BY <2>1, SumZero
<1>6. ASSUME NEW a \in Agents, row[a] # None
      PROVE  /\ row[a] \in RowType /\ row[a].policy \in Policy /\ policy[a] = row[a].policy
             /\ state[a] = Loaded(row[a]) /\ Loaded(row[a]) \in StateType
             /\ Fits(state[a], policy[a], 0, clock) /\ Record(a, state[a]) = row[a]
  <2> DEFINE q == row[a]
  <2>1. q \in RowType /\ RowFits(q) /\ q.policy \in Policy /\ q.policy = Stored(q.policy)
    BY <1>3, <1>6 DEF RowType, RowFits
  <2>2. policy[a] = q.policy /\ state[a] = Loaded(q)
    BY <1>4, <1>6 DEF StartPolicy
  <2> HIDE DEF q
  <2>3. Fits(Loaded(q), q.policy, 0, clock)
    BY <2>1, LoadedFits
  <2> DEFINE s == Loaded(q)
  <2>4. /\ s \in StateType /\ s.spent = q.spent /\ s.start = q.start /\ s.resets = q.resets /\ s.cause = q.cause
        /\ s.moved = q.moved /\ Status(s) = q.status
    BY <2>1, LoadedIs DEF Typed
  <2> HIDE DEF s
  <2>5. q = [policy |-> q.policy, spent |-> q.spent, start |-> q.start, resets |-> q.resets,
             status |-> q.status, cause |-> q.cause, moved |-> q.moved]
    BY <2>1 DEF RowType
  <2>6. Record(a, s) = q
    BY <2>1, <2>2, <2>4, <2>5 DEF Record
  <2> QED BY <2>1, <2>2, <2>3, <2>4, <2>6 DEF q, s
<1>7. Frame
  <2>1. policy \in [Agents -> Policy]
    BY <1>4, <1>6, ConstantsAssumption DEF StartPolicy
  <2>2. state \in [Agents -> StateType \cup {None}]
    BY <1>4, <1>6
  <2>3. global \in [spent : Nat, resets : Nat] /\ under \in [Agents -> Nat]
    BY <1>4, Numbers
  <2>4. clock \in 0 .. MaxTime /\ Sum(under, Agents) <= MaxUnder
    BY <1>4, <1>5, Numbers
  <2>5. settled \in BOOLEAN /\ ~settled
    BY <1>4
  <2> QED BY <1>3, <1>10, <2>1, <2>2, <2>3, <2>4, <2>5 DEF Frame
<1>8. AgentsInv
  BY <1>4, <1>6, <1>10 DEF AgentsInv, Tracked, Stands, NoCopies
<1>9. GlobalBounded(global, Sum(under, Agents))
  BY <1>4, Numbers DEF GlobalBounded
<1> QED
  BY <1>7, <1>8, <1>9, <1>10 DEF Inv

LEMMA NextKeepsInv ==
  ASSUME Inv, [Next]_vars
  PROVE  Inv'
<1>1. ASSUME NEW n \in Now, NEW a \in Agents, RefuseKilled(a, n) PROVE Inv'
  BY <1>1, RefuseKilledKeepsInv
<1>2. ASSUME NEW n \in Now, NEW a \in Agents, NEW est \in Costs, Refuse(a, n, est) PROVE Inv'
  BY <1>2, RefuseGlobalKeepsInv, RefuseRunawayKeepsInv, RefuseOverLimitKeepsInv DEF Refuse
<1>3. ASSUME NEW n \in Now, NEW a \in Agents, NEW est \in Costs, Admit(a, n, est) PROVE Inv'
  BY <1>3, AdmitKeepsInv
<1>4. ASSUME NEW n \in Now, NEW a \in Agents, NEW cost \in Costs, RecordSpend(a, n, cost) PROVE Inv'
  BY <1>4, RecordSpendKeepsInv
<1>5. ASSUME NEW n \in Now, NEW a \in Agents, Api(a, n) PROVE Inv'
  <2>1. ASSUME NEW p \in Policies, UpdateBudget(a, n, p) PROVE Inv'
    BY <2>1, UpdateBudgetKeepsInv
  <2> QED BY <1>5, <2>1, KillAgentKeepsInv, EnableAgentKeepsInv, ResetBudgetKeepsInv, ViewKeepsInv DEF Api
<1>6. ASSUME NEW a \in Agents, Fail(a) PROVE Inv'
  BY <1>6, FailKeepsInv
<1>7. ASSUME NEW n \in Now, GetGlobalBudget(n) \/ \E f \in Flushers : TakeCopies(f, n) PROVE Inv'
  BY <1>7, TakeCopiesKeepsInv, GetGlobalBudgetKeepsInv
<1>11. ASSUME NEW f \in Flushers, FailStore(f) \/ \E a \in Agents : StoreCopy(f, a) PROVE Inv'
  BY <1>11, FailStoreKeepsInv, StoreCopyKeepsInv
<1>8. ASSUME NEW cfg \in Configs, Restart(cfg) PROVE Inv'
  BY <1>8, RestartKeepsInv
<1>9. ASSUME Tick PROVE Inv'
  BY <1>9, TickKeepsInv
<1>10. ASSUME UNCHANGED vars PROVE Inv'
  BY <1>10 DEF vars, store, Inv, Frame, AgentsInv, RowsInv, Tracked, Record
<1> QED
  BY <1>1, <1>2, <1>3, <1>4, <1>5, <1>6, <1>7, <1>8, <1>9, <1>10, <1>11 DEF Next

LEMMA InvAlways == Spec => []Inv
<1>1. Init => Inv
  BY InitInv
<1>2. Inv /\ [Next]_vars => Inv'
  BY NextKeepsInv
<1> QED
  BY <1>1, <1>2, PTL DEF Spec

LEMMA InvTypeOK ==
  ASSUME Inv
  PROVE  TypeOK
<1>1. under \in [Agents -> 0 .. MaxUnder]
  BY UnderFits, Numbers DEF Inv, Frame
<1>2. ASSUME NEW a \in Agents, state[a] # None
      PROVE  state[a] \in StateType /\ (state[a].killed <=> state[a].reason # NoReason)
  <2>1. Typed(state[a])
    BY <1>2 DEF Inv, AgentsInv, Tracked, Fits
  <2> QED BY <2>1 DEF Typed
<1>3. ASSUME NEW a \in Agents, row[a] # None PROVE row[a] \in RowType /\ row[a].policy = Stored(row[a].policy)
  BY <1>3 DEF Inv, Frame, RowsInv, RowFits
<1> QED
  BY <1>1, <1>2, <1>3 DEF Inv, Frame, TypeOK

-----------------------------------------------------------------------------

(* Whatever calls came in between, no state is left to no flush: with its   *)
(* flag down it is in its row or all that is on its way there, unless a     *)
(* copy of it failed to land or met another (Flush, agentRecordLocked).     *)
THEOREM CleanIsAlwaysSafe == Spec => []CleanIsSafe
<1>1. Inv => CleanIsSafe
  <2> SUFFICES ASSUME Inv, NEW a \in Tracked \ astray, ~state[a].dirty
               PROVE  IF OnTheWay(a) = {} THEN row[a] = Record(a, state[a])
                      ELSE OnTheWay(a) = {Record(a, state[a])}
    BY InvTypeOK DEF CleanIsSafe
  <2>1. Stands(row, copies, a, Record(a, state[a]))
    BY DEF Inv, AgentsInv
  <2> DEFINE q == Record(a, state[a])
  <2>2. Stands(row, copies, a, q)
    BY <2>1
  <2> HIDE DEF q
  <2>3. IF OnTheWay(a) = {} THEN row[a] = q ELSE OnTheWay(a) = {q}
    BY <2>2 DEF Stands, OnTheWay
  <2> QED BY <2>3 DEF q
<1> QED
  BY <1>1, InvAlways, PTL

(* A kill for an exceeded budget ends with its period: no roll, reset,      *)
(* update, flush or restart carries it on (maybeResetPeriodLocked).         *)
THEOREM ExceededKillsEnd == Spec => []ExceededKillEnds
<1>1. Inv => ExceededKillEnds
  BY DEF Inv, AgentsInv, Fits, CauseOK, ExceededKillEnds
<1> QED
  BY <1>1, InvAlways, PTL

(* For any policy, in a period in which it was not changed: the thresholds  *)
(* that fired are those the spend has reached, across periods and restarts  *)
(* (RecordSpend, maybeResetPeriodLocked, loadPersistedAgents).              *)
THEOREM ThresholdsAlwaysFire == Spec => []ThresholdsFire
<1>1. Inv => ThresholdsFire
  BY DEF Inv, AgentsInv, Fits, Thresholds, ThresholdsFire
<1> QED
  BY <1>1, InvAlways, PTL

(* However many requests are checked before the earlier ones are billed,    *)
(* the limits of an agent and of the process are passed by at most what     *)
(* may be under way (CheckBudgetDetailed, RecordSpend).                     *)
THEOREM OverspendIsBounded == Spec => []OverspendBounded
<1>1. Inv => OverspendBounded
  <2> SUFFICES ASSUME Inv PROVE OverspendBounded
    OBVIOUS
  <2>1. \A a \in Tracked : Bounded(state[a], policy[a], under[a])
    BY DEF Inv, AgentsInv, Fits
  <2>2. DOMAIN under = Agents /\ GlobalBounded(global, Sum(under, Agents))
    BY UnderFits DEF Inv
  <2> QED BY <2>1, <2>2 DEF OverspendBounded, Bounded, Overspends, GlobalBounded, Total
<1> QED
  BY <1>1, InvAlways, PTL

(* No stretch of a window lets more requests through than runaway detection *)
(* allows, one tick less when a call may come with an old time              *)
(* (registerRequestAndDetectRunawayLocked).                                 *)
THEOREM NoBurstPasses == Spec => []NoBurst
<1>1. Inv => NoBurst
  BY DEF Inv, AgentsInv, Fits, Bursts, Stretch, Span, NoBurst
<1> QED
  BY <1>1, InvAlways, PTL

-----------------------------------------------------------------------------
(* Kills.                                                                   *)

LEMMA CurrentStands ==
  ASSUME Inv, NEW a \in Agents, Killed(state[a]), NEW p \in Policy, NEW n \in 0 .. MaxTime,
         NEW s \in {Of(a, p, n), Roll(Of(a, p, n), p, n), NewPeriod(Of(a, p, n), p, n)}
  PROVE  s \in StateType /\ s.killed /\ s.reason \in Permanent
<1>1. Typed(s) /\ ((a \in Tracked /\ s = state[a]) \/ Renewed(a, s))
  BY InvRules, StateIs
<1>2. a \in Tracked /\ state[a].reason \in Permanent
  BY DEF Killed, Tracked
<1>3. s.reason \in Permanent
  BY <1>1, <1>2 DEF Renewed
<1> QED
  BY <1>1, <1>3 DEF Typed, Permanent, NoReason

LEMMA SetStands ==
  ASSUME Inv, NEW a \in Agents, Killed(state[a]), NEW b \in Agents, NEW s, Set(b, s),
         b = a => s \in StateType /\ s.reason \in Permanent
  PROVE  Killed(state'[a])
<1>1. CASE b = a
  BY <1>1, NoneAssumption DEF Set, Killed, Inv, Frame
<1>2. CASE b # a
  BY <1>2 DEF Set, Killed, Inv, Frame
<1> QED
  BY <1>1, <1>2

(* A kill that is not for the budget of a period outlasts everything but an *)
(* operator and a restart that finds no such row.                           *)
THEOREM KillsAlwaysStand == Spec => KillsStand
<1> DEFINE Lifted(a) == \/ \E n \in Now : EnableAgent(a, n)
                        \/ (\E cfg \in Configs : Restart(cfg)) /\ (row[a] = None \/ row[a].status \notin Permanent)
<1>1. ASSUME Inv, Next, NEW a \in Agents, Killed(state[a]) PROVE Killed(state'[a]) \/ Lifted(a)
  <2>1. policy[a] \in Policy /\ \A n \in Now : n \in 0 .. MaxTime
    BY <1>1, CallTimes DEF Inv, Frame
  <2>2. ASSUME NEW n \in Now
        PROVE  /\ Current(a, n).killed /\ Current(a, n) \in StateType /\ Current(a, n).reason \in Permanent
               /\ NewPeriod(Of(a, policy[a], n), policy[a], n) \in StateType
               /\ NewPeriod(Of(a, policy[a], n), policy[a], n).reason \in Permanent
               /\ Of(a, policy[a], n) \in StateType
    BY <1>1, <2>1, CurrentStands DEF Current
  <2>3. ASSUME NEW n \in Now, NEW b \in Agents, RefuseKilled(b, n) \/ View(b, n) PROVE Killed(state'[a])
    BY <1>1, <2>2, <2>3, SetStands DEF RefuseKilled, View
  <2>4. ASSUME NEW n \in Now, NEW b \in Agents, NEW est \in Costs, Refuse(b, n, est) \/ Admit(b, n, est)
        PROVE  Killed(state'[a])
    <3>1. b # a
      BY <2>2, <2>4 DEF Refuse, RefuseGlobal, RefuseRunaway, RefuseOverLimit, Admit, Passes
    <3>2. state'[a] = state[a]
      <4>1. \E s : Set(b, s)
        BY <2>4 DEF Refuse, RefuseGlobal, RefuseRunaway, RefuseOverLimit, Admit
      <4> QED BY <3>1, <4>1 DEF Set, Inv, Frame
    <3> QED BY <1>1, <3>2
  <2>5. ASSUME NEW n \in Now, NEW b \in Agents, NEW cost \in Costs, RecordSpend(b, n, cost)
        PROVE  Killed(state'[a])
    <3>1. Set(b, Billed(Current(b, n), policy[b], cost))
      BY <2>5 DEF RecordSpend, Billed
    <3>2. ASSUME b = a
          PROVE  /\ Billed(Current(b, n), policy[b], cost) \in StateType
                 /\ Billed(Current(b, n), policy[b], cost).reason \in Permanent
      <4> DEFINE c == Current(a, n)
      <4> DEFINE q == Billed(c, policy[a], cost)
      <4>1. c.spent + cost \in Nat /\ c.fired \cup Crossed(policy[a], c.spent, c.spent + cost) \in SUBSET (0 .. 100)
        <5>1. c \in StateType /\ cost \in Nat /\ policy[a].alerts \in SUBSET (0 .. 100)
          BY <2>1, <2>2, Numbers DEF Policy
        <5> HIDE DEF c
        <5> QED BY <5>1 DEF StateType, Crossed
      <4>2. c \in StateType /\ c.reason \in Permanent
        BY <2>2
      <4> HIDE DEF c
      <4>3. q \in StateType /\ q.reason \in Permanent
        BY <4>1, <4>2 DEF Billed, StateType
      <4> QED BY <3>2, <4>3 DEF c
    <3> QED BY <1>1, <3>1, <3>2, SetStands
  <2>6. ASSUME NEW n \in Now, NEW b \in Agents, KillAgent(b, n) PROVE Killed(state'[a])
    <3>1. ASSUME b = a
          PROVE  /\ Kill(Of(b, policy[b], n), "manual_kill") \in StateType
                 /\ Kill(Of(b, policy[b], n), "manual_kill").reason \in Permanent
      <4>1. Of(b, policy[b], n) \in StateType
        BY <2>2, <3>1
      <4> QED BY <4>1 DEF Kill, StateType, Reasons, Permanent
    <3> QED BY <1>1, <2>6, <3>1, SetStands DEF KillAgent
  <2>7. ASSUME NEW n \in Now, NEW b \in Agents, ResetBudget(b, n) PROVE Killed(state'[a])
    BY <1>1, <2>2, <2>7, SetStands DEF ResetBudget
  <2>8. ASSUME NEW n \in Now, NEW b \in Agents, NEW p \in Policies, UpdateBudget(b, n, p) PROVE Killed(state'[a])
    <3> DEFINE s == Roll(Of(b, p, n), p, n)
    <3> DEFINE r == [s EXCEPT !.dirty = TRUE, !.moved = TRUE]
    <3>1. Set(b, r)
      BY <2>8 DEF UpdateBudget
    <3>2. p \in Policy
      BY ConstantsAssumption
    <3>3. b = a => s \in StateType /\ s.reason \in Permanent
      BY <1>1, <2>1, <3>2, CurrentStands
    <3> HIDE DEF s
    <3>4. b = a => r \in StateType /\ r.reason \in Permanent
      BY <3>3 DEF StateType
    <3> QED BY <1>1, <3>1, <3>4, SetStands
  <2>9. ASSUME NEW n \in Now, NEW b \in Agents, EnableAgent(b, n) PROVE Killed(state'[a]) \/ Lifted(a)
    <3>1. CASE b = a
      BY <2>9, <3>1
    <3>2. CASE b # a
      BY <1>1, <2>9, <3>2 DEF EnableAgent, Set, Inv, Frame
    <3> QED BY <3>1, <3>2
  <2>10. ASSUME NEW n \in Now, NEW f \in Flushers, TakeCopies(f, n) PROVE Killed(state'[a])
    <3> DEFINE c == Current(a, n)
    <3>1. state'[a] = Cleaned(c)
      BY <1>1, <2>10 DEF TakeCopies, Cleaned, Killed, Tracked
    <3>2. c \in StateType /\ c.reason \in Permanent
      BY <2>2
    <3> HIDE DEF c
    <3>3. Cleaned(c) \in StateType /\ Cleaned(c).reason \in Permanent
      BY <3>2 DEF Cleaned, StateType
    <3> QED BY <3>1, <3>3, NoneAssumption DEF Killed
  <2>11. ASSUME NEW cfg \in Configs, Restart(cfg), row[a] # None, row[a].status \in Permanent
         PROVE  Killed(state'[a])
    <3> DEFINE r == Seeded(row, cfg, clock)
    <3>1. clock \in Nat /\ row \in [Agents -> RowType \cup {None}] /\ \A b \in Agents : row[b] # None => RowFits(row[b])
      BY <1>1, Numbers DEF Inv, Frame, RowsInv
    <3>2. r[a] \in RowType /\ RowFits(r[a]) /\ r[a].status \in Permanent /\ r[a] # None
      <4>1. /\ r \in [Agents -> RowType \cup {None}] /\ (r[a] # None => RowFits(r[a]))
            /\ r[a] # None /\ r[a].status = row[a].status
        BY <2>11, <3>1, SeededFits
      <4> HIDE DEF r
      <4> QED BY <2>11, <4>1
    <3>3. state'[a] = Loaded(r[a])
      BY <2>11, <3>2 DEF Restart
    <3> HIDE DEF r
    <3>4. Typed(Loaded(r[a])) /\ Loaded(r[a]).reason \in Permanent
      BY <3>2, LoadedIs DEF RowFits, Permanent
    <3> QED BY <3>3, <3>4, TypedIsSome DEF Killed
  <2>12. ASSUME \/ Tick \/ (\E n \in Now : GetGlobalBudget(n)) \/ (\E b \in Agents : Fail(b))
                \/ (\E f \in Flushers : FailStore(f) \/ \E b \in Agents : StoreCopy(f, b))
         PROVE  Killed(state'[a])
    BY <1>1, <2>12 DEF Fail, GetGlobalBudget, Tick, FailStore, StoreCopy
  <2> QED
    BY <1>1, <2>3, <2>4, <2>5, <2>6, <2>7, <2>8, <2>9, <2>10, <2>11, <2>12 DEF Next, Api
<1>2. Inv /\ [Next]_vars
      => [\A a \in Agents : Killed(state[a]) /\ ~Killed(state'[a])
            => \/ \E n \in Now : EnableAgent(a, n)
               \/ (\E cfg \in Configs : Restart(cfg)) /\ (row[a] = None \/ row[a].status \notin Permanent)]_vars
  BY <1>1
<1> QED
  BY <1>2, InvAlways, PTL DEF Spec, KillsStand

=============================================================================
