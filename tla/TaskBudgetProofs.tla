--------------------------- MODULE TaskBudgetProofs ---------------------------
(***************************************************************************)
(* Theorems about TaskBudget: type correctness, the exact accounting of    *)
(* the holds, and the cap, for any number of tasks, requests and agents.   *)
(***************************************************************************)
EXTENDS TaskBudget, FiniteSetTheorems, TLAPS

(* The variables keep their types: amounts never become negative although  *)
(* settleTask subtracts estimates it did not check (tasks.go:189).         *)
THEOREM TypeCorrect == Spec => []TypeOK
<1>1. Init => TypeOK
  BY ConstantsAssumption
  DEF Init, TypeOK, Phase, Hold, NoHold, Amount, Row, NoRow, Processes
<1>2. TypeOK /\ [Next]_vars => TypeOK'
  <2> SUFFICES ASSUME TypeOK, [Next]_vars PROVE TypeOK'
    OBVIOUS
  <2> USE ConstantsAssumption DEF TypeOK, memory, history
  <2>1. ASSUME NEW r \in Requests, NEW a \in Agents, NEW t \in Tasks, NEW e \in Amount,
               RejectTask(r, a, t, e)
        PROVE  TypeOK'
    BY <2>1 DEF RejectTask, Phase
  <2>2. ASSUME NEW r \in Requests, NEW a \in Agents, NEW t \in Tasks, NEW e \in Amount,
               ReserveTask(r, a, t, e)
        PROVE  TypeOK'
    <3>1. reserved' \in [Tasks -> Nat] /\ inFlight' \in [Tasks -> Nat]
      BY <2>2 DEF ReserveTask, Amount
    <3>2. hold' \in [Requests -> Hold] /\ phase' \in [Requests -> Phase]
      BY <2>2 DEF ReserveTask, Hold, Phase
    <3>3. \A q \in Requests : phase'[q] = "held" => hold'[q].task \in Tasks
      BY <2>2 DEF ReserveTask
    <3> QED BY <2>2, <3>1, <3>2, <3>3 DEF ReserveTask
  <2>3. ASSUME NEW r \in Requests, phase[r] = "held", DropHold(r)
        PROVE  /\ hold[r].task \in Tasks /\ hold[r].est \in Nat
               /\ reserved' \in [Tasks -> Nat] /\ inFlight' \in [Tasks -> Nat]
    BY <2>3 DEF DropHold, Hold, Amount
  <2>4. ASSUME NEW r \in Requests, NEW c \in Amount, Settle(r, c) PROVE TypeOK'
    <3>1. hold[r].task \in Tasks /\ c \in Nat /\ hold[r].est \in Nat
      BY <2>3, <2>4 DEF Settle, Amount
    <3>2. spent' \in [Tasks -> Nat] /\ ver' \in [Tasks -> Nat] /\ dirty' \in [Tasks -> BOOLEAN]
      BY <2>4, <3>1 DEF Settle
    <3>3. overrun' \in [Tasks -> Nat]
      BY <2>4, <3>1 DEF Settle, Excess
    <3>4. phase' \in [Requests -> Phase] /\ pending' \in [Requests \cup Admins -> Tasks \cup {None}]
      BY <2>4, <3>1 DEF Settle, Phase
    <3>5. \A q \in Requests : phase'[q] = "held" => hold'[q].task \in Tasks
      BY <2>4 DEF Settle
    <3> QED BY <2>3, <2>4, <3>2, <3>3, <3>4, <3>5 DEF Settle
  <2>5. ASSUME NEW r \in Requests, Release(r) PROVE TypeOK'
    BY <2>3, <2>5 DEF Release, Phase
  <2>6. ASSUME NEW p \in Admins, NEW t \in Tasks, ResetTask(p, t) PROVE TypeOK'
    BY <2>6 DEF ResetTask
  <2>7. ASSUME NEW p \in Requests \cup Admins, TakeTask(p) PROVE TypeOK'
    BY <2>7 DEF TakeTask, RecordOf, Record, Processes
  <2>8. ASSUME NEW f \in Flushers, TakeDirtyTasks(f) PROVE TypeOK'
    <3>1. writes' = [writes EXCEPT ![f] = {RecordOf(t) : t \in {k \in known : dirty[k]}}]
      BY <2>8 DEF TakeDirtyTasks
    <3>2. \A t \in known : RecordOf(t) \in Record
      BY DEF RecordOf, Record
    <3>3. writes' \in [Processes -> SUBSET Record]
      BY <3>1, <3>2 DEF Processes
    <3>4. dirty' \in [Tasks -> BOOLEAN]
      BY <2>8 DEF TakeDirtyTasks
    <3> QED BY <2>8, <3>3, <3>4 DEF TakeDirtyTasks
  <2>9. ASSUME NEW p \in Processes, NEW w \in writes[p],
               StoreTask(p, w) \/ FailStoreTask(p, w)
        PROVE  TypeOK'
    <3>1. w \in Record
      BY <2>9
    <3>2. CASE StoreTask(p, w)
      BY <3>1, <3>2 DEF StoreTask, Record, Row
    <3>3. CASE FailStoreTask(p, w)
      BY <3>1, <3>3 DEF FailStoreTask, Record
    <3> QED BY <2>9, <3>2, <3>3
  <2>10. CASE Restart
    BY <2>10 DEF Restart, Row, Phase
  <2>11. CASE UNCHANGED vars
    BY <2>11 DEF vars
  <2> QED
    BY <2>1, <2>2, <2>4, <2>5, <2>6, <2>7, <2>8, <2>9, <2>10, <2>11
    DEF Next, Reserve, Finish, Write
<1> QED BY <1>1, <1>2, PTL DEF Spec

-----------------------------------------------------------------------------

LEMMA HoldsAreFinite ==
  ASSUME NEW t
  PROVE  IsFiniteSet(InFlight(t)) /\ IsFiniteSet(HeldUnits(t))
<1>1. IsFiniteSet(InFlight(t))
  BY ConstantsAssumption, FS_Subset DEF InFlight
<1>2. IsFiniteSet(1 .. MaxCost)
  BY ConstantsAssumption, FS_Interval DEF ConstantsAssumption
<1>3. IsFiniteSet(InFlight(t) \X (1 .. MaxCost))
  BY <1>1, <1>2, FS_Product, Zenon
<1> QED BY <1>1, <1>3, FS_Subset DEF HeldUnits

(* A block of n units has cardinality n.                                    *)
LEMMA BlockSize ==
  ASSUME NEW r, NEW n \in Nat
  PROVE  IsFiniteSet({r} \X (1 .. n)) /\ Cardinality({r} \X (1 .. n)) = n
<1>1. IsFiniteSet({r}) /\ Cardinality({r}) = 1
  BY FS_Singleton
<1>2. IsFiniteSet(1 .. n) /\ Cardinality(1 .. n) = n
  BY FS_Interval
<1>3. /\ IsFiniteSet({r} \X (1 .. n))
      /\ Cardinality({r} \X (1 .. n)) = Cardinality({r}) * Cardinality(1 .. n)
  BY <1>1, <1>2, FS_Product, Zenon
<1> QED BY <1>1, <1>2, <1>3

(* The hold of a request in flight is part of what its task holds.          *)
LEMMA HoldIsPart ==
  ASSUME TypeOK, NEW r \in Requests, phase[r] = "held"
  PROVE  LET t == hold[r].task
         IN  /\ r \in InFlight(t)
             /\ {r} \X (1 .. hold[r].est) \subseteq HeldUnits(t)
             /\ hold[r].est <= Cardinality(HeldUnits(t))
             /\ Cardinality(InFlight(t)) > 0
<1> DEFINE t == hold[r].task
           B == {r} \X (1 .. hold[r].est)
<1>1. hold[r].est \in 0 .. MaxCost /\ MaxCost \in Nat
  BY ConstantsAssumption DEF TypeOK, Hold, Amount
<1>2. r \in InFlight(t)
  BY DEF InFlight
<1>3. B \subseteq HeldUnits(t)
  BY <1>1, <1>2 DEF HeldUnits
<1>4. Cardinality(B) = hold[r].est
  <2>1. hold[r].est \in Nat
    BY <1>1
  <2> QED BY <2>1, BlockSize, Zenon
<1>5. Cardinality(B) <= Cardinality(HeldUnits(t))
  BY <1>3, HoldsAreFinite, FS_Subset
<1>6. Cardinality(InFlight(t)) # 0 /\ Cardinality(InFlight(t)) \in Nat
  BY <1>2, HoldsAreFinite, FS_EmptySet, FS_CardinalityType
<1> QED BY <1>2, <1>3, <1>4, <1>5, <1>6

(* Giving a hold back leaves exactly the holds of the other requests; the   *)
(* clamps of settleTask never change the result.                            *)
LEMMA DropHoldIsExact ==
  ASSUME TypeOK, HoldsMatchInFlight, NEW r \in Requests, phase[r] = "held",
         DropHold(r), hold' = hold,
         NEW ph, ph # "held", phase' = [phase EXCEPT ![r] = ph]
  PROVE  HoldsMatchInFlight'
<1> DEFINE t == hold[r].task
           B == {r} \X (1 .. hold[r].est)
<1>1. t \in Tasks /\ hold[r].est \in Nat /\ hold[r].est <= MaxCost /\ MaxCost \in Nat
  BY ConstantsAssumption DEF TypeOK, Hold, Amount
<1>2. /\ r \in InFlight(t) /\ B \subseteq HeldUnits(t)
      /\ hold[r].est <= Cardinality(HeldUnits(t)) /\ Cardinality(InFlight(t)) > 0
  BY HoldIsPart
<1>3. \A k \in Tasks : InFlight(k)' = IF k = t THEN InFlight(k) \ {r} ELSE InFlight(k)
  BY DEF InFlight, TypeOK
<1>4. HeldUnits(t)' = HeldUnits(t) \ B
  <2>1. ASSUME NEW u PROVE u \in HeldUnits(t)' <=> u \in HeldUnits(t) \ B
    BY <1>1, <1>3 DEF HeldUnits
  <2> QED BY <2>1
<1>5. \A k \in Tasks : k # t => HeldUnits(k)' = HeldUnits(k)
  BY <1>3 DEF HeldUnits
<1>6. /\ Cardinality(InFlight(t)') = Cardinality(InFlight(t)) - 1
      /\ Cardinality(InFlight(t)) \in Nat
  BY <1>2, <1>1, <1>3, HoldsAreFinite, FS_RemoveElement, FS_CardinalityType
<1>7. /\ Cardinality(HeldUnits(t)') = Cardinality(HeldUnits(t)) - hold[r].est
      /\ Cardinality(HeldUnits(t)) \in Nat
  <2>1. HeldUnits(t) \cap B = B
    BY <1>2
  <2>2. Cardinality(HeldUnits(t) \ B) = Cardinality(HeldUnits(t)) - Cardinality(B)
    <3>1. IsFiniteSet(HeldUnits(t))
      BY HoldsAreFinite
    <3>2. Cardinality(HeldUnits(t) \ B) = Cardinality(HeldUnits(t)) - Cardinality(HeldUnits(t) \cap B)
      BY <3>1, FS_Difference, Zenon
    <3> QED BY <2>1, <3>2, Zenon
  <2>3. Cardinality(B) = hold[r].est
    BY <1>1, BlockSize, Zenon
  <2>4. Cardinality(HeldUnits(t)) \in Nat
    BY HoldsAreFinite, FS_CardinalityType
  <2> QED BY <1>4, <2>2, <2>3, <2>4
<1>8. Cardinality(InFlight(t)') = 0 => Cardinality(HeldUnits(t)') = 0
  <2>1. SUFFICES ASSUME Cardinality(InFlight(t)') = 0 PROVE Cardinality(HeldUnits(t)') = 0
    OBVIOUS
  <2>2. IsFiniteSet(InFlight(t) \ {r})
    BY HoldsAreFinite, FS_RemoveElement
  <2>3. InFlight(t)' = {}
    BY <1>1, <1>3, <2>1, <2>2, FS_EmptySet
  <2>4. HeldUnits(t)' = {}
    BY <2>3 DEF HeldUnits
  <2> QED BY <2>4, FS_EmptySet
<1>9. inFlight[t] = Cardinality(InFlight(t)) /\ reserved[t] = Cardinality(HeldUnits(t))
  BY <1>1 DEF HoldsMatchInFlight
<1>10. /\ inFlight' = [inFlight EXCEPT ![t] = Cardinality(InFlight(t)')]
       /\ reserved' = [reserved EXCEPT ![t] = Cardinality(HeldUnits(t)')]
  <2> DEFINE n == Cardinality(InFlight(t)')
             s == Cardinality(HeldUnits(t)')
             n0 == Cardinality(InFlight(t))
             s0 == Cardinality(HeldUnits(t))
  <2>1. n0 > 0 /\ n = n0 - 1 /\ s = s0 - hold[r].est /\ s0 - hold[r].est >= 0 /\ n0 \in Nat
        /\ s0 \in Nat /\ (n = 0 => s = 0) /\ inFlight[t] = n0 /\ reserved[t] = s0
    BY <1>1, <1>2, <1>6, <1>7, <1>8, <1>9
  <2> HIDE DEF n, s, n0, s0
  <2>2. /\ inFlight' = [inFlight EXCEPT ![t] = n]
        /\ reserved' = [reserved EXCEPT ![t] = s]
    <3>1. inFlight[t] - 1 = n /\ inFlight[t] > 0 /\ reserved[t] - hold[r].est = s
      BY <1>1, <2>1
    <3>2. ~(s < 0) /\ (n = 0 => s = 0)
      BY <1>1, <2>1
    <3>3. /\ inFlight' = [inFlight EXCEPT ![t] = n]
          /\ reserved' = [reserved EXCEPT ![t] = IF s < 0 \/ n = 0 THEN 0 ELSE s]
      BY <3>1 DEF DropHold
    <3> QED BY <3>2, <3>3
  <2> QED BY <2>2 DEF n, s
<1> QED
  BY <1>1, <1>3, <1>5, <1>10 DEF HoldsMatchInFlight, TypeOK

(* Admitting a request adds exactly its own block of units.                 *)
LEMMA ReserveIsExact ==
  ASSUME TypeOK, HoldsMatchInFlight, NEW r \in Requests, NEW a \in Agents,
         NEW t \in Tasks, NEW e \in Amount, ReserveTask(r, a, t, e)
  PROVE  HoldsMatchInFlight'
<1> DEFINE B == {r} \X (1 .. e)
<1>1. /\ phase[r] = "new" /\ phase' = [phase EXCEPT ![r] = "held"]
      /\ hold' = [hold EXCEPT ![r] = [task |-> t, est |-> e]]
      /\ reserved' = [reserved EXCEPT ![t] = @ + e]
      /\ inFlight' = [inFlight EXCEPT ![t] = @ + 1]
      /\ e \in Nat /\ e <= MaxCost /\ MaxCost \in Nat
  BY ConstantsAssumption DEF ReserveTask, Amount
<1>2. \A k \in Tasks : InFlight(k)' = IF k = t THEN InFlight(k) \cup {r} ELSE InFlight(k)
  BY <1>1 DEF InFlight, TypeOK
<1>3. r \notin InFlight(t)
  BY <1>1 DEF InFlight
<1>4. \A q \in Requests : q # r => hold'[q] = hold[q]
  BY <1>1 DEF TypeOK
<1>5. hold'[r].est = e
  BY <1>1 DEF TypeOK
<1>6. HeldUnits(t)' = HeldUnits(t) \cup B
  <2>1. InFlight(t) \subseteq Requests
    BY DEF InFlight
  <2>2. ASSUME NEW u PROVE u \in HeldUnits(t)' <=> u \in HeldUnits(t) \cup B
    BY <1>1, <1>2, <1>3, <1>4, <1>5, <2>1 DEF HeldUnits
  <2> QED BY <2>2
<1>7. \A k \in Tasks : k # t => HeldUnits(k)' = HeldUnits(k)
  <2>1. \A k : InFlight(k) \subseteq Requests
    BY DEF InFlight
  <2>2. \A k : r \notin InFlight(k)
    BY <1>1 DEF InFlight
  <2> QED BY <1>2, <1>4, <2>1, <2>2 DEF HeldUnits
<1>8. /\ Cardinality(InFlight(t)') = Cardinality(InFlight(t)) + 1
  BY <1>2, <1>3, HoldsAreFinite, FS_AddElement
<1>9. Cardinality(HeldUnits(t)') = Cardinality(HeldUnits(t)) + e
  <2>1. HeldUnits(t) \cap B = {}
    BY <1>3 DEF HeldUnits
  <2>2. IsFiniteSet(B) /\ Cardinality(B) = e
    BY <1>1, BlockSize
  <2>3. Cardinality(HeldUnits(t)) \in Nat
    BY HoldsAreFinite, FS_CardinalityType
  <2> QED BY <1>1, <1>6, <2>1, <2>2, <2>3, HoldsAreFinite, FS_Union, FS_EmptySet
<1> QED
  BY <1>1, <1>2, <1>7, <1>8, <1>9 DEF HoldsMatchInFlight, TypeOK

LEMMA HoldsStep == TypeOK /\ HoldsMatchInFlight /\ [Next]_vars => HoldsMatchInFlight'
<1> SUFFICES ASSUME TypeOK, HoldsMatchInFlight, [Next]_vars PROVE HoldsMatchInFlight'
  OBVIOUS
<1> USE DEF memory, history
<1>1. ASSUME UNCHANGED <<reserved, inFlight, phase, hold>> PROVE HoldsMatchInFlight'
  BY <1>1 DEF HoldsMatchInFlight, InFlight, HeldUnits
<1>2. ASSUME NEW r \in Requests, NEW a \in Agents, NEW t \in Tasks, NEW e \in Amount,
             RejectTask(r, a, t, e)
      PROVE  HoldsMatchInFlight'
  <2>1. \A k : InFlight(k)' = InFlight(k)
    BY <1>2 DEF RejectTask, InFlight, TypeOK
  <2>2. \A k : HeldUnits(k)' = HeldUnits(k)
    BY <1>2, <2>1 DEF RejectTask, HeldUnits
  <2> QED BY <1>2, <2>1, <2>2 DEF RejectTask, HoldsMatchInFlight
<1>3. ASSUME NEW r \in Requests, NEW a \in Agents, NEW t \in Tasks, NEW e \in Amount,
             ReserveTask(r, a, t, e)
      PROVE  HoldsMatchInFlight'
  BY <1>3, ReserveIsExact
<1>4. ASSUME NEW r \in Requests, NEW c \in Amount, Settle(r, c) PROVE HoldsMatchInFlight'
  BY <1>4, DropHoldIsExact DEF Settle
<1>5. ASSUME NEW r \in Requests, Release(r) PROVE HoldsMatchInFlight'
  BY <1>5, DropHoldIsExact DEF Release
<1>6. CASE Restart
  <2>1. \A k : InFlight(k)' = {}
    BY <1>6 DEF Restart, InFlight
  <2>2. \A k : HeldUnits(k)' = {}
    BY <2>1 DEF HeldUnits
  <2> QED BY <1>6, <2>1, <2>2, FS_EmptySet DEF Restart, HoldsMatchInFlight
<1>7. ASSUME NEW p \in Admins, NEW t \in Tasks, ResetTask(p, t) PROVE HoldsMatchInFlight'
  BY <1>1, <1>7 DEF ResetTask
<1>8. ASSUME NEW p \in Requests \cup Admins, TakeTask(p) PROVE HoldsMatchInFlight'
  BY <1>1, <1>8 DEF TakeTask
<1>9. ASSUME NEW f \in Flushers, TakeDirtyTasks(f) PROVE HoldsMatchInFlight'
  BY <1>1, <1>9 DEF TakeDirtyTasks
<1>10. ASSUME NEW p \in Processes, Write(p) PROVE HoldsMatchInFlight'
  BY <1>1, <1>10 DEF Write, StoreTask, FailStoreTask
<1>11. CASE UNCHANGED vars
  BY <1>1, <1>11 DEF vars
<1> QED
  BY <1>2, <1>3, <1>4, <1>5, <1>6, <1>7, <1>8, <1>9, <1>10, <1>11 DEF Next, Reserve, Finish

(* The reserved sum and the in-flight count of every task are exactly those *)
(* of the requests in flight: the defer in gateMiddleware (proxy.go:308)    *)
(* and sync.Once leave no leak and no double return.                        *)
THEOREM HoldsAreExact == Spec => []HoldsMatchInFlight
<1>1. Init => HoldsMatchInFlight
  <2> SUFFICES ASSUME Init PROVE HoldsMatchInFlight
    OBVIOUS
  <2>1. \A k : InFlight(k) = {}
    BY DEF Init, InFlight
  <2>2. \A k : HeldUnits(k) = {}
    BY <2>1 DEF HeldUnits
  <2> QED BY <2>1, <2>2, FS_EmptySet DEF Init, HoldsMatchInFlight
<1> QED BY <1>1, HoldsStep, TypeCorrect, PTL DEF Spec

-----------------------------------------------------------------------------

(* The cap as an inductive invariant: a reset makes reserved alone the      *)
(* bound, and a restart makes a row the total, so both need a bound of      *)
(* their own, and so does every copy on its way to a row.                   *)
CapInv ==
  /\ \A t \in Tasks : reserved[t] <= Cap
  /\ \A t \in Tasks : spent[t] + reserved[t] <= Cap + overrun[t]
  /\ \A t \in Tasks : store[t].spent <= Cap + overrun[t]
  /\ \A p \in Processes : \A w \in writes[p] : w.spent <= Cap + overrun[w.task]

LEMMA CapStep ==
  ASSUME AllCapped, TypeOK, HoldsMatchInFlight, CapInv, [Next]_vars
  PROVE  CapInv'
<1> USE ConstantsAssumption DEF memory, history
<1>1. ASSUME UNCHANGED <<spent, reserved, writes, store, overrun>> PROVE CapInv'
  BY <1>1 DEF CapInv
<1>2. ASSUME NEW r \in Requests, NEW a \in Agents, NEW t \in Tasks, NEW e \in Amount,
             RejectTask(r, a, t, e)
      PROVE  CapInv'
  BY <1>1, <1>2 DEF RejectTask
<1>3. ASSUME NEW r \in Requests, NEW a \in Agents, NEW t \in Tasks, NEW e \in Amount,
             ReserveTask(r, a, t, e)
      PROVE  CapInv'
  <2>1. e \in Nat /\ TaskLimit[a] \in 0 .. Cap /\ TaskLimit[a] > 0
    BY DEF Amount, AllCapped
  <2>2. spent[t] + reserved[t] + e <= Cap
    BY <1>3, <2>1 DEF ReserveTask, Exceeds, TypeOK
  <2>3. reserved' = [reserved EXCEPT ![t] = reserved[t] + e]
        /\ UNCHANGED <<spent, writes, store, overrun>>
    BY <1>3 DEF ReserveTask
  <2>4. \A k \in Tasks : reserved'[k] <= Cap /\ spent[k] + reserved'[k] <= Cap + overrun[k]
    BY <2>1, <2>2, <2>3 DEF CapInv, TypeOK
  <2> QED BY <2>3, <2>4 DEF CapInv
<1>4. ASSUME NEW r \in Requests, phase[r] = "held", DropHold(r)
      PROVE  LET t == hold[r].task
             IN  /\ t \in Tasks /\ hold[r].est \in Nat
                 /\ reserved' \in [Tasks -> Nat]
                 /\ reserved'[t] <= reserved[t] - hold[r].est
                 /\ hold[r].est <= reserved[t]
                 /\ \A k \in Tasks : k # t => reserved'[k] = reserved[k]
  <2> DEFINE t == hold[r].task
  <2>1. t \in Tasks /\ hold[r].est \in Nat
    BY <1>4 DEF TypeOK, Hold, Amount
  <2>2. hold[r].est <= reserved[t]
    BY <1>4, <2>1, HoldIsPart DEF HoldsMatchInFlight
  <2> QED BY <1>4, <2>1, <2>2 DEF DropHold, TypeOK
<1>5. ASSUME NEW r \in Requests, NEW c \in Amount, Settle(r, c) PROVE CapInv'
  <2> DEFINE t == hold[r].task
             x == Excess(c, hold[r].est)
  <2>1. phase[r] = "held" /\ DropHold(r) /\ c \in Nat
    BY <1>5 DEF Settle, Amount
  <2>2. /\ t \in Tasks /\ hold[r].est \in Nat /\ hold[r].est <= reserved[t]
        /\ reserved' \in [Tasks -> Nat] /\ reserved'[t] <= reserved[t] - hold[r].est
        /\ \A k \in Tasks : k # t => reserved'[k] = reserved[k]
    BY <2>1, <1>4
  <2>3. x \in Nat /\ c <= hold[r].est + x
    BY <2>1, <2>2 DEF Excess
  <2>4. /\ spent' = [spent EXCEPT ![t] = @ + c]
        /\ overrun' = [overrun EXCEPT ![t] = @ + x]
        /\ UNCHANGED <<writes, store>>
    BY <1>5 DEF Settle
  <2>5. overrun' \in [Tasks -> Nat] /\ \A k \in Tasks : overrun[k] <= overrun'[k]
    BY <2>2, <2>3, <2>4 DEF TypeOK
  <2>6. spent'[t] + reserved'[t] <= Cap + overrun'[t]
    BY <2>1, <2>2, <2>3, <2>4 DEF CapInv, TypeOK
  <2>7. \A k \in Tasks : reserved'[k] <= Cap /\ spent'[k] + reserved'[k] <= Cap + overrun'[k]
    BY <2>2, <2>4, <2>6 DEF CapInv, TypeOK
  <2>8. \A k \in Tasks : store'[k].spent <= Cap + overrun'[k]
    BY <2>4, <2>5 DEF CapInv, TypeOK, Row
  <2>9. \A p \in Processes : \A w \in writes'[p] : w.spent <= Cap + overrun'[w.task]
    <3> SUFFICES ASSUME NEW p \in Processes, NEW w \in writes[p]
                 PROVE  w.spent <= Cap + overrun'[w.task]
      BY <2>4
    <3>1. w \in Record /\ w.spent <= Cap + overrun[w.task]
      BY DEF CapInv, TypeOK
    <3> QED BY <3>1, <2>5 DEF Record, TypeOK
  <2> QED BY <2>7, <2>8, <2>9 DEF CapInv
<1>6. ASSUME NEW r \in Requests, Release(r) PROVE CapInv'
  <2>1. phase[r] = "held" /\ DropHold(r) /\ UNCHANGED <<spent, writes, store, overrun>>
    BY <1>6 DEF Release
  <2>2. \A k \in Tasks : reserved'[k] \in Nat /\ reserved'[k] <= reserved[k]
    BY <2>1, <1>4 DEF TypeOK
  <2> QED BY <2>1, <2>2 DEF CapInv, TypeOK
<1>7. ASSUME NEW p \in Admins, NEW t \in Tasks, ResetTask(p, t) PROVE CapInv'
  <2>1. spent' = [spent EXCEPT ![t] = 0] /\ UNCHANGED <<reserved, writes, store, overrun>>
    BY <1>7 DEF ResetTask
  <2> QED BY <2>1 DEF CapInv, TypeOK
<1>8. ASSUME NEW t \in Tasks
      PROVE  /\ RecordOf(t) \in Record
             /\ RecordOf(t).spent <= Cap + overrun[RecordOf(t).task]
  BY DEF RecordOf, Record, CapInv, TypeOK
<1>9. ASSUME NEW p \in Processes, NEW S \in SUBSET Tasks,
             writes' = [writes EXCEPT ![p] = {RecordOf(t) : t \in S}],
             UNCHANGED <<spent, reserved, store, overrun>>
      PROVE  CapInv'
  <2>1. ASSUME NEW q \in Processes, NEW w \in writes'[q]
        PROVE  w.spent <= Cap + overrun[w.task]
    <3>1. CASE w \in writes[q]
      BY <3>1 DEF CapInv
    <3>2. CASE \E t \in S : w = RecordOf(t)
      BY <3>2, <1>8
    <3> QED BY <1>9, <2>1, <3>1, <3>2 DEF TypeOK
  <2> QED BY <1>9, <2>1 DEF CapInv
<1>10. ASSUME NEW p \in Requests \cup Admins, TakeTask(p) PROVE CapInv'
  <2>1. p \in Processes
    BY DEF Processes
  <2>2. pending[p] \in Tasks
    BY <1>10 DEF TakeTask, TypeOK
  <2>3. {RecordOf(pending[p])} = {RecordOf(t) : t \in {pending[p]}}
        /\ {} = {RecordOf(t) : t \in {}}
    OBVIOUS
  <2>4. \E S \in SUBSET Tasks : writes' = [writes EXCEPT ![p] = {RecordOf(t) : t \in S}]
    <3>1. CASE dirty[pending[p]]
      BY <1>10, <2>2, <2>3, <3>1 DEF TakeTask
    <3>2. CASE ~dirty[pending[p]]
      BY <1>10, <2>2, <2>3, <3>2 DEF TakeTask
    <3> QED BY <3>1, <3>2
  <2> QED BY <1>10, <2>1, <2>4, <1>9 DEF TakeTask
<1>11. ASSUME NEW f \in Flushers, TakeDirtyTasks(f) PROVE CapInv'
  <2>1. f \in Processes /\ {k \in known : dirty[k]} \in SUBSET Tasks
    BY DEF Processes, TypeOK
  <2> QED BY <1>11, <2>1, <1>9 DEF TakeDirtyTasks
<1>12. ASSUME NEW p \in Processes, NEW w \in writes[p],
              StoreTask(p, w) \/ FailStoreTask(p, w)
       PROVE  CapInv'
  <2>1. w \in Record /\ w.spent <= Cap + overrun[w.task]
    BY DEF CapInv, TypeOK
  <2>2. UNCHANGED <<spent, reserved, overrun>> /\ writes' = [writes EXCEPT ![p] = @ \ {w}]
    BY <1>12 DEF StoreTask, FailStoreTask
  <2>3. \A q \in Processes : writes'[q] \subseteq writes[q]
    BY <2>2 DEF TypeOK
  <2>4. \A k \in Tasks : store'[k].spent <= Cap + overrun[k]
    BY <1>12, <2>1 DEF StoreTask, FailStoreTask, CapInv, TypeOK, Row, Record
  <2> QED BY <2>2, <2>3, <2>4 DEF CapInv
<1>13. CASE Restart
  <2>1. /\ \A k \in Tasks : spent'[k] = store[k].spent /\ reserved'[k] = 0
        /\ UNCHANGED <<store, overrun>>
        /\ \A p \in Processes : writes'[p] = {}
    BY <1>13 DEF Restart
  <2>2. \A k \in Tasks : store[k].spent \in Nat
    BY DEF TypeOK, Row
  <2> QED BY <2>1, <2>2 DEF CapInv
<1>14. CASE UNCHANGED vars
  BY <1>1, <1>14 DEF vars
<1> QED
  BY <1>2, <1>3, <1>5, <1>6, <1>7, <1>10, <1>11, <1>12, <1>13, <1>14
  DEF Next, Reserve, Finish, Write

(* The cap of a task shared by concurrent requests is never exceeded except *)
(* by what responses cost above their estimates: no interleaving of         *)
(* reservations, settlements, releases, resets, writes in any order and     *)
(* restarts breaks it (ReserveTask, tasks.go:116-179).                      *)
THEOREM CapIsKept == Spec => []CapHolds
<1>1. Init => CapInv
  BY ConstantsAssumption DEF Init, CapInv, NoRow, Processes
<1>2. AllCapped /\ TypeOK /\ HoldsMatchInFlight /\ CapInv /\ [Next]_vars => CapInv'
  BY CapStep
<1>3. CapInv => CapHolds
  BY DEF CapInv, CapHolds
<1>4. CASE AllCapped
  BY <1>1, <1>2, <1>3, <1>4, TypeCorrect, HoldsAreExact, PTL DEF Spec
<1>5. CASE ~AllCapped
  <2>1. CapHolds
    BY <1>5 DEF CapHolds
  <2> QED BY <2>1, PTL
<1> QED BY <1>4, <1>5

-----------------------------------------------------------------------------

(* TotalsLand as an inductive invariant: copies and rows never run ahead of *)
(* the total in memory, and a process takes a new copy only when it has     *)
(* written the last one.                                                    *)
LandInv ==
  /\ \A p \in Processes : \A w \in writes[p] : w.ver <= ver[w.task]
  /\ \A t \in Tasks : landed[t] <= ver[t]
  /\ \A p \in Requests \cup Admins : pending[p] # None => writes[p] = {}
  /\ \A r \in Requests : phase[r] \in {"new", "held"} => pending[r] = None /\ writes[r] = {}
  /\ TotalsLand

LEMMA LandStep ==
  ASSUME TypeOK, LandInv, [Next]_vars
  PROVE  LandInv'
<1> USE ConstantsAssumption DEF memory, history
<1> DEFINE Copied(t) == \E p \in Processes : \E w \in writes[p] : w.task = t /\ w.ver = ver[t]
           Landed(t) == dirty[t] \/ Copied(t) \/ landed[t] = ver[t]
<1>a. /\ TotalsLand <=> \A t \in Tasks : Landed(t)
      /\ TotalsLand' <=> \A t \in Tasks : Landed(t)'
  BY DEF TotalsLand, WritesOf
<1>1. ASSUME UNCHANGED <<dirty, phase, pending, writes, ver, landed>> PROVE LandInv'
  BY <1>1 DEF LandInv, TotalsLand, WritesOf
<1>2. ASSUME NEW r \in Requests, NEW a \in Agents, NEW t \in Tasks, NEW e \in Amount,
             RejectTask(r, a, t, e) \/ ReserveTask(r, a, t, e)
      PROVE  LandInv'
  <2>1. /\ phase[r] = "new"
        /\ phase' \in {[phase EXCEPT ![r] = "held"], [phase EXCEPT ![r] = "rejected"]}
        /\ UNCHANGED <<dirty, pending, writes, ver, landed>>
    BY <1>2 DEF RejectTask, ReserveTask
  <2>2. \A q \in Requests : phase'[q] \in {"new", "held"} => pending'[q] = None /\ writes'[q] = {}
    BY <2>1 DEF LandInv, TypeOK
  <2>3. TotalsLand'
    BY <2>1 DEF LandInv, TotalsLand, WritesOf
  <2> QED BY <2>1, <2>2, <2>3 DEF LandInv
<1>3. ASSUME NEW t \in Tasks, dirty' = [dirty EXCEPT ![t] = TRUE],
             ver' = [ver EXCEPT ![t] = @ + 1], UNCHANGED <<writes, landed>>
      PROVE  /\ \A p \in Processes : \A w \in writes'[p] : w.ver <= ver'[w.task]
             /\ \A k \in Tasks : landed'[k] <= ver'[k]
             /\ TotalsLand'
  <2>1. \A k \in Tasks : ver[k] \in Nat /\ ver'[k] \in Nat /\ ver[k] <= ver'[k]
                       /\ (k # t => ver'[k] = ver[k])
    BY <1>3 DEF TypeOK
  <2>2. ASSUME NEW p \in Processes, NEW w \in writes[p] PROVE w.ver <= ver'[w.task]
    <3>1. w \in Record /\ w.ver <= ver[w.task]
      BY DEF TypeOK, LandInv
    <3> QED BY <2>1, <3>1 DEF Record
  <2>3. \A k \in Tasks : landed[k] <= ver'[k]
    BY <2>1 DEF LandInv, TypeOK
  <2>4. \A k \in Tasks : k # t => Landed(k)'
    BY <1>3, <1>a, <2>1 DEF LandInv, TypeOK
  <2>5. dirty'[t]
    BY <1>3 DEF TypeOK
  <2> QED BY <1>3, <1>a, <2>2, <2>3, <2>4, <2>5
<1>4. ASSUME NEW r \in Requests, NEW c \in Amount, Settle(r, c) PROVE LandInv'
  <2>1. hold[r].task \in Tasks /\ writes[r] = {}
    BY <1>4 DEF Settle, TypeOK, LandInv
  <2>2. /\ \A p \in Requests \cup Admins : pending'[p] # None => writes'[p] = {}
        /\ \A q \in Requests : phase'[q] \in {"new", "held"} => pending'[q] = None /\ writes'[q] = {}
    <3>1. /\ phase' = [phase EXCEPT ![r] = "settled"]
          /\ pending' = [pending EXCEPT ![r] = hold[r].task] /\ UNCHANGED writes
      BY <1>4 DEF Settle
    <3>2. \A q \in Requests : q # r => phase'[q] = phase[q] /\ pending'[q] = pending[q]
      BY <3>1 DEF TypeOK
    <3>3. phase'[r] = "settled"
      BY <3>1 DEF TypeOK
    <3>4. \A q \in Requests \cup Admins : q # r => pending'[q] = pending[q]
      BY <3>1 DEF TypeOK
    <3>5. \A q \in Requests : phase'[q] \in {"new", "held"} => pending'[q] = None /\ writes'[q] = {}
      BY <3>1, <3>2, <3>3 DEF LandInv
    <3>6. ASSUME NEW p \in Requests \cup Admins, pending'[p] # None PROVE writes'[p] = {}
      <4>1. CASE p = r
        BY <2>1, <3>1, <4>1
      <4>2. CASE p # r
        BY <3>1, <3>4, <3>6, <4>2 DEF LandInv
      <4> QED BY <4>1, <4>2
    <3> QED BY <3>5, <3>6
  <2> QED BY <1>4, <1>3, <2>1, <2>2 DEF Settle, LandInv
<1>5. ASSUME NEW r \in Requests, Release(r) PROVE LandInv'
  <2>1. /\ phase' = [phase EXCEPT ![r] = "released"]
        /\ UNCHANGED <<dirty, pending, writes, ver, landed>>
    BY <1>5 DEF Release
  <2>2. \A q \in Requests : phase'[q] \in {"new", "held"} => pending'[q] = None /\ writes'[q] = {}
    BY <2>1 DEF LandInv, TypeOK
  <2>3. TotalsLand'
    BY <2>1 DEF LandInv, TotalsLand, WritesOf
  <2> QED BY <2>1, <2>2, <2>3 DEF LandInv
<1>6. ASSUME NEW p \in Admins, NEW t \in Tasks, ResetTask(p, t) PROVE LandInv'
  <2>1. \A q \in Requests \cup Admins : pending'[q] # None => writes'[q] = {}
    BY <1>6 DEF ResetTask, LandInv, TypeOK
  <2>2. p \notin Requests /\ UNCHANGED <<phase, writes>> /\ pending' = [pending EXCEPT ![p] = t]
    BY <1>6 DEF ResetTask
  <2>3. \A q \in Requests : phase'[q] \in {"new", "held"} => pending'[q] = None /\ writes'[q] = {}
    BY <2>2 DEF LandInv, TypeOK
  <2>4. /\ dirty' = [dirty EXCEPT ![t] = TRUE]
        /\ ver' = [ver EXCEPT ![t] = @ + 1]
        /\ UNCHANGED <<writes, landed>>
    BY <1>6 DEF ResetTask
  <2> QED BY <1>3, <2>1, <2>3, <2>4 DEF LandInv
<1>7. ASSUME NEW p \in Requests \cup Admins, TakeTask(p) PROVE LandInv'
  <2> DEFINE t == pending[p]
  <2>1. /\ t \in Tasks /\ p \in Processes /\ writes[p] = {}
        /\ pending' = [pending EXCEPT ![p] = None]
        /\ dirty' = [dirty EXCEPT ![t] = FALSE]
        /\ writes' = [writes EXCEPT ![p] = IF dirty[t] THEN {RecordOf(t)} ELSE {}]
        /\ UNCHANGED <<phase, ver, landed>>
    BY <1>7 DEF TakeTask, TypeOK, Processes, LandInv
  <2>2. \A q \in Processes : q # p => writes'[q] = writes[q]
    BY <2>1 DEF TypeOK
  <2>3. writes'[p] = IF dirty[t] THEN {RecordOf(t)} ELSE {}
    BY <2>1 DEF TypeOK
  <2>4. RecordOf(t).ver = ver[t] /\ RecordOf(t).task = t /\ ver[t] \in Nat
    BY <2>1 DEF RecordOf, TypeOK
  <2>5. \A q \in Processes : \A w \in writes'[q] : w.ver <= ver[w.task]
    BY <2>2, <2>3, <2>4 DEF LandInv
  <2>6. \A q \in Requests \cup Admins : pending'[q] # None => writes'[q] = {}
    BY <2>1, <2>2 DEF LandInv, Processes, TypeOK
  <2>7. phase[p] \notin {"new", "held"} \/ p \notin Requests
    BY <2>1, NoneAssumption DEF LandInv
  <2>8. \A q \in Requests : phase'[q] \in {"new", "held"} => pending'[q] = None /\ writes'[q] = {}
    BY <2>1, <2>2, <2>7 DEF LandInv, Processes, TypeOK
  <2>9. ASSUME NEW k \in Tasks PROVE Landed(k)'
    <3>1. CASE k = t /\ dirty[t]
      <4>1. RecordOf(t) \in writes'[p]
        BY <2>3, <3>1
      <4> QED BY <2>1, <2>4, <3>1, <4>1
    <3>2. CASE ~(k = t /\ dirty[t])
      <4>1. Landed(k)
        BY <1>a DEF LandInv
      <4>2. Copied(k) => Copied(k)'
        BY <2>1, <2>2
      <4>3. dirty[k] => dirty'[k]
        BY <2>1, <3>2 DEF TypeOK
      <4> QED BY <2>1, <4>1, <4>2, <4>3
    <3> QED BY <3>1, <3>2
  <2> QED BY <1>a, <2>1, <2>5, <2>6, <2>8, <2>9 DEF LandInv
<1>8. ASSUME NEW f \in Flushers, TakeDirtyTasks(f) PROVE LandInv'
  <2> DEFINE S == {k \in known : dirty[k]}
  <2>1. /\ f \in Processes /\ f \notin Requests \cup Admins
        /\ writes[f] = {} /\ writes' = [writes EXCEPT ![f] = {RecordOf(t) : t \in S}]
        /\ dirty' = [t \in Tasks |-> IF t \in known THEN FALSE ELSE dirty[t]]
        /\ UNCHANGED <<phase, pending, ver, landed>>
    BY <1>8 DEF TakeDirtyTasks, Processes
  <2>2. \A q \in Processes : q # f => writes'[q] = writes[q]
    BY <2>1 DEF TypeOK
  <2>3. writes'[f] = {RecordOf(t) : t \in S}
    BY <2>1 DEF TypeOK
  <2>4. \A t \in Tasks : RecordOf(t).ver = ver[t] /\ RecordOf(t).task = t /\ ver[t] \in Nat
    BY DEF RecordOf, TypeOK
  <2>5. ASSUME NEW q \in Processes, NEW w \in writes'[q] PROVE w.ver <= ver[w.task]
    <3>1. CASE q = f
      <4>1. PICK t \in S : w = RecordOf(t)
        BY <2>3, <2>5, <3>1
      <4>2. t \in Tasks
        BY DEF TypeOK
      <4> QED BY <2>4, <4>1, <4>2
    <3>2. CASE q # f
      BY <2>2, <2>5, <3>2 DEF LandInv
    <3> QED BY <3>1, <3>2
  <2>6. /\ \A q \in Requests \cup Admins : pending'[q] # None => writes'[q] = {}
        /\ \A q \in Requests : phase'[q] \in {"new", "held"} => pending'[q] = None /\ writes'[q] = {}
    BY <2>1, <2>2 DEF LandInv, Processes
  <2>7. ASSUME NEW k \in Tasks PROVE Landed(k)'
    <3>1. CASE k \in S
      <4>1. RecordOf(k) \in writes'[f]
        BY <2>3, <3>1
      <4> QED BY <2>1, <2>4, <4>1
    <3>2. CASE k \notin S
      <4>1. Landed(k)
        BY <1>a DEF LandInv
      <4>2. Copied(k) => Copied(k)'
        BY <2>1, <2>2
      <4>3. dirty[k] => dirty'[k]
        BY <2>1, <3>2 DEF TypeOK
      <4> QED BY <2>1, <4>1, <4>2, <4>3
    <3> QED BY <3>1, <3>2
  <2> QED BY <1>a, <2>1, <2>5, <2>6, <2>7 DEF LandInv
<1>9. ASSUME NEW p \in Processes, NEW w \in writes[p], StoreTask(p, w) PROVE LandInv'
  <2>1. /\ writes' = [writes EXCEPT ![p] = @ \ {w}]
        /\ landed' = [landed EXCEPT ![w.task] = IF w.ver > @ THEN w.ver ELSE @]
        /\ UNCHANGED <<dirty, phase, pending, ver>>
    BY <1>9 DEF StoreTask
  <2>2. w \in Record /\ w.ver <= ver[w.task]
    BY DEF TypeOK, LandInv
  <2>3. \A q \in Processes : writes'[q] \subseteq writes[q] /\ writes[q] \ {w} \subseteq writes'[q]
    BY <2>1 DEF TypeOK
  <2>4. \A k \in Tasks : /\ landed'[k] <= ver[k]
                         /\ landed[k] = ver[k] => landed'[k] = ver[k]
                         /\ w.task = k /\ w.ver = ver[k] => landed'[k] = ver[k]
    BY <2>1, <2>2 DEF LandInv, TypeOK, Record
  <2>5. /\ \A q \in Processes : \A x \in writes'[q] : x.ver <= ver[x.task]
        /\ \A q \in Requests \cup Admins : pending'[q] # None => writes'[q] = {}
        /\ \A q \in Requests : phase'[q] \in {"new", "held"} => pending'[q] = None /\ writes'[q] = {}
    BY <2>1, <2>3 DEF LandInv, Processes
  <2>6. \A k \in Tasks : Landed(k)'
    BY <1>a, <2>1, <2>3, <2>4 DEF LandInv
  <2> QED BY <1>a, <2>1, <2>4, <2>5, <2>6 DEF LandInv
<1>10. ASSUME NEW p \in Processes, NEW w \in writes[p], FailStoreTask(p, w) PROVE LandInv'
  <2>1. /\ writes' = [writes EXCEPT ![p] = @ \ {w}]
        /\ dirty' = [dirty EXCEPT ![w.task] = TRUE]
        /\ UNCHANGED <<phase, pending, ver, landed>>
    BY <1>10 DEF FailStoreTask
  <2>2. \A q \in Processes : writes'[q] \subseteq writes[q] /\ writes[q] \ {w} \subseteq writes'[q]
    BY <2>1 DEF TypeOK
  <2>3. \A k \in Tasks : (w.task = k => dirty'[k]) /\ (dirty[k] => dirty'[k])
    BY <2>1 DEF TypeOK
  <2>4. /\ \A q \in Processes : \A x \in writes'[q] : x.ver <= ver[x.task]
        /\ \A q \in Requests \cup Admins : pending'[q] # None => writes'[q] = {}
        /\ \A q \in Requests : phase'[q] \in {"new", "held"} => pending'[q] = None /\ writes'[q] = {}
    BY <2>1, <2>2 DEF LandInv, Processes
  <2>5. \A k \in Tasks : Landed(k)'
    BY <1>a, <2>1, <2>2, <2>3 DEF LandInv
  <2> QED BY <1>a, <2>1, <2>4, <2>5 DEF LandInv
<1>11. CASE Restart
  <2>1. /\ \A p \in Processes : writes'[p] = {}
        /\ \A p \in Requests \cup Admins : pending'[p] = None
        /\ \A t \in Tasks : landed'[t] = store[t].ver /\ ver'[t] = store[t].ver
        /\ \A t \in Tasks : store[t].ver \in Nat
    BY <1>11 DEF Restart, TypeOK, Row
  <2>2. \A k \in Tasks : Landed(k)'
    BY <2>1
  <2> QED BY <1>a, <2>1, <2>2 DEF LandInv, Processes
<1>12. CASE UNCHANGED vars
  BY <1>1, <1>12 DEF vars
<1> QED
  BY <1>2, <1>4, <1>5, <1>6, <1>7, <1>8, <1>9, <1>10, <1>11, <1>12
  DEF Next, Reserve, Finish, Write

(* No changed total is ever forgotten: it is dirty, or being written, or    *)
(* was written, whatever writes fail (storeTaskRecord, tasks.go:380-389).   *)
THEOREM TotalsAreNotForgotten == Spec => []TotalsLand
<1>1. Init => LandInv
  BY DEF Init, LandInv, TotalsLand, WritesOf, Processes
<1>2. LandInv => TotalsLand
  BY DEF LandInv
<1> QED BY <1>1, <1>2, LandStep, TypeCorrect, PTL DEF Spec

=============================================================================
