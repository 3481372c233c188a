------------------------------ MODULE TaskBudget ------------------------------
(***************************************************************************)
(* Task budgets of the budget manager (src/internal/budget/tasks.go): the  *)
(* cap check and reservation of ReserveTask, its settlement or release,    *)
(* ResetTask, the store writes that follow a settlement or a periodic      *)
(* flush, and a restart from the store.                                    *)
(*                                                                         *)
(* Every critical section of BudgetManager.mu is one action.  The store    *)
(* writes happen outside mu: a process first takes a copy of the dirty     *)
(* totals and writes it in later steps.  All writers hold flushMu for      *)
(* reading, so flushMu does not order them (DeleteAgent, its only writer,  *)
(* belongs to AgentLifecycle).  Money is counted in integer units;         *)
(* requestCount, timestamps and lastAgent are data no property reads.      *)
(***************************************************************************)
EXTENDS Integers, FiniteSets

CONSTANTS
  Tasks,        \* task identifiers clients put in X-Oberwatch-Task
  Requests,     \* proxied requests; each reserves at most once
  Admins,       \* management API calls that reset a task
  Flushers,     \* callers of Flush: the ticker goroutine, agent operations
  Agents,       \* agents the requests come from
  TaskLimit,    \* the cap taskLimitLocked returns for each agent; 0 = no cap
  Cap,          \* the largest of these caps
  MaxCost,      \* largest estimate or cost of one request
  MaxVersion    \* bound on the number of changes of one task total

ASSUME ConstantsAssumption ==
  /\ IsFiniteSet(Requests)
  /\ Requests \cap Admins = {}
  /\ Requests \cap Flushers = {}
  /\ Admins \cap Flushers = {}
  /\ Cap \in Nat
  /\ TaskLimit \in [Agents -> 0 .. Cap]
  /\ MaxCost \in Nat
  /\ MaxVersion \in Nat

None == "none"
ASSUME NoneAssumption == None \notin Tasks

VARIABLES
  known,     \* the tasks of BudgetManager.tasks
  spent,     \* settled spend of each task
  reserved,  \* estimates of the requests in flight
  inFlight,  \* their number
  dirty,     \* does the total differ from the last copy taken for the store?
  phase,     \* where each request stands
  hold,      \* the TaskReservation of each request
  pending,   \* the task each process still has to flush, or None
  writes,    \* records each process took and has not written yet
  store,     \* the task_budgets table; version 0 = no row
  ver,       \* history: how often the total in memory changed
  landed,    \* history: the newest version ever written to the store
  overrun    \* history: how much each task's responses exceeded their estimates

memory == <<known, spent, reserved, inFlight, dirty>>
history == <<ver, landed, overrun>>
vars == <<memory, phase, hold, pending, writes, store, history>>

Processes == Requests \cup Admins \cup Flushers
Amount    == 0 .. MaxCost
Phase     == {"new", "rejected", "held", "settled", "released", "lost"}
Record    == [task : Tasks, spent : Nat, ver : Nat]
Row       == [spent : Nat, ver : Nat]
Hold      == [task : Tasks \cup {None}, est : Amount]
NoHold    == [task |-> None, est |-> 0]
NoRow     == [spent |-> 0, ver |-> 0]

InFlight(t) == {r \in Requests : phase[r] = "held" /\ hold[r].task = t}

(* A hold of n units is the set {r} \X 1..n, so that the sum of the holds   *)
(* on a task is the cardinality of their union.                             *)
HeldUnits(t) == {u \in InFlight(t) \X (1 .. MaxCost) : u[2] <= hold[u[1]].est}

WritesOf(t) == {w \in UNION {writes[p] : p \in Processes} : w.task = t}

-----------------------------------------------------------------------------

Init ==
  /\ known = {}
  /\ spent = [t \in Tasks |-> 0]
  /\ reserved = [t \in Tasks |-> 0]
  /\ inFlight = [t \in Tasks |-> 0]
  /\ dirty = [t \in Tasks |-> FALSE]
  /\ phase = [r \in Requests |-> "new"]
  /\ hold = [r \in Requests |-> NoHold]
  /\ pending = [p \in Requests \cup Admins |-> None]
  /\ writes = [p \in Processes |-> {}]
  /\ store = [t \in Tasks |-> NoRow]
  /\ ver = [t \in Tasks |-> 0]
  /\ landed = [t \in Tasks |-> 0]
  /\ overrun = [t \in Tasks |-> 0]

(* Mutant: the cap is compared with settled spend only.                     *)
ExceedsSettledOnly(a, t, e) == TaskLimit[a] > 0 /\ spent[t] + e > TaskLimit[a]

Exceeds(a, t, e) == TaskLimit[a] > 0 /\ spent[t] + reserved[t] + e > TaskLimit[a]

(* ReserveTask refuses: the task is remembered, nothing is held.            *)
RejectTask(r, a, t, e) ==
  /\ phase[r] = "new"
  /\ Exceeds(a, t, e)
  /\ known' = known \cup {t}
  /\ phase' = [phase EXCEPT ![r] = "rejected"]
  /\ UNCHANGED <<spent, reserved, inFlight, dirty, hold, pending, writes, store, history>>

(* ReserveTask admits the request and holds its estimate.                   *)
ReserveTask(r, a, t, e) ==
  /\ phase[r] = "new"
  /\ ~Exceeds(a, t, e)
  /\ known' = known \cup {t}
  /\ reserved' = [reserved EXCEPT ![t] = @ + e]
  /\ inFlight' = [inFlight EXCEPT ![t] = @ + 1]
  /\ phase' = [phase EXCEPT ![r] = "held"]
  /\ hold' = [hold EXCEPT ![r] = [task |-> t, est |-> e]]
  /\ UNCHANGED <<spent, dirty, pending, writes, store, history>>

(* The part of settleTask both outcomes share: give the hold back.  The     *)
(* counter stops at zero and the sum is zero once nothing is in flight.     *)
DropHold(r) ==
  LET t == hold[r].task
      n == IF inFlight[t] > 0 THEN inFlight[t] - 1 ELSE inFlight[t]
      s == reserved[t] - hold[r].est
  IN /\ inFlight' = [inFlight EXCEPT ![t] = n]
     /\ reserved' = [reserved EXCEPT ![t] = IF s < 0 \/ n = 0 THEN 0 ELSE s]

Excess(cost, est) == IF cost > est THEN cost - est ELSE 0

(* Mutant: the estimate counts as charged and only the difference is added. *)
SettleDifference(r, cost) ==
  LET t == hold[r].task
  IN /\ phase[r] = "held"
     /\ ver[t] < MaxVersion
     /\ DropHold(r)
     /\ spent' = [spent EXCEPT ![t] = @ + cost - hold[r].est]
     /\ dirty' = [dirty EXCEPT ![t] = TRUE]
     /\ ver' = [ver EXCEPT ![t] = @ + 1]
     /\ overrun' = [overrun EXCEPT ![t] = @ + Excess(cost, hold[r].est)]
     /\ phase' = [phase EXCEPT ![r] = "settled"]
     /\ pending' = [pending EXCEPT ![r] = t]
     /\ UNCHANGED <<known, hold, writes, store, landed>>

(* TaskReservation.Settle: the billed outcome.  The flush of this task is   *)
(* the caller's next step.                                                  *)
Settle(r, cost) ==
  LET t == hold[r].task
  IN /\ phase[r] = "held"
     /\ ver[t] < MaxVersion
     /\ DropHold(r)
     /\ spent' = [spent EXCEPT ![t] = @ + cost]
     /\ dirty' = [dirty EXCEPT ![t] = TRUE]
     /\ ver' = [ver EXCEPT ![t] = @ + 1]
     /\ overrun' = [overrun EXCEPT ![t] = @ + Excess(cost, hold[r].est)]
     /\ phase' = [phase EXCEPT ![r] = "settled"]
     /\ pending' = [pending EXCEPT ![r] = t]
     /\ UNCHANGED <<known, hold, writes, store, landed>>

(* TaskReservation.Release: the request produced nothing to bill.           *)
Release(r) ==
  /\ phase[r] = "held"
  /\ DropHold(r)
  /\ phase' = [phase EXCEPT ![r] = "released"]
  /\ UNCHANGED <<known, spent, dirty, hold, pending, writes, store, history>>

(* Mutant: the reset clears the holds along with the spend.                 *)
ResetWithHolds(p, t) ==
  /\ pending[p] = None /\ writes[p] = {}
  /\ t \in known
  /\ ver[t] < MaxVersion
  /\ spent' = [spent EXCEPT ![t] = 0]
  /\ reserved' = [reserved EXCEPT ![t] = 0]
  /\ dirty' = [dirty EXCEPT ![t] = TRUE]
  /\ ver' = [ver EXCEPT ![t] = @ + 1]
  /\ pending' = [pending EXCEPT ![p] = t]
  /\ UNCHANGED <<known, inFlight, phase, hold, writes, store, landed, overrun>>

(* ResetTask: clears the settled spend and keeps the holds.                 *)
ResetTask(p, t) ==
  /\ pending[p] = None /\ writes[p] = {}
  /\ t \in known
  /\ ver[t] < MaxVersion
  /\ spent' = [spent EXCEPT ![t] = 0]
  /\ dirty' = [dirty EXCEPT ![t] = TRUE]
  /\ ver' = [ver EXCEPT ![t] = @ + 1]
  /\ pending' = [pending EXCEPT ![p] = t]
  /\ UNCHANGED <<known, reserved, inFlight, phase, hold, writes, store, landed, overrun>>

-----------------------------------------------------------------------------

RecordOf(t) == [task |-> t, spent |-> spent[t], ver |-> ver[t]]

(* flushTaskIfNeeded up to the release of mu: take the one task that just   *)
(* changed, unless another flush took it already.                           *)
TakeTask(p) ==
  LET t == pending[p]
  IN /\ t # None
     /\ pending' = [pending EXCEPT ![p] = None]
     /\ dirty' = [dirty EXCEPT ![t] = FALSE]
     /\ writes' = [writes EXCEPT ![p] = IF dirty[t] THEN {RecordOf(t)} ELSE {}]
     /\ UNCHANGED <<known, spent, reserved, inFlight, phase, hold, store, history>>

(* flushTasks up to the release of mu: take every dirty task.               *)
TakeDirtyTasks(f) ==
  /\ writes[f] = {}
  /\ \E t \in known : dirty[t]
  /\ writes' = [writes EXCEPT ![f] = {RecordOf(t) : t \in {k \in known : dirty[k]}}]
  /\ dirty' = [t \in Tasks |-> IF t \in known THEN FALSE ELSE dirty[t]]
  /\ UNCHANGED <<known, spent, reserved, inFlight, phase, hold, pending, store, history>>

(* storeTaskRecord succeeds: UpsertTask replaces the row.                   *)
StoreTask(p, w) ==
  /\ writes' = [writes EXCEPT ![p] = @ \ {w}]
  /\ store' = [store EXCEPT ![w.task] = [spent |-> w.spent, ver |-> w.ver]]
  /\ landed' = [landed EXCEPT ![w.task] = IF w.ver > @ THEN w.ver ELSE @]
  /\ UNCHANGED <<memory, phase, hold, pending, ver, overrun>>

(* Mutant: a failed write is only logged.                                   *)
FailSilently(p, w) ==
  /\ writes' = [writes EXCEPT ![p] = @ \ {w}]
  /\ UNCHANGED <<memory, phase, hold, pending, store, history>>

(* storeTaskRecord fails: markTaskDirty puts the flag back.                 *)
FailStoreTask(p, w) ==
  /\ writes' = [writes EXCEPT ![p] = @ \ {w}]
  /\ dirty' = [dirty EXCEPT ![w.task] = TRUE]
  /\ UNCHANGED <<known, spent, reserved, inFlight, phase, hold, pending, store, history>>

(* The process dies at any point and loadPersistedTasks rebuilds the map:   *)
(* holds, pending flushes and untaken totals are gone.                      *)
Restart ==
  LET rows == {t \in Tasks : store[t].ver > 0}
  IN /\ known' = rows
     /\ spent' = [t \in Tasks |-> store[t].spent]
     /\ reserved' = [t \in Tasks |-> 0]
     /\ inFlight' = [t \in Tasks |-> 0]
     /\ dirty' = [t \in Tasks |-> FALSE]
     /\ phase' = [r \in Requests |-> IF phase[r] = "held" THEN "lost" ELSE phase[r]]
     /\ pending' = [p \in Requests \cup Admins |-> None]
     /\ writes' = [p \in Processes |-> {}]
     /\ ver' = [t \in Tasks |-> store[t].ver]
     /\ landed' = [t \in Tasks |-> store[t].ver]
     /\ UNCHANGED <<hold, store, overrun>>

-----------------------------------------------------------------------------

Reserve(r) == \E a \in Agents, t \in Tasks, e \in Amount :
                RejectTask(r, a, t, e) \/ ReserveTask(r, a, t, e)
Finish(r)  == Release(r) \/ \E c \in Amount : Settle(r, c)
Write(p)   == \E w \in writes[p] : StoreTask(p, w) \/ FailStoreTask(p, w)

Next ==
  \/ \E r \in Requests : Reserve(r) \/ Finish(r)
  \/ \E p \in Admins, t \in Tasks : ResetTask(p, t)
  \/ \E p \in Requests \cup Admins : TakeTask(p)
  \/ \E f \in Flushers : TakeDirtyTasks(f)
  \/ \E p \in Processes : Write(p)
  \/ Restart

Spec == Init /\ [][Next]_vars

(* The store recovers: a process that keeps writing eventually succeeds.    *)
(* The goroutines are scheduled and the flush ticker keeps firing.          *)
Fairness ==
  /\ \A p \in Requests \cup Admins : WF_vars(TakeTask(p))
  /\ \A f \in Flushers : WF_vars(TakeDirtyTasks(f))
  /\ \A p \in Processes : SF_vars(\E w \in writes[p] : StoreTask(p, w))
  /\ \A p \in Processes : WF_vars(Write(p))

FairSpec == Spec /\ Fairness

-----------------------------------------------------------------------------

(* Types of the variables; a request in flight holds a real task, and only  *)
(* a task of the map can be dirty.                                          *)
TypeOK ==
  /\ known \in SUBSET Tasks
  /\ spent \in [Tasks -> Nat]
  /\ reserved \in [Tasks -> Nat]
  /\ inFlight \in [Tasks -> Nat]
  /\ dirty \in [Tasks -> BOOLEAN]
  /\ phase \in [Requests -> Phase]
  /\ hold \in [Requests -> Hold]
  /\ pending \in [Requests \cup Admins -> Tasks \cup {None}]
  /\ writes \in [Processes -> SUBSET Record]
  /\ store \in [Tasks -> Row]
  /\ ver \in [Tasks -> Nat]
  /\ landed \in [Tasks -> Nat]
  /\ overrun \in [Tasks -> Nat]
  /\ \A r \in Requests : phase[r] = "held" => hold[r].task \in Tasks

(* The totals a reservation is checked against are exactly the requests in  *)
(* flight, whatever the order of settlements, releases, resets and          *)
(* restarts: no hold leaks, none is given back twice, and the clamping of   *)
(* settleTask (tasks.go:193-197) never hides a hold of another request.     *)
HoldsMatchInFlight ==
  \A t \in Tasks :
    /\ inFlight[t] = Cardinality(InFlight(t))
    /\ reserved[t] = Cardinality(HeldUnits(t))

AllCapped == \A a \in Agents : TaskLimit[a] > 0

(* A task shared by concurrent requests of capped agents never commits more *)
(* than the largest cap, except by what responses cost above the estimates  *)
(* they were admitted with (tasks.go:116-118): not after a reset with       *)
(* requests in flight, not after a restart from any row ever written.       *)
CapHolds ==
  AllCapped => \A t \in Tasks : spent[t] + reserved[t] <= Cap + overrun[t]

(* A changed total is never forgotten (tasks.go:380-382): if its flag is    *)
(* down and no copy of it waits to be written, that very total was written. *)
TotalsLand ==
  \A t \in Tasks :
    ~dirty[t] /\ (\A w \in WritesOf(t) : w.ver # ver[t]) => landed[t] = ver[t]

(* What tasks.go:339-341 promises: once no write of a task is under way, a  *)
(* restart reads back at least its settled spend.                           *)
RestartKeepsSettledSpend ==
  \A t \in known : ~dirty[t] /\ WritesOf(t) = {} => store[t].spent >= spent[t]

(* A total whose write failed reaches the store once the store accepts      *)
(* writes again: the flush loop retries it (tasks.go:365-398).              *)
ChangedTotalsReachStore == \A t \in Tasks : dirty[t] ~> landed[t] = ver[t]

=============================================================================
