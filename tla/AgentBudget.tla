----------------------------- MODULE AgentBudget ------------------------------
(***************************************************************************)
(* The budget policy of src/internal/budget/manager.go: the check before a *)
(* request, the spend recorded after it, budget periods, thresholds, kills *)
(* and their reasons, runaway detection, the global budget, policy updates *)
(* and what a restart makes of the rows.                                   *)
(*                                                                         *)
(* A step is a critical section of BudgetManager.mu, or one write to the   *)
(* store.  A call reads the clock before it waits for the mutex, so it may *)
(* enter with an old time.  A flush takes its copies in one step and       *)
(* writes them in later ones, in any order; a write that fails ends it.    *)
(* Money comes in units, time in ticks, a period is a number of ticks.     *)
(***************************************************************************)
EXTENDS Naturals, FiniteSets, FiniteSetsExt

CONSTANTS
  Agents,
  Flushers,       \* goroutines that flush: the ticker, and calls when they end
  None,           \* what is absent
  MaxUnder,       \* bound: requests under way at once
  Policies,       \* policies an operator may set
  DefaultPolicy,  \* gate.default_budget and the shared gate settings
  Configs,        \* configuration files: the agents they list, with policies
  Costs,          \* what a request may be estimated at, and may cost
  GlobalLimit, GlobalPeriod,
  MaxRequests, Window,   \* gate.runaway
  LateCalls,      \* whether a call may enter with the time of the last tick
  MaxTime,        \* bound: ticks
  MaxCalls,       \* bound: requests a window remembers
  MaxSpend        \* bound: units an agent may have recorded in a period

NoReason == "none"
Actions == {"reject", "downgrade", "alert", "kill", "unset"}
Policy == [limit : Nat, period : Nat \ {0}, action : Actions, downgrade : 0 .. 100,
           alerts : SUBSET (0 .. 100)]

ASSUME ConstantsAssumption ==
  /\ None \notin Agents /\ IsFiniteSet(Agents)
  /\ Policies \subseteq Policy /\ DefaultPolicy \in Policy
  /\ \A cfg \in Configs :
       DOMAIN cfg \subseteq Agents /\ \A a \in DOMAIN cfg : cfg[a] \in Policy
  /\ Costs \subseteq Nat /\ IsFiniteSet(Costs)
  /\ GlobalLimit \in Nat /\ GlobalPeriod \in Nat \ {0}
  /\ MaxRequests \in Nat /\ Window \in Nat
  /\ LateCalls \in BOOLEAN
  /\ MaxUnder \in Nat /\ MaxTime \in Nat /\ MaxCalls \in Nat /\ MaxSpend \in Nat

VARIABLES
  clock,
  settled,   \* whether the clock has moved since the process started
  policy,    \* agentPolicy
  state,     \* state, None for an agent that is not tracked
  global,    \* globalState; the period's start is only shown
  row,       \* the agents table
  copies,    \* records each flush has taken and not written yet, None for no record
  astray,    \* history: agents whose last copy crossed another one or failed to land
  under      \* requests under way: let through and not yet billed, by agent

store == <<row, copies, astray>>
vars == <<clock, settled, policy, state, global, store, under>>

-----------------------------------------------------------------------------
(* Policies and thresholds.                                                 *)

Never == [t \in 0 .. MaxTime |-> 0]

(* Whether percentageUsed is at least thr.                                  *)
Reaches(p, spent, thr) ==
  IF p.limit > 0 /\ spent > 0 THEN 100 * spent >= thr * p.limit ELSE thr = 0

(* The thresholds a spend takes the agent over.                             *)
Crossed(p, before, after) ==
  {thr \in p.alerts : ~Reaches(p, before, thr) /\ Reaches(p, after, thr)}

(* UpsertAgent replaces what it takes for unset.                            *)
Stored(p) ==
  [p EXCEPT !.action    = IF @ = "unset" THEN "alert" ELSE @,
            !.downgrade = IF @ = 0 THEN 80 ELSE @,
            !.alerts    = IF @ = {} THEN {50, 80, 100} ELSE @]

Enforces(p) == p.limit > 0 /\ p.action \in {"reject", "kill", "unset"}

-----------------------------------------------------------------------------
(* agentState.  Three fields are history: the start of the period whose     *)
(* limit led to a kill, whether the policy was changed in the period, and   *)
(* the ticks of the requests let through since the window was cleared.      *)

Tracked == {a \in Agents : state[a] # None}

New(p, n) ==
  [spent |-> 0, start |-> n, resets |-> n + p.period, times |-> Never, fired |-> {},
   killed |-> FALSE, reason |-> NoReason, dirty |-> TRUE, cause |-> 0, moved |-> FALSE,
   passed |-> Never]

Of(a, p, n) == IF a \in Tracked THEN state[a] ELSE New(p, n)

Pardon(s) ==
  IF s.reason = "budget_exceeded" THEN [s EXCEPT !.killed = FALSE, !.reason = NoReason, !.cause = 0] ELSE s

NewPeriod(s, p, n) ==
  [Pardon(s) EXCEPT !.spent = 0, !.start = n, !.resets = n + p.period, !.times = Never,
                    !.fired = {}, !.dirty = TRUE, !.moved = FALSE, !.passed = Never]

(* Mutant: a new period leaves the kill of the old one in place.            *)
RollUnpardoned(s, p, n) ==
  IF n < s.resets THEN s
  ELSE [s EXCEPT !.spent = 0, !.start = n, !.resets = n + p.period, !.times = Never,
                 !.fired = {}, !.dirty = TRUE, !.moved = FALSE,
                 !.passed = Never]

(* Mutant: the reset is not marked for the flush.                           *)
RollClean(s, p, n) == IF n < s.resets THEN s ELSE [NewPeriod(s, p, n) EXCEPT !.dirty = s.dirty]

(* maybeResetPeriodLocked.  legacyBudgetKill compares the spend after it    *)
(* was set to zero, so it never adds a pardon.                              *)
Roll(s, p, n) == IF n < s.resets THEN s ELSE NewPeriod(s, p, n)

Current(a, n) == Roll(Of(a, policy[a], n), policy[a], n)

Kill(s, reason) == [s EXCEPT !.killed = TRUE, !.reason = reason, !.cause = 0, !.dirty = TRUE]

RollGlobal(n) ==
  IF GlobalLimit = 0 \/ n < global.resets THEN global
  ELSE [spent |-> 0, resets |-> n + GlobalPeriod]

(* The times a call may have read before it got the mutex.                  *)
Now == IF LateCalls /\ settled THEN {clock - 1, clock} ELSE {clock}

Sum(f, S) == MapThenSumSet(LAMBDA x : f[x], S)
Total(f)  == Sum(f, DOMAIN f)

Set(a, s) == state' = [state EXCEPT ![a] = s]

-----------------------------------------------------------------------------
(* CheckBudgetDetailed, one action for each of its returns.                 *)

Outside == UNCHANGED <<clock, settled, policy, store>>

RefuseKilled(a, n) ==
  /\ Current(a, n).killed
  /\ Set(a, Current(a, n))
  /\ UNCHANGED <<global, under>> /\ Outside

Passes(a, n) == ~Current(a, n).killed
GlobalFull(n, est) == GlobalLimit > 0 /\ RollGlobal(n).spent + est > GlobalLimit

RefuseGlobal(a, n, est) ==
  /\ Passes(a, n) /\ GlobalFull(n, est)
  /\ Set(a, Current(a, n))
  /\ global' = RollGlobal(n)
  /\ UNCHANGED under /\ Outside

Detects == MaxRequests > 0 /\ Window > 0

(* Mutant: the requests of the current tick replace the window.             *)
RegisteredAnew(s, n) ==
  [s EXCEPT !.times = [t \in 0 .. MaxTime |-> IF t = n THEN s.times[t] + 1 ELSE 0]]

(* registerRequestAndDetectRunawayLocked: what is older than the window     *)
(* goes, and the request is added.                                          *)
Registered(s, n) ==
  IF ~Detects THEN s
  ELSE [s EXCEPT !.times = [t \in 0 .. MaxTime |->
                              (IF t + Window >= n THEN s.times[t] ELSE 0) + (IF t = n THEN 1 ELSE 0)]]

Runaway(s) == Detects /\ Total(s.times) > MaxRequests

RefuseRunaway(a, n, est) ==
  LET s == Registered(Current(a, n), n) IN
  /\ Passes(a, n) /\ ~GlobalFull(n, est) /\ Runaway(s)
  /\ Total(s.times) <= MaxCalls
  /\ Set(a, Kill(s, "runaway_detected"))
  /\ global' = RollGlobal(n)
  /\ UNCHANGED under /\ Outside

(* Mutant: the spend alone is compared, not what the request will add.      *)
OverLimitAfter(p, s, est) == p.limit > 0 /\ s.spent > p.limit + est

OverLimit(p, s, est) == p.limit > 0 /\ s.spent + est > p.limit

(* overLimitDecision, when it refuses.                                      *)
RefuseOverLimit(a, n, est) ==
  LET s == Registered(Current(a, n), n)
      p == policy[a] IN
  /\ Passes(a, n) /\ ~GlobalFull(n, est) /\ ~Runaway(s)
  /\ OverLimit(p, s, est) /\ Enforces(p)
  /\ Set(a, IF p.action = "kill" THEN [Kill(s, "budget_exceeded") EXCEPT !.cause = s.start] ELSE s)
  /\ global' = RollGlobal(n)
  /\ UNCHANGED under /\ Outside

(* Allow, alert, or downgrade: the request goes on.  A downgrade that finds *)
(* no model to change to is let through below the limit and refused above   *)
(* it; here it is let through.                                              *)
Admit(a, n, est) ==
  LET s == Registered(Current(a, n), n) IN
  /\ Total(under) < MaxUnder
  /\ Passes(a, n) /\ ~GlobalFull(n, est) /\ ~Runaway(s)
  /\ ~(OverLimit(policy[a], s, est) /\ Enforces(policy[a]))
  /\ Set(a, [s EXCEPT !.passed[n] = @ + 1])
  /\ global' = RollGlobal(n)
  /\ under' = [under EXCEPT ![a] = @ + 1]
  /\ Outside

Refuse(a, n, est) == RefuseGlobal(a, n, est) \/ RefuseRunaway(a, n, est) \/ RefuseOverLimit(a, n, est)

-----------------------------------------------------------------------------
(* RecordSpend.                                                             *)

RecordSpend(a, n, cost) ==
  LET s == Current(a, n) IN
  /\ under[a] > 0
  /\ s.spent + cost <= MaxSpend
  /\ Set(a, [s EXCEPT !.spent = @ + cost, !.dirty = TRUE,
                      !.fired = @ \cup Crossed(policy[a], s.spent, s.spent + cost)])
  /\ global' = [RollGlobal(n) EXCEPT !.spent = @ + cost]
  /\ under' = [under EXCEPT ![a] = @ - 1]
  /\ Outside

(* A request that is not billed: no answer, or no usage in it.              *)
Fail(a) ==
  /\ under[a] > 0
  /\ under' = [under EXCEPT ![a] = @ - 1]
  /\ UNCHANGED <<state, global>> /\ Outside

-----------------------------------------------------------------------------
(* The management API.                                                      *)

KillAgent(a, n) ==
  /\ Set(a, Kill(Of(a, policy[a], n), "manual_kill"))
  /\ UNCHANGED <<global, under>> /\ Outside

EnableAgent(a, n) ==
  /\ Set(a, [Of(a, policy[a], n) EXCEPT !.killed = FALSE, !.reason = NoReason, !.cause = 0,
                                            !.dirty = TRUE])
  /\ UNCHANGED <<global, under>> /\ Outside

(* The period of the new policy begins when the current one ends.           *)
UpdateBudget(a, n, p) ==
  /\ policy' = [policy EXCEPT ![a] = p]
  /\ Set(a, [Roll(Of(a, p, n), p, n) EXCEPT !.dirty = TRUE, !.moved = TRUE])
  /\ UNCHANGED <<clock, settled, global, store, under>>

ResetBudget(a, n) ==
  /\ Set(a, NewPeriod(Of(a, policy[a], n), policy[a], n))
  /\ UNCHANGED <<global, under>> /\ Outside

(* Snapshot, GetBudget and each agent of ListBudgets.                       *)
View(a, n) ==
  /\ Set(a, Current(a, n))
  /\ UNCHANGED <<global, under>> /\ Outside

GetGlobalBudget(n) ==
  /\ global' = RollGlobal(n)
  /\ UNCHANGED <<state, under>> /\ Outside

-----------------------------------------------------------------------------
(* The store and restarts.                                                  *)

Status(s) == IF s.killed THEN s.reason ELSE "active"

(* agentRecordLocked and UpsertAgent.                                       *)
Record(a, s) ==
  [policy |-> Stored(policy[a]), spent |-> s.spent, start |-> s.start, resets |-> s.resets,
   status |-> Status(s), cause |-> s.cause, moved |-> s.moved]

NoCopies == [a \in Agents |-> None]
OnTheWay(a) == {copies[f][a] : f \in Flushers} \ {None}

(* A flush takes its copies and lowers the flags.  An agent is astray when  *)
(* a copy of it is on its way already, since the two may land in any order. *)
TakeCopies(f, n) ==
  LET due == {a \in Tracked : Current(a, n).dirty} IN
  /\ copies[f] = NoCopies
  /\ state' = [a \in Agents |-> IF a \in Tracked THEN [Current(a, n) EXCEPT !.dirty = FALSE] ELSE None]
  /\ copies' = [copies EXCEPT ![f] = [a \in Agents |-> IF a \in due THEN Record(a, Current(a, n)) ELSE None]]
  /\ astray' = (astray \ due) \cup {a \in due : OnTheWay(a) # {}}
  /\ UNCHANGED <<clock, settled, policy, global, row, under>>

StoreCopy(f, a) ==
  /\ copies[f][a] # None
  /\ row' = [row EXCEPT ![a] = copies[f][a]]
  /\ copies' = [copies EXCEPT ![f][a] = None]
  /\ UNCHANGED <<clock, settled, policy, state, global, astray, under>>

(* The first error ends the flush; the flags of what it drops stay down.    *)
FailStore(f) ==
  /\ copies[f] # NoCopies
  /\ copies' = [copies EXCEPT ![f] = NoCopies]
  /\ astray' = astray \cup {a \in Agents : copies[f][a] # None}
  /\ UNCHANGED <<clock, settled, policy, state, global, row, under>>

(* SeedConfiguredAgents: the configuration wins over the policy in the row. *)
Seeded(r, cfg, n) ==
  [a \in Agents |->
     IF a \notin DOMAIN cfg THEN r[a]
     ELSE LET p == cfg[a] IN
          IF r[a] # None THEN [r[a] EXCEPT !.policy = Stored(p), !.moved = @ \/ r[a].policy # Stored(p)]
          ELSE [policy |-> Stored(p), spent |-> 0, start |-> n, resets |-> n + p.period,
                status |-> "active", cause |-> 0, moved |-> FALSE]]

(* Mutant: the reason of a kill is guessed from the spend in the row.       *)
ReasonGuessed(r) ==
  CASE r.status = "active" -> NoReason
    [] r.status # "active" /\ r.spent >= r.policy.limit -> "budget_exceeded"
    [] OTHER -> "manual_kill"

(* persistedDisableReason, for the statuses that are written.               *)
Reason(r) == IF r.status = "active" THEN NoReason ELSE r.status

(* Mutant: thresholds that fired before the restart are forgotten.          *)
FiredNone(r) == {}

Fired(r) == {thr \in r.policy.alerts : Reaches(r.policy, r.spent, thr)}

(* One agent of loadPersistedAgents.                                        *)
Loaded(r) ==
  [spent |-> r.spent, start |-> r.start, resets |-> r.resets, times |-> Never, fired |-> Fired(r),
   killed |-> r.status # "active", reason |-> Reason(r), dirty |-> FALSE, cause |-> r.cause,
   moved |-> r.moved, passed |-> Never]

StartPolicy(r) == [a \in Agents |-> IF r[a] = None THEN DefaultPolicy ELSE r[a].policy]

(* runServeRuntime: seed, then newManager.  The file may have been edited.  *)
Restart(cfg) ==
  LET r == Seeded(row, cfg, clock) IN
  /\ row' = r
  /\ copies' = [f \in Flushers |-> NoCopies] /\ astray' = {}
  /\ state' = [a \in Agents |-> IF r[a] = None THEN None ELSE Loaded(r[a])]
  /\ policy' = StartPolicy(r)
  /\ global' = [spent |-> 0, resets |-> clock + GlobalPeriod]
  /\ under' = [a \in Agents |-> 0]
  /\ settled' = FALSE
  /\ UNCHANGED clock

Tick ==
  /\ clock < MaxTime
  /\ clock' = clock + 1
  /\ settled' = LateCalls
  /\ UNCHANGED <<policy, state, global, store, under>>

-----------------------------------------------------------------------------

(* The first start finds an empty table.                                    *)
Init ==
  /\ clock = 0 /\ settled = FALSE
  /\ \E cfg \in Configs : row = Seeded([a \in Agents |-> None], cfg, 0)
  /\ copies = [f \in Flushers |-> NoCopies] /\ astray = {}
  /\ policy = StartPolicy(row)
  /\ state = [a \in Agents |-> IF row[a] = None THEN None ELSE Loaded(row[a])]
  /\ global = [spent |-> 0, resets |-> GlobalPeriod]
  /\ under = [a \in Agents |-> 0]

Api(a, n) ==
  \/ KillAgent(a, n) \/ EnableAgent(a, n) \/ ResetBudget(a, n) \/ View(a, n)
  \/ \E p \in Policies : UpdateBudget(a, n, p)

Next ==
  \/ \E n \in Now, a \in Agents :
       \/ RefuseKilled(a, n)
       \/ \E est \in Costs : Refuse(a, n, est) \/ Admit(a, n, est)
       \/ \E cost \in Costs : RecordSpend(a, n, cost)
       \/ Api(a, n)
  \/ \E a \in Agents : Fail(a)
  \/ \E n \in Now : GetGlobalBudget(n) \/ \E f \in Flushers : TakeCopies(f, n)
  \/ \E f \in Flushers : FailStore(f) \/ \E a \in Agents : StoreCopy(f, a)
  \/ \E cfg \in Configs : Restart(cfg)
  \/ Tick

Spec == Init /\ [][Next]_vars

-----------------------------------------------------------------------------

Permanent == {"manual_kill", "runaway_detected"}
Reasons == Permanent \cup {NoReason, "budget_exceeded"}
Counts == [0 .. MaxTime -> Nat]

StateType ==
  [spent : Nat, start : Nat, resets : Nat, times : Counts, fired : SUBSET (0 .. 100),
   killed : BOOLEAN, reason : Reasons, dirty : BOOLEAN, cause : Nat, moved : BOOLEAN, passed : Counts]

RowType ==
  [policy : Policy, spent : Nat, start : Nat, resets : Nat, status : {"active"} \cup (Reasons \ {NoReason}),
   cause : Nat, moved : BOOLEAN]

ASSUME NoneAssumption == None \notin StateType \cup RowType

(* Types; an agent is killed exactly for a reason, and a row never shows an *)
(* unset field.                                                             *)
TypeOK ==
  /\ clock \in 0 .. MaxTime /\ settled \in BOOLEAN
  /\ policy \in [Agents -> Policy]
  /\ global \in [spent : Nat, resets : Nat]
  /\ under \in [Agents -> 0 .. MaxUnder]
  /\ \A a \in Agents :
       /\ state[a] # None => state[a] \in StateType /\ (state[a].killed <=> state[a].reason # NoReason)
       /\ row[a] # None => row[a] \in RowType /\ row[a].policy = Stored(row[a].policy)
  /\ copies \in [Flushers -> [Agents -> RowType \cup {None}]] /\ astray \subseteq Agents

(* A manual kill and a runaway kill last until an operator enables the      *)
(* agent, through period and budget resets and policy updates; a restart    *)
(* loses one only if the row never showed it (README.md:167).               *)
Killed(s) == s # None /\ s.reason \in Permanent
KillsStand ==
  [][\A a \in Agents : Killed(state[a]) /\ ~Killed(state'[a])
       => \/ \E n \in Now : EnableAgent(a, n)
          \/ (\E cfg \in Configs : Restart(cfg)) /\ (row[a] = None \/ row[a].status \notin Permanent)]_vars

(* A kill for an exceeded budget belongs to the current period and ends     *)
(* with it, also across a restart (README.md:168).                          *)
ExceededKillEnds ==
  \A a \in Tracked : state[a].reason = "budget_exceeded" => state[a].cause = state[a].start

(* Whatever calls changed it, a state without the flag needs no other       *)
(* flush: all that is on its way to its row is a copy of that very state,   *)
(* and when nothing is, the row shows it.  It excepts what a flush loses    *)
(* with the flag down (Flush, manager.go:1062-1078): a copy that failed to  *)
(* land, or one taken while another was on its way; the next flush of a     *)
(* change to the agent that meets no other copy ends the exception.         *)
CleanIsSafe ==
  /\ TypeOK
  /\ \A a \in Tracked \ astray : ~state[a].dirty
       => IF OnTheWay(a) = {} THEN row[a] = Record(a, state[a])
          ELSE OnTheWay(a) = {Record(a, state[a])}

(* Every threshold the spend of the period has reached has fired, unless    *)
(* the policy was changed in the period; a restart knows the thresholds     *)
(* from the row.                                                            *)
ThresholdsFire ==
  \A a \in Tracked : policy[a].limit > 0 /\ state[a].spent > 0 /\ ~state[a].moved
    => \A thr \in policy[a].alerts \ {0} :
         Reaches(policy[a], state[a].spent, thr) <=> thr \in state[a].fired

MaxCost == Max(Costs \cup {0})

(* Requests are checked before and billed after, so the limit is passed, by *)
(* at most what the requests that may be under way at once cost: an agent   *)
(* over its limit has spent that excess, and what is still under way fits   *)
(* into it.  The global limit is kept in the same way.                      *)
OverspendBounded ==
  /\ \A a \in Tracked :
       Enforces(policy[a]) /\ ~state[a].moved /\ state[a].spent > policy[a].limit
         => state[a].spent + MaxCost * under[a] <= policy[a].limit + MaxCost * MaxUnder
  /\ GlobalLimit > 0 /\ global.spent > GlobalLimit
       => global.spent + MaxCost * Total(under) <= GlobalLimit + MaxCost * MaxUnder

(* No stretch of a window, one tick less where a call may be late, lets     *)
(* more than MaxRequests through.                                           *)
NoBurst ==
  LET span == IF LateCalls THEN Window - 1 ELSE Window IN
  Detects => \A a \in Tracked, t \in 0 .. MaxTime :
    Sum(state[a].passed, {u \in 0 .. MaxTime : t <= u /\ u <= t + span}) <= MaxRequests

=============================================================================
