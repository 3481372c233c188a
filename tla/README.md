# Oberwatch in TLA+

TLA+ models of the Oberwatch gateway, the TLC runs that check them on small
instances and the TLAPS proofs that carry the main results to every instance.
Paths and line numbers are those of the repository (`src/...`).

## 1. The system

Oberwatch is a reverse proxy in front of LLM providers. A request passes the
emergency switch, the budget of its agent and the cap of its task, is sent
upstream, and is accounted when the response body has been read. Everything the
proxy decides on is in memory, guarded by mutexes; SQLite is a write-behind copy
that a restart reads.

| component | code | state | operations | meets |
|---|---|---|---|---|
| task budgets | `internal/budget/tasks.go` | per task: settled spend, reserved estimates, count in flight, dirty flag | reserve, settle, release, reset, flush one, flush all, load | the request gate, the management API, the store |
| agent lifecycle | `internal/budget/manager.go`, `internal/storage/sqlite.go` | map of agent states, agents table, `flushMu` | discover, record, kill, enable, list, flush, rename, delete, load | requests, the ticker, the management API, the store |
| budget policy | `internal/budget/manager.go` | spend and period per agent, fired thresholds, request times, kill reason, global budget | check, record, update, reset, kill, enable, period reset | the request gate, the alert dispatcher |
| request gate | `internal/proxy/proxy.go`, `provider_routing.go` | one request: decision, hold, response body | check, downgrade, reserve, send, finalise | budgets, cost writer |
| emergency stop | `manager.go`, `internal/api/server.go`, `cmd/oberwatch/main.go` | a switch in memory and a setting | kill all, resume, load | the gate |
| alert dispatcher | `internal/alert/dispatcher.go` | bounded queue, workers, dedup keys, a count of pending jobs | dispatch, deliver with retries, drain, close | budgets, shutdown |
| accounts, sessions | `internal/api/auth.go` | password hash, session token and expiry, as settings | setup, login, logout, change password, expire | the management API |
| cost writer, shutdown | `internal/storage/writer.go`, `cmd/oberwatch/main.go` | bounded channel; the order of deferred closes | enqueue or drop, write, close | the gate, the store |
| provider status, events | `internal/provider/status.go`, `internal/api/server.go` | cached cards, one refresh slot, subscribers | refresh, read, subscribe, publish | the dashboard |
| upgrade | `internal/upgrade/*.go` | request and result files, release metadata, the installed binary | check, prepare, apply, report | a privileged helper, systemd |
| release versions | `internal/upgrade/version.go`, `policy.go`, `artifact.go` | none | compare, decide, stage, verify | the upgrade |
| usage and prices | `internal/pricing/*.go`, the tracking body of `proxy.go` | per response: a partial line and the counts found; a price table | read a chunk, finalise, price | the request gate |
| store schema, configuration, command line, dashboard | the rest | data and parsing | | |

What is hard about it:

* **concurrency**: every request, API call and ticker is a goroutine. State is
  read under `mu`, used after its release, and written to the store outside it.
* **failure**: a store statement can fail at any point of a batch; a process can
  stop between a change and its write.
* **ordering**: two writers of one row are not ordered by any lock.
* **time**: budget periods, alert retries and sessions expire while calls are
  under way; a shutdown waits five seconds for requests that may take longer.
* **two processes**: the service and the privileged applier of an upgrade share
  nothing but four files.
* **the network**: a stream is cut into chunks anywhere and may break off within
  a line.

What makes each part correct:

* *tasks*: holds are the requests in flight, settled spend and holds stay under
  the cap, a total that changed is never forgotten, a restart reads it back;
* *lifecycle*: nothing of a deleted agent comes back, a change reaches its row, a
  kill survives a restart, the table and the map name the same agents;
* *policy*: a manual or runaway kill survives a period reset, each threshold
  alerts once per period, spend never survives its period;
* *gate*: a request is accounted exactly once, overspending is bounded by the
  requests in flight;
* *switch*: an acknowledged stop holds until a resume begins, across restarts;
* *alerts*: each delivery of an alert has one fate, and a threshold alerts once;
* *sessions*: one account, a session of 24 hours at most, none after its logout;
* *shutdown*: what was accepted before the close is written;
* *cards and events*: a status shown is one a provider gave, a refresh never
  blocks the next one for ever, and a slow reader harms nobody else;
* *upgrade*: only a verified, newer release is installed, the replaced binary is
  kept, and what is reported is what happened;
* *usage*: a response is charged for what arrived of it, however it was cut.

## 2. Modules

| module | models | kind |
|---|---|---|
| `TaskBudget` | task budgets, their flushes and restarts | specification |
| `TaskBudgetProofs` | theorems about it | TLAPS |
| `AgentLifecycle` | agents in memory and in the store, flush, rename, delete | specification |
| `AgentLifecycleProofs` | theorems about it | TLAPS |
| `AgentBudget` | the budget policy: checks, periods, thresholds, kills, restart | specification |
| `AgentBudgetProofs` | theorems about it | TLAPS |
| `AlertMailbox` | what the dispatcher promises of one delivery | abstract specification |
| `AlertDispatcher` | the alert queue, its workers, retries, drain and close | specification, implements `AlertMailbox` |
| `AlertDispatcherProofs` | theorems about it, and the refinement | TLAPS |
| `Gateway` | a request from routing to accounting, with the emergency stop, the cost writer, shutdown and restart | composition |
| `StreamUsage` | what one response is charged | specification |
| `GatewayProofs` | theorems about both | TLAPS |
| `Sessions` | the admin account and its session | specification |
| `SessionsProofs` | theorems about it | TLAPS |
| `ProviderStatus` | the provider cards and their background refresh | specification |
| `EventStream` | the live events of the dashboard | specification |
| `DashboardProofs` | theorems about both | TLAPS |
| `Versions` | the precedence of versions and the upgrade policy | operators |
| `Upgrade` | release check, preparation and application of an upgrade | composition of two processes |
| `UpgradeProofs` | theorems about both | TLAPS |
| `MC...` | instances for TLC | TLC |

Each specification keeps, next to a definition, the mutants of it: operators that
change it the way a plausible mistake would. Nothing in a specification uses
them; `PROJECT.json` says which property each one breaks.

### TaskBudget

One action is one critical section of `BudgetManager.mu`. `ReserveTask` and
`RejectTask` are the two ends of `ReserveTask`; `Settle` and `Release` both run
`DropHold`, the part of `settleTask` they share; `once` is the guard
`phase[r] = "held"`. A settled request owes a flush of its task (`pending`),
which `TakeTask` turns into a copy (`writes`) and `StoreTask` or `FailStoreTask`
ends. `TakeDirtyTasks` is the same for a whole flush. `Restart` loses all that
is not in `store`.

Money is counted in integer units; float residue, which the clamp in
`settleTask` also removes, does not exist in the model. The exactness of holds
is therefore a statement about the accounting, not about floating point. A hold
of n units is the set `{r} \X 1..n`, so that sums are cardinalities and no
recursion is needed.

`ver`, `landed` and `overrun` are history: how often the total in memory
changed, the newest version written, and what responses cost above their
estimates.

### AgentLifecycle

The content of an agent's state is a version drawn from one counter and its
killed flag, because the questions here are which version is where: in memory,
in a copy, in a row. Whatever changes an agent draws a new version: recorded
spend, a kill, an enable, a discovery. Period resets and policy updates are
changes of the same shape and belong to the policy module.

`TakeAgents` is the snapshot a `Flush` takes, `StoreAgent` one `UpsertAgent`,
`FailStoreAgent` the early return of `Flush`; `TakeTask`, `StoreTask` and
`FailStoreTask` are the task half of the flush, of a settlement and of a delete.
A process at `agents` or `task` holds `flushMu` for reading, one at `detach` or
`detachTask` for writing. `MoveAgent`, `MoveRow`, `RefuseMove` and `UndoMove`
are `RenameAgent`; the first and the last are its critical sections of `mu`.
`ListAgents` and `GetBudget` are the two steps of `handleAgents` and
`handleBudgets`. One task stands for all. A store that refuses a delete leaves
everything unchanged and is a stuttering step.

A billed request is three critical sections: `RecordSpend`, `Settle` if it names a
task, and `GetBudget`. `main.go:712` wraps the cost sink, so that the cost record
passes `PublishCostUpdate`, which looks the agent up for its event
(`server.go:316-320`) and creates it if it is not there. `charged` says what a
client still has to settle or look up.

`tick`, `landed`, `gone` and `erased` are history: the last version drawn, the
versions written, the names deleted and not used since, and what the last version
was when a name was deleted.

`SQLiteStore.RenameAgent` does not roll its transaction back when no row matches
(`err` is nil there); the transaction ends when the request context is
cancelled, and other statements wait until then. The model lets them run between
the refusal and the rollback in memory as well, where the code may delay them;
the counterexamples do not depend on it.

### AgentBudget

One action is a critical section of `BudgetManager.mu`. The five returns of
`CheckBudgetDetailed` are `RefuseKilled`, `RefuseGlobal`, `RefuseRunaway`,
`RefuseOverLimit` and `Admit`. `RecordSpend`, `KillAgent`, `EnableAgent`,
`UpdateBudget`, `ResetBudget` and `GetGlobalBudget` bear the names of the code;
`TakeCopies`, `StoreCopy` and `FailStore` are the halves of `Flush` and its early
return; `View` stands for `Snapshot`, `GetBudget` and each agent of
`ListBudgets`, which all roll the period. `Roll` is `maybeResetPeriodLocked`.

* Callers read the clock before they wait for the mutex. `Now` therefore offers
  the last tick as well as this one (`LateCalls`), so periods and windows see
  time go backwards.
* `under` counts the requests that were let through and not yet billed; `Fail`
  ends one that is never billed. It is the gate as this component sees it.
* `Stored` is what `UpsertAgent` makes of unset fields: a downgrade threshold of
  0 becomes 80, no alert thresholds become 50, 80 and 100, an unset action
  becomes *alert*. `Restart` reads that back, so an unset action, which refuses
  requests over the limit while the process runs, lets them pass afterwards.
* `legacyBudgetKill` compares a spend that was set to zero two lines above, so it
  never adds a pardon, and the model leaves it out.
* A downgrade that finds no cheaper model is let through.
* The global budget is not persisted: `Restart` starts a new period with no
  spend.
* A flush lowers the flags when it takes its copies and writes them later, beside
  other flushes and calls; the first write that fails drops the rest.

`cause`, `moved`, `passed` and `astray` are history: the period whose limit led to
a kill, whether the policy changed in this period, the requests let through per
tick, and the agents a copy of which failed to land or met another copy of the same
agent on its way.

### AlertDispatcher and AlertMailbox

| action | code (`internal/alert/dispatcher.go`) |
|---|---|
| `Start` | `Dispatch` up to its loop, with `shouldSuppress` |
| `CheckOpen`, `CheckClosed` | `enqueue` reads `closed` under the mutex |
| `Announce` | `pending.Add(1)` |
| `Put`, `PutFull` | the `select` on the channel and its `default` |
| `Receive`, `Stop` | the `select` of `worker` |
| `Succeed`, `GiveUp`, `Fail` | one attempt: `sendOnce` and what `deliver` makes of it |
| `Retry`, `CancelRetry` | `wait` |
| `StartDrain`, `DrainDone`, `DrainTimeout` | `Drain` as `main.go` calls it |
| `SetClosed`, `Cancel`, `CloseReturns` | `Close` |

A delivery is an alert and a destination. Of the counters only `pending` is in
the model, because `Drain` decides on it; the others are only read by `Stats`.
`Succeed` stays possible after the context was cancelled: an answer may have
arrived before. Delays have no length, and the payloads the program builds can
always be encoded.

`AlertMailbox` knows one thing of each delivery, its fate. The refinement maps a
delivery in the channel or with a worker to *queued*; the mailbox then says that
it is taken or dropped at once and ends at most once.

### Gateway

A request is one handler goroutine. Its steps, kept in `at`, are those between
which another goroutine can change something the handler reads or writes:

| step | action | code |
|---|---|---|
| `new` | `Arrive` | `providerRoutingMiddleware`, `ResolveRequestProvider` |
| `routed` | `CheckStop` | the head of `gateMiddleware` |
| `passed` | `CheckBudget`, `Downgrade` | `CheckBudgetDetailed` and what the gate makes of it |
| `priced` | `Reserve` | `ReserveTask`, then the handler of the route |
| `upstream` | `Respond`, `UpstreamFails` | the reverse proxy or the compatibility handler |
| `answering` | `ReadEOF`, `BreakOff` | `budgetTrackingBody.Read`, `finalize` |
| `record`, `settle`, `publish`, `enqueue` | `Record`, `Settle`, `PublishCost`, `Enqueue` | the three ledgers: spend, task, cost record, with the event in front of the last |
| `closing` | `CloseBody` | `budgetTrackingBody.Close` |
| `leaving` | `Leave` | the deferred `Release` |

* The answer of the budget check and of the task cap is any answer they can
  give; `AgentBudget` and `TaskBudget` say which. The two are composed by these
  interfaces, not as one state space.
* The gate is enabled, and only paths `isKnownProxyPath` accepts arrive.
* Routing, identification and downgrading are functions: `Resolve`,
  `IdentifyAgent`, `Downgraded`. `SentToItsProvider` leaves out two cases in which
  the code does send a model to a provider it does not belong to: a chain that
  mixes providers, and a client that names the provider itself.
* `SetStop` and `StoreStop` are the two halves of `handleKillAll` and
  `handleResume`.
* `PublishCost` is `WrapCostSink`: the record goes to the subscribers of the live
  events before it is handed over. What its lookup does to the agent is in
  `AgentLifecycle` (`GetBudget`) and `AgentBudget` (`View`).
* `TakeRecord` and `SaveRecord` are the worker of `BufferedCostWriter`.
* `serving` walks through `runServeRuntime`: `Signal`, `StopWaiting` (all requests
  done, or five seconds), `CloseManager`, `CloseAlerts`, `CloseWriter`,
  `CloseStore`. A handler that outlives the timeout goes on in between, and its
  send on the closed cost channel panics (`panicked`). `Crash` can come at every
  step, `Start` reads the setting of the emergency stop.

### StreamUsage

The wire format matters here, down to where it is cut: a document is two bytes,
neither of which can be parsed alone, and the end of a line is one. A body is read
in chunks of any size and finalised after any of them. `Write` is
`SSEAccumulator.Write`, `Usage` its `Usage`, with the unfinished line and the two
estimates; `ExtractUsageFromResponse` is what a body that is no stream gives.
`NewPricingTable`, `normalizeModel` and `CalculateCost` are the price. A count of
tokens is an integer, so a negative one can arrive.

### Sessions

All state is in the settings table, so every statement is a step, every one may
fail, and a crash is the failure of the calls under way. A call names the token
it creates, so a token is unique as 32 random bytes are. A password is what it
hashes.

### ProviderStatus and EventStream

`ProviderStatus` has the rows, the slot (`refreshing`), refreshers and health
requests of `server.go`, and what a probe makes of a reply (`status.go`). Time is
an age that saturates where the code stops telling ages apart; a reply can be
*slow*, and then ends at the deadline. `EventStream` has the broker's map and lock,
a channel per client and a publisher that serves one client per step while it
holds the lock. A write to a client may never end.

### Versions and Upgrade

`Compare` and `IsUpgrade` are `version.go` and `policy.go`. In `Upgrade`, `Status`,
`Begin` ... `WriteRequest` are the service (`manager.go`, `release.go`,
`artifact.go`), `Activate` ... `WriteResult` the applier (`apply.go`) that a systemd
path unit starts. Each read or change of a file is a step. `Fault` may strike any
operation, `ServiceCrash` and `Reboot` the processes. `Publish` and `Upload` are the
outside: a release appears, is withdrawn, or its archive is replaced, with new
checksums, between the service's verification and the applier's. The content of an
archive is the version and the upload it stands for.

An applier that finds its directory unsafe returns without a result and leaves the
request (`apply.go:126-128`), and one that cannot remove an invalid request ignores
the error (`apply.go:137`); both are left out, and `RequestsEnd` says nothing of
them. systemd starts one applier at a time. Two started by hand at once share the files
without a lock (`apply.go:175`); that is not modelled.

## 3. Runs

| run | instance | question | result |
|---|---|---|---|
| `task_budget` | 2 requests of 2 agents with caps 2 and 3, 1 task, costs 0..2, 3 changes, an admin, a ticker, failing store, restarts | types, holds, cap, no total forgotten; a changed total reaches the store | holds |
| `agent_delete` | client, operator, viewer, ticker, delete, failing store, restarts | nothing a deleted agent was comes back | holds |
| `agent_rename` | client, viewer, ticker, rename, delete, working store | the latest state of every tracked agent lands | holds |
| `agent_kill_lost` | operator, ticker | a row agrees about the kill | **violated** |
| `agent_looked_up` | 2 clients, operator, ticker, delete, working store | a deleted agent leaves nothing | **violated** |
| `agent_budget` | 1 agent, discovered or listed in an edited file; 2 requests under way, 2 ticks, costs 0..1 | kills and their end, thresholds, overspending, bursts | holds |
| `agent_flush` | 1 agent, 1 request under way, 2 flushes, 1 tick, failing writes | a state without its flag is in its row or alone on its way there | holds |
| `alert_dispatcher` | 3 alerts, two of one threshold, 2 destinations, 2 workers, queue of 1, 1 retry | one report per threshold, drain, close, the mailbox, a queued delivery ends | holds under fairness |
| `gateway` | 2 requests of 5 shapes, or 1 beside 2 calls of the stop; 2 chains, queue of 1, 2 starts | ledgers, charges, routing, the stop, an orderly exit | holds under fairness |
| | or one body: streams of up to 3 lines of 6 kinds, 3 whole answers, every chunking and every end | the charge is that of what arrived | holds |
| `sessions` | 4 calls of 2 people, 1 tick | expiry, logout, account | holds |
| `dashboard` | 2 refreshers, 1 poll, a feed and an Ollama | one refresh at a time, true cards, cards that catch up | holds under fairness |
| | or 2 publishers of 2 events, 2 clients, channels of 2 | no send on a closed channel, nothing missed, publishing ends | holds under fairness |
| `upgrade` | 2 attempts, 2 releases with 2 uploads, 1 failure or crash | staging, swaps, reports, pacing, requests end | holds under fairness |

`gateway` and `dashboard` each take two specifications that share no variable, and run
one while the other stays at its start (`MCNext` of `MCGateway` and `MCDashboard`); the
states are the sum of both, and a fairness condition binds while its part runs.
`agent_delete`, `agent_rename`, `agent_kill_lost` and `agent_looked_up` are four
configurations of `AgentLifecycle` itself.

Bounds, and why they are enough:

* *tasks*: two requests suffice for every race of two writers; two caps make "the
  largest cap" differ from "this agent's cap". `MaxVersion` bounds how often
  totals change: an old copy, a newer one and a change on top. More tasks and
  requests are the business of the proofs, which know no bound.
* *lifecycle*: `MaxVersion` in the same role: a state, its delete, a lookup and a
  change on top.
* *policy*: one agent, because agents share only the global budget, whose limit one
  agent reaches alone. `MaxUnder` is the number of requests the gate may let
  through at once, and the bound on overspending is stated with it: it grows with
  the concurrency, as in the code. Three instants hold a period of the policy with
  kills (two ticks), of the unset one (one tick), a window and a late call.
  `MaxCalls` and `MaxSpend` cut off what is already refused or over every
  threshold. In `agent_budget` a copy is written before anything else happens
  (`PromptSpec`): its properties read rows only through a restart, where a late copy
  is a row of an earlier flush and a lost one no flush at all. The proofs are about
  `Spec`, where copies wait. `agent_flush` has what that leaves out, two flushes
  that cross and fail, with one request, one tick and calls that are not late; the
  flushes are symmetric.
* *alerts*: six deliveries meet a queue of one, so it is full while callers stand
  between the announcement and the channel; two workers can hold one alert's two
  deliveries. `InOrder` drops the mirror image of the behaviours in which the
  second of two equal reports comes first.
* *gateway*: what a request shares with others is the cost queue, which a second
  one fills, and the stages of the shutdown. `Apart` keeps the second request and
  the calls of the stop out of one behaviour: `StopHolds` is about one request at
  a time, and the ledgers do not read the switch. Two starts give one crash or
  exit and what a restart reads.
* *usage*: three lines give a count, a later one and text between them.
* *sessions*: two logins, a check and a logout of the first session, or two setups
  and two logins. One tick reaches the end of a session that lasts one.
* *cards*: two refreshers are one that ends late and one that begins; a time to
  live of two and a deadline of one let rows become stale under a refresh.
* *events*: a channel of two that a third event does not fit; two publishers whose
  events mix in it.
* *upgrade*: two attempts overlap once and let the second find what the first
  left; one failure at any step, then a run that works. The first upload of one
  release holds the wrong binary. A candidate of the first release is installed, so
  that prereleases are compared. `MCUpgrade` also assumes, and TLC evaluates, that
  `Compare` is a total order of 26 versions with prereleases of up to two
  identifiers.

The systems may stop: each request, alert, call and attempt runs once, versions
run out, clocks end. Deadlock is therefore not checked, except in the lifecycle
runs, where a ticker or a restart can always go on.

Fairness, and why the code justifies it:

* *tasks*: goroutines run (`WF` on taking copies and ending a write), the ticker
  keeps firing, and a store that is asked again and again succeeds at last (`SF`
  on the successful write). Without the last one a store may fail for ever, and
  the code promises nothing then.
* *alerts*: workers run, an attempt ends within its HTTP timeout and a delay passes
  (`WF`); `select` chooses at random among what is ready, so a worker that meets
  the cancelled context again and again takes it at last (`SF` on `Stop`); `Close`
  goes on once called. Nobody is forced to dispatch or to shut down.
* *gateway*: the main goroutine walks through its deferred calls, each of which
  returns or times out, and the writer's worker writes what it receives. Nothing is
  assumed of clients, upstreams and signals.
* *cards*: goroutines run and time passes. That health requests keep coming holds
  while the Settings page is open, which asks every 15 seconds; without it cards
  stay as they are, by design.
* *events*: publishers and handlers run. A handler in a write to its client is
  under no fairness.
* *upgrade*: the path unit (`PathExists`) starts the applier while the request
  exists, and processes run. `Begin`, checks in the background and the outside are
  free.

### The violated runs

`agent_kill_lost`: two flushes hold `flushMu` for reading together. The operator's
flush writes the kill, then the ticker writes the copy it took before. The row says
*active*, no flag is up, and a restart serves the agent again.

`agent_looked_up`: a request has charged its agent, the operator deletes it, and the
lookup for the request's `cost_update` event creates it again, dirty, so that the next
flush gives it a row. A listing that read the row before does the same
(`server.go:894`). `server.go:1012-1013` leaves that to *the next proxied request*;
this one was earlier. `agent_delete` shows what does hold: the agent that comes back
is a new one, with no spend, kill or task of the old.

### Other promises the models refute

These are stated in the modules and not kept as runs. Each is reproduced within
seconds by naming the property (`SessionLasts` as a `PROPERTY`, the others as an
`INVARIANT`) in the run's configuration, with the change in the last column.

| property | says | source | to reproduce |
|---|---|---|---|
| `TaskBudget!RestartKeepsSettledSpend` | a restart reads back the settled spend (`tasks.go:339-341`); two copies are written out of order | `tasks.go:349` | `task_budget` |
| `AgentLifecycle!ChangesLand` | the latest state of an agent is stored or still due; `Flush` returns at the first error with all flags down, which `flushTasks` avoids (`tasks.go:370-371`) | `manager.go:1073` | `agent_rename` with `StoreFails = TRUE` |
| `AgentLifecycle!RowsAreTracked` | every row is of an agent in memory; `RenameAgent` does not take `flushMu` | `manager.go:1119` | `agent_rename` |
| `Gateway!SwitchIsStored` | the setting a restart reads is the switch in memory; two calls cross | `server.go:604` | `gateway` |
| `Sessions!OneSetup` | the account is created once (`README.md:124`); two setups pass the check together | `auth.go:82` | `sessions` |
| `Sessions!SessionLasts` | a session lasts 24 hours (`CHANGELOG.md:119`); a check deletes an expired session that a login has replaced | `auth.go:332` | `sessions` |
| `Upgrade!NoStaleResult` | the dashboard cannot show an earlier attempt's result as this one's (`manager.go:205-208`); the applier of the earlier request still runs | `manager.go:208` | `upgrade` with `MaxBuilds = 1`, `MaxFaults = 0` |

### What else the models show

No line of the repository denies these; the properties are stated so that they
allow them.

* `enqueue` reads `closed` and then forgets the mutex (`dispatcher.go:237`), so it
  can put an alert into the channel after `Close` has returned. Only a request that
  outlives the shutdown deadline gets there.
* A threshold is marked as reported before its alert is queued
  (`dispatcher.go:518`): one that is dropped or fails is not repeated.
* A runaway kill (`manager.go:494`) waits for the ticker, unlike a manual kill,
  which is flushed before the answer. A crash within 30 seconds forgets it.
* The rollback of a refused rename tracks the old name, even if it was deleted
  meanwhile or never existed. `agent_delete` therefore runs without renames.
* The rollback puts back the state it saved at the start (`manager.go:1126-1131`) and
  so discards spend and kills that were recorded under the new name in between.
  `ChangesLand` speaks of the latest state of an agent and does not count them.
* A policy without the optional fields changes its meaning at a restart
  (`sqlite.go:596`, see `Stored`). An update of the limit or of the thresholds keeps
  the marks of the old ones (`manager.go:1437`): a threshold that the spend had passed
  already does not fire for the new limit before the next period. `ThresholdsFire`
  speaks of periods in which the policy was not changed and excludes both.
* A task total that is written out of order still counts as written: `TotalsLand`
  asks for the newest version *ever* written, and the row `RestartKeepsSettledSpend`
  asks for is the counterexample above.
* What overlaps is excluded where it fails: `StopHolds` leaves out stops that a resume
  crossed (`SwitchIsStored` fails), `AccountIsOnePersons` setups that cross
  (`OneSetup` fails).
* The global budget is not persisted (`manager.go:335`).
* A request that settles after its agent was deleted points its task at the deleted
  name again (`tasks.go:202`).
* A paid answer the compatibility handler cannot translate is charged to nobody
  (`provider_routing.go:249`); `AnswersAreCharged` speaks of what the client got.
* A client that asked for a stream and gets one JSON document is charged the
  minimum (`proxy.go:409`), and a stream that is cut after `message_start` the first
  output count it named.
* A crash loses the cost records in the channel, and the records of requests that
  outlive the shutdown panic; both ledgers in memory are written or lost with them.
* Numeric identifiers of a prerelease with ten or more digits are compared as words
  (`version.go:73`).

## 4. Proofs

`TaskBudgetProofs` proves, for every set of tasks, requests, agents, caps and
amounts:

* `TypeCorrect`: `Spec => []TypeOK`.
* `HoldsAreExact`: `Spec => []HoldsMatchInFlight`. The invariant is inductive
  with `TypeOK`. The work is in the cardinalities: `BlockSize` (a hold of n
  units has n elements), `HoldIsPart`, `DropHoldIsExact` and `ReserveIsExact`
  say what taking one hold out or putting one in does to the union.
* `CapIsKept`: `Spec => []CapHolds`. The strengthening `CapInv` adds the same
  bound for every copy under way and every row, since a restart makes a row the
  spend in memory.
* `TotalsAreNotForgotten`: `Spec => []TotalsLand`. `LandInv` adds that copies
  and rows never run ahead of memory and that a process takes a new copy only
  after it has written the last one.

They rest on `ConstantsAssumption` and `NoneAssumption` of `TaskBudget`.

`GatewayProofs` proves, for every set of requests, inputs, chains and calls, any
size of the cost queue and any number of starts:

* `RequestsAreAccounted`: `Spec => []LedgersAgree`, and `WhatIsAnsweredIsCharged`:
  `Spec => []AnswersAreCharged`. The properties speak of the last steps of a
  request only. `ReqInv` says for every step what is charged, held, handed over and
  finalized by then; at `closing` it has three cases, for a body that nobody
  finalized, one that had nothing to charge and one that was charged at its end.
  `ActsKeep` takes it through each action of the request, `OthersKeep` shows that
  requests do not disturb each other.
* `ExitKeepsAll`: `Spec => []OrderlyExitKeepsAll`. `ExitInv` says how far each
  stage of the shutdown has got with the requests that ended in time. It needs
  `QueueInv`, since "the queue is empty" has to mean that no record waits, and
  `ReqInv`, since a charged request that ended has a cost record.
* `StopIsKept`: `Spec => StopHolds`. `SwitchInv` adds that while a stop holds, or one
  that no resume crossed is on its way to the setting, the switch is on and no
  resume is in progress, and that a start meets no call.

* `ProviderFits`: `Spec => []SentToItsProvider`, which includes the type invariant of
  the gateway. `RouteInv` says what the route of a request on its way is to the model
  it carries; `DowngradedIs` says that a step down a chain of one provider stays with
  that provider, and needs that `SelectInSeq` finds an entry of the chain.
* `KeysFindTheirAgent`: `Spec => []ChargedToItsAgent`. The loop over the configured
  prefixes, a fold, returns an entry of the longest prefix that fits.

and of `StreamUsage`, for every set of documents, bodies, models and prices
(`StreamUsageAssumption`):

* `ChargedAsReceived`: `BodySpec => []BilledAsReceived`. `Streams(a, b, n)` says what
  an accumulator is after the first n bytes of a body, whatever the chunks were: it
  has counted the lines that ended (`Counted`) and holds what came after the last end
  of a line (`Begun`). `ByteKeeps` takes it over one byte and `WriteKeeps` over a
  chunk, a fold; `FlushKeeps` says that the line left at the end counts exactly if it
  is a whole document. No cost is negative since faulty counts are cut to zero before
  they are multiplied (`CostIsNat`). The text without usage is a set of pairs of a
  line and a byte, and its length a cardinality (`TextGrows`).

`SessionsProofs` proves, for every set of people and calls and every TTL:

* `SessionsExpire`: `Spec => []SessionIsBounded`. `ExpiryInv` adds that every
  expiry about to be written was computed before its own token was stored.
* `LogoutIsFinal`: `Spec => []LoggedOutStaysOut`. `CookieInv` adds that nobody can
  put a cleared token back: a login writes its own, once.
* `AccountHasOneOwner`: `Spec => []AccountIsOnePersons`. `SetupInv` adds that a
  setup no other crossed finds what it wrote.

It rests on `SessionsAssumption`.

`AlertDispatcherProofs` proves, for every set of alerts, callers, destinations and
workers and any size of the queue and number of retries:

* `ThresholdsAreSentOnce`: `Spec => []ThresholdSentOnce`. `DedupInv` adds that an
  alert that is sent has its key in the map, and that of the alerts of a key one at
  most has left `Start`.
* `DrainsAreComplete`: `Spec => DrainIsComplete`. `CountInv` says that `pending` is
  the number of announced deliveries (callers between `Announce` and `Put`, jobs in
  the channel, jobs with a worker). It needs `JobsInv`: these places hold disjoint
  deliveries, and the channel holds none twice.
* `DeliveriesHaveOneFate`: `Spec => OneFate`, the refinement of `AlertMailbox`. Each
  step of the dispatcher is a step of the mailbox of one delivery, or a stutter.

`AgentLifecycleProofs` proves, for every set of processes and agents:

* `DeletesAreFinal`: `Spec => []DeletedStateStaysGone`, if nobody renames. Requests
  with their late lookups, listings, kills, flushes, failures and restarts are in. The
  hypothesis is needed: a rollback restores the state it saved, deleted or not
  (section 3). `HeldInv` and `HeldCopies` say who may hold a copy of what: agents at
  `agents`, the task at `task` or `detachTask`, and no reader of `flushMu` beside a
  deleter.
* `LatestStatesLand`: `Spec => []ChangesLand`, if the store works; a failing store does
  lose flags (section 3). Renames, rollbacks and deletes are in; what a rollback
  discards is nobody's latest state and is not counted. `LandInv` adds that neither
  copies nor rows are ahead of memory.

`AgentBudgetProofs` proves, for every set of agents and requests, and any policies,
costs, windows and numbers of ticks:

* `CleanIsAlwaysSafe`: `Spec => []CleanIsSafe`. A state without its flag is in its row
  or is all that is on its way there, whichever call changed it last, for any number of
  flushes. `astray` excepts what a flush itself loses, and the next flush of a change
  that meets no other copy ends the exception; `agent_kill_lost` shows that it is
  needed. `Stands(row, copies, a, q)` says the same of one agent and is what each step
  keeps; `RowsInv` covers copies as well as rows, since each may be what a restart
  reads.
* `ExceededKillsEnd`, `ThresholdsAlwaysFire`: the invariants `ExceededKillEnds` and
  `ThresholdsFire`, the latter of periods in which the policy was not changed. The
  inductive invariant `Inv` has, for each agent, what the row and the memory may look
  like (`Fits`), why it is killed (`CauseOK`), and which thresholds its spend has
  passed.
* `OverspendIsBounded`: `Spec => []OverspendBounded`. The spend of the process is
  at most the spend of all agents; that needs sums over sets, see below.
* `NoBurstPasses`: `Spec => []NoBurst`. The invariant relates the times an agent's
  state has kept to the requests let through per tick, also when a caller's time is
  older than the last one.
* `KillsAlwaysStand`: `Spec => KillsStand`, an action property.

`DashboardProofs` proves, for every set of refreshers, polls and feeds
(`StatusAssumption`):

* `OneRefresh`: `Spec => []ProbesNeverOverlap`: whoever is in a refresh holds the
  slot.
* `CardsShowAnswers`: `Spec => CardsAreTrue`. `SeenInv` says that what a refresher
  has found of a card is the status of a reply its provider gave since it began.

and of `EventStream`, for every set of publishers and clients
(`EventStreamAssumption`):

* `ClosedIsNotServed`: no publisher has to serve a client whose channel is closed,
  because it has clients to serve only while it holds the lock, and they are in the
  map then.
* `ServedInOrder`: `NothingMissed`. `ServedInv` says that the channel of a client
  that missed nothing holds, of each publisher, the numbers from the one after the
  last it took to the latest it was served; appending an event and taking the oldest
  keep that (`AppendBuffers`, `TakeBuffers`).

`UpgradeProofs` proves, for every set of releases, any number of attempts, uploads,
faults and crashes (`UpgradeAssumption`):

* `OnlyVerifiedIsStaged`: `Spec => []StagedIsVerified`. What an attempt has
  downloaded is under the partial name of its target until it is staged, since one
  attempt at most is under way (`PrepInv`), and an upload, once published, stays one.
* `SwapsKeepSafe`: `Spec => SwapsAreSafe`. `ApplyInv` says what the applier knows at
  each of its steps of the binary, the checksums and the archive.
* `ResultsAreTrue`: `Spec => []ResultIsTrue`. A version that was reached stays
  reached: swaps only go up, which takes that `Compare` is transitive on stable
  versions (`CompareStable`, `AtLeastIsTransitive`), and a restart runs what is
  installed.
* `ChecksKeepPace`: `Spec => ChecksArePaced`. `CheckInv` says that a check that ended
  without a release recorded its failure.

Each module rests on the named assumptions of the modules it is about, and TLC
evaluates these in their runs.

**Sums and folds.** The community modules define folds over finite sets by
recursive functions chosen with `CHOOSE`, and the library's induction theorems take
an operator as a parameter, which the provers cannot instantiate. A property that is
given as a *set* of natural numbers needs no operator: the least number outside the
set (`WFMin` and `NatLessThanWellFounded`) leads to a contradiction. `GatewayProofs`
(`NatSet`, `FoldExists`) proves with it that a fold over the first n elements of a
sequence exists for any n, and from that what `BestMatch` and `Write` compute;
`AgentBudgetProofs` proves what sums do when one summand changes.

**What the proofs changed.** Invariants that were not inductive, or definitions that
could not be reasoned about, were flaws of the models:

* `AgentBudget`: `Seeded` and `Loaded` now keep `moved`, without which a restart
  forgot that a policy had changed in the period, and what is compared with a row is
  the whole state;
* `EventStream`: `NothingMissed` spoke of a filtered sequence and now speaks of
  positions in the channel;
* `Upgrade`: `build` began as a function on all releases, and its type held only
  because no release of the instance was a prerelease;
* `Versions`, `Gateway`: `CASE`s with guards that overlap leave open which arm is
  taken, while the code takes the first; they are `IF`s now.

**What is only model-checked.** Liveness (`ChangedTotalsReachStore`, `QueuedEnds`,
`RequestsEnd`, `ShutdownEnds`, `CloseTerminates`, `CardsCatchUp`, `PublishEnds`) and
`ENABLED` are out of the prover's reach. Of `AgentLifecycle`, `KillsPersist` and
`DeletedLeavesNothing` are false.

## 5. Plan

What is left to prove, in this order:

1. `Versions`: precedence is a total order of all versions, with prereleases. TLC
   evaluates it for the samples of `MCUpgrade`.
2. `AgentLifecycle`: what holds of a delete beside renames.

## 6. Not modelled

* **Store schema, queries and retention** (`internal/storage`): the statements on
  agents, tasks, settings and costs are modelled where they are used. Cost queries
  are sums over rows in SQL; retention deletes rows older than a time stamp;
  migrations run statement by statement before anything is served, and each
  statement may be run again, so an interrupted migration is repeated. A cost record
  keeps the agent name the request had, also after a rename or delete
  (`sqlite.go:732`).
* **Configuration** (`internal/config`): parsing, defaults and validation of a file,
  and the editor that rewrites it. Its values are the constants of the modules.
* **Command line, dashboard, scripts**: entry points that call the above, static
  assets and shell.
* **HTTP, TLS, JSON, headers, redaction, file modes, symbolic links, archive
  unpacking**: conversions of one value that no property here is about.
* **Floating point**: money is counted in units.
