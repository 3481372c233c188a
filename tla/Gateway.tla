-------------------------------- MODULE Gateway --------------------------------
(***************************************************************************)
(* The life of a proxied request, from its routing to the accounting of    *)
(* its response (src/internal/proxy), composed with what runs beside it:   *)
(* the emergency stop and its setting, the queue of cost records, and the  *)
(* shutdown and restart of the process (src/cmd/oberwatch/main.go).        *)
(*                                                                         *)
(* A request is a sequence of steps of one handler goroutine, and every    *)
(* read or write of shared state is a step of its own.  What the budget    *)
(* check and the task cap answer is any answer they can give: AgentBudget  *)
(* and TaskBudget say which.  The gate is enabled, and only the paths      *)
(* isKnownProxyPath accepts are modelled; amounts, headers and payloads    *)
(* are not, so a ledger says which requests it has charged.                *)
(***************************************************************************)
EXTENDS Naturals, Sequences, SequencesExt, FiniteSets

CONSTANTS
  None,        \* no value
  Requests,    \* proxied requests
  Inputs,      \* what a client may send, see Input
  Chains,      \* the downgrade chains an agent's policy may have
  Configured,  \* providers with a base URL
  KeyMap,      \* the sequence of gate.api_key_map entries
  Calls,       \* kill-all and resume calls of the management API
  QueueSize,   \* trace.memory_buffer_size
  MaxStarts    \* bound on the starts of the process

Providers == {"openai", "anthropic", "google", "ollama", "custom"}
Families  == {"claude", "gemini", "gpt", "o1", "llama", "other"}
Model     == [family : Families, tier : Nat]
Paths     == {"messages", "ollama", "models", "chat", "completions"}
Methods   == {"header", "api_key", "source_ip"}
Unknown   == "unknown"

Input == [path : Paths, model : Model \cup {None}, override : Providers \cup {None},
          stream : BOOLEAN, task : BOOLEAN, header : STRING \cup {None}, key : Seq(Nat)]

ASSUME GatewayAssumption ==
  /\ Inputs \subseteq Input
  /\ {"openai", "anthropic"} \subseteq Configured
  /\ Configured \subseteq Providers /\ None \notin Providers \cup Model
  /\ Chains \subseteq Seq(Model)
  /\ KeyMap \in Seq([prefix : Seq(Nat), agent : STRING])
  /\ QueueSize \in Nat \ {0} /\ MaxStarts \in Nat \ {0}

VARIABLES
  serving,   \* where the process stands, see Stage
  starts,    \* history: how often it has started
  at,        \* the next step of each request
  input,     \* what its client sent
  route,     \* the resolvedRoute of its context
  model,     \* the model the gate lets through
  hold,      \* its task reservation
  once,      \* has budgetTrackingBody.once run?
  outcome,   \* what its client was told
  recorded,  \* how often RecordSpend charged it
  fate,      \* where its cost record is
  queue,     \* the channel of the cost writer
  stored,    \* requests whose spend the last flush at a shutdown wrote
  stop,      \* BudgetManager.emergency
  setting,   \* the emergency_stop setting
  call,      \* where each kill-all or resume call stands
  armed,     \* history: a stop is acknowledged and no resume has begun
  inTime     \* history: requests that had ended when Shutdown stopped waiting

request == <<at, input, route, model, hold, once, outcome, recorded>>
records == <<fate, queue>>
switch  == <<stop, setting, call, armed>>
process == <<serving, starts, stored, inTime>>
vars    == <<request, records, switch, process>>

NoRoute == [provider |-> None, compat |-> FALSE]
NoCall  == [on |-> FALSE, step |-> "idle", crossed |-> FALSE]

Stage == {"up", "draining", "closeManager", "closeAlerts", "closeWriter", "closeStore", "exited", "crashed"}
Step  == {"new", "routed", "passed", "priced", "upstream", "answering",
          "record", "settle", "publish", "enqueue", "closing", "leaving", "ended", "past"}
Running == serving \notin {"exited", "crashed"}

Init ==
  /\ serving = "up"
  /\ starts = 1
  /\ at = [r \in Requests |-> "new"]
  /\ input = [r \in Requests |-> None]
  /\ route = [r \in Requests |-> NoRoute]
  /\ model = [r \in Requests |-> None]
  /\ hold = [r \in Requests |-> "none"]
  /\ once = [r \in Requests |-> FALSE]
  /\ outcome = [r \in Requests |-> None]
  /\ recorded = [r \in Requests |-> 0]
  /\ fate = [r \in Requests |-> "none"]
  /\ queue = <<>>
  /\ stored = {}
  /\ stop = FALSE
  /\ setting = FALSE
  /\ call = [c \in Calls |-> NoCall]
  /\ armed = FALSE
  /\ inTime = {}

-----------------------------------------------------------------------------
(* Routing and identification: functions of the request.                    *)

(* The provider a model name belongs to, by its prefix.                     *)
Detect(m) ==
  IF m = None THEN None
  ELSE CASE m.family = "claude" -> "anthropic"
         [] m.family = "gemini" -> "google"
         [] m.family \in {"gpt", "o1"} -> "openai"
         [] m.family = "llama" -> "ollama"
         [] OTHER -> None

Resolve(q) ==
  LET chosen == IF q.override = None THEN Detect(q.model) ELSE q.override
  IN CASE q.path = "messages" -> [provider |-> "anthropic", compat |-> FALSE]
       [] q.path = "ollama" -> [provider |-> "ollama", compat |-> FALSE]
       [] q.path = "models" -> [provider |-> q.override, compat |-> FALSE]
       [] OTHER -> IF chosen = "anthropic" /\ q.path # "chat" THEN NoRoute
                   ELSE [provider |-> chosen, compat |-> chosen = "anthropic"]

(* Mutant: the first entry whose prefix matches.                            *)
FirstMatch(key) ==
  LET i == SelectInSeq(KeyMap, LAMBDA e : e.prefix # <<>> /\ IsPrefix(e.prefix, key))
  IN IF i = 0 THEN Unknown ELSE KeyMap[i].agent

(* The loop over the configured prefixes keeps the longest one so far.      *)
BestMatch(key) ==
  FoldLeft(LAMBDA best, e :
             IF Len(e.prefix) > Len(best.prefix) /\ IsPrefix(e.prefix, key) THEN e ELSE best,
           [prefix |-> <<>>, agent |-> Unknown], KeyMap).agent

IdentifyAgent(method, q) ==
  IF q.header # None THEN q.header
  ELSE CASE method = "header" -> Unknown
         [] method = "source_ip" -> FirstMatch(q.key)
         [] OTHER -> BestMatch(q.key)

ChainOf(family, n) == [i \in 1 .. n |-> [family |-> family, tier |-> i]]

BuiltinChain(m) ==
  CASE m.family = "gpt" -> ChainOf("gpt", 3)
    [] m.family = "claude" -> ChainOf("claude", 4)
    [] m.family = "gemini" -> ChainOf("gemini", 2)
    [] OTHER -> <<>>

(* Mutant: the chain of another provider is the fallback.                   *)
DowngradedAcross(chain, m) ==
  LET c == IF chain = <<>> THEN ChainOf("claude", 4) ELSE chain
      i == SelectInSeq(c, LAMBDA x : x.tier = m.tier)
  IN IF i = 0 \/ i = Len(c) THEN m ELSE c[i + 1]

NextInChain(chain, m) ==
  LET i == SelectInSeq(chain, LAMBDA x : x = m)
  IN IF i = 0 \/ i = Len(chain) THEN m ELSE chain[i + 1]

(* The model after m in the agent's chain, or in the built-in one; m itself *)
(* when there is none.                                                      *)
Downgraded(chain, m) == NextInChain(IF chain = <<>> THEN BuiltinChain(m) ELSE chain, m)

-----------------------------------------------------------------------------
(* The steps of a request.                                                  *)

Goto(r, step) == at' = [at EXCEPT ![r] = step]

(* The handler answers with an error of its own and returns.                *)
Refuse(r) == Goto(r, "leaving") /\ outcome' = [outcome EXCEPT ![r] = "refused"]

(* providerRoutingMiddleware.  Shutdown has closed the listener for good.   *)
Arrive(r, q) ==
  /\ serving = "up"
  /\ at[r] = "new"
  /\ input' = [input EXCEPT ![r] = q]
  /\ IF Resolve(q).provider \in Configured
     THEN /\ route' = [route EXCEPT ![r] = Resolve(q)]
          /\ model' = [model EXCEPT ![r] = q.model]
          /\ Goto(r, "routed") /\ UNCHANGED outcome
     ELSE Refuse(r) /\ UNCHANGED <<route, model>>
  /\ UNCHANGED <<hold, once, recorded, records, switch, process>>

(* gateMiddleware reads the emergency stop before anything else.            *)
CheckStop(r) ==
  /\ at[r] = "routed"
  /\ IF stop THEN Refuse(r) ELSE Goto(r, "passed") /\ UNCHANGED outcome
  /\ UNCHANGED <<input, route, model, hold, once, recorded, records, switch, process>>

(* The budget decision is to allow, to alert, to reject or to kill.         *)
CheckBudget(r) ==
  /\ at[r] = "passed"
  /\ \/ Goto(r, "priced") /\ UNCHANGED outcome
     \/ Refuse(r)
  /\ UNCHANGED <<input, route, model, hold, once, recorded, records, switch, process>>

(* The decision is to downgrade.  Without a cheaper model the request goes  *)
(* on as it is, unless the agent is over its limit (over); a body without a *)
(* model may also be one that cannot be rewritten.                          *)
Downgrade(r, chain, over) ==
  /\ at[r] = "passed"
  /\ LET next == IF model[r] = None THEN None ELSE Downgraded(chain, model[r])
     IN \/ /\ next # model[r] \/ ~over
           /\ model' = [model EXCEPT ![r] = next]
           /\ Goto(r, "priced") /\ UNCHANGED outcome
        \/ /\ (next = model[r] /\ over) \/ model[r] = None
           /\ Refuse(r) /\ UNCHANGED model
  /\ UNCHANGED <<input, route, hold, once, recorded, records, switch, process>>

(* A body without messages, say, cannot be translated for the provider.     *)
Untranslatable(r) == route[r].compat /\ Refuse(r)

(* The request goes upstream, unless the compatibility handler would have   *)
(* to stream.                                                               *)
Forward(r) ==
  \/ ~(route[r].compat /\ input[r].stream) /\ Goto(r, "upstream") /\ UNCHANGED outcome
  \/ Untranslatable(r)

(* ReserveTask, for a request that names a task, and then the handler.      *)
Reserve(r) ==
  /\ at[r] = "priced"
  /\ \/ /\ hold' = [hold EXCEPT ![r] = IF input[r].task THEN "held" ELSE @]
        /\ Forward(r)
     \/ input[r].task /\ Refuse(r) /\ UNCHANGED hold
  /\ UNCHANGED <<input, route, model, once, recorded, records, switch, process>>

(* The upstream cannot be reached, or its response breaks off before the    *)
(* compatibility handler has read it, or cannot be translated.              *)
UpstreamFails(r) ==
  /\ at[r] = "upstream"
  /\ Refuse(r)
  /\ UNCHANGED <<input, route, model, hold, once, recorded, records, switch, process>>

(* The response begins.  The compatibility handler has read it by then: it  *)
(* accounts a 2xx and passes any other status through.                      *)
Respond(r, status) ==
  /\ at[r] = "upstream"
  /\ outcome' = [outcome EXCEPT ![r] = status]
  /\ Goto(r, IF ~route[r].compat THEN "answering"
             ELSE IF status = "success" THEN "record" ELSE "leaving")
  /\ UNCHANGED <<input, route, model, hold, once, recorded, records, switch, process>>

-----------------------------------------------------------------------------
(* budgetTrackingBody.                                                      *)

Billable(r) == outcome[r] \in {"success", "redirect"} /\ model[r] # None

ReleaseHold(r) == hold' = [hold EXCEPT ![r] = IF @ = "held" THEN "released" ELSE @]

(* Mutant: finalize runs at the end of the body and again at its Close.     *)
FinalizeAgain(r) ==
  /\ once' = [once EXCEPT ![r] = at[r] = "closing"]
  /\ IF Billable(r) THEN Goto(r, "record") /\ UNCHANGED hold
     ELSE Goto(r, "closing") /\ ReleaseHold(r)

(* finalize: an unsuccessful or unmetered response only gives the hold back. *)
Finalize(r) ==
  /\ once' = [once EXCEPT ![r] = TRUE]
  /\ IF ~once[r] /\ Billable(r)
     THEN Goto(r, "record") /\ UNCHANGED hold
     ELSE Goto(r, "closing") /\ ReleaseHold(r)

(* The copy to the client reads the end of the body.                        *)
ReadEOF(r) ==
  /\ at[r] = "answering"
  /\ Finalize(r)
  /\ UNCHANGED <<input, route, model, outcome, recorded, records, switch, process>>

(* The client leaves or the upstream breaks off: the copy ends early.       *)
BreakOff(r) ==
  /\ at[r] = "answering"
  /\ Goto(r, "closing")
  /\ UNCHANGED <<input, route, model, hold, once, outcome, recorded, records, switch, process>>

(* Mutant: only the end of the body is accounted.                           *)
CloseUnread(r) ==
  /\ at[r] = "closing"
  /\ Goto(r, "leaving")
  /\ UNCHANGED <<hold, once, input, route, model, outcome, recorded, records, switch, process>>

(* The reverse proxy closes the body, which finalizes what EOF did not.     *)
CloseBody(r) ==
  /\ at[r] = "closing"
  /\ IF once[r] THEN Goto(r, "leaving") /\ UNCHANGED <<hold, once>> ELSE Finalize(r)
  /\ UNCHANGED <<input, route, model, outcome, recorded, records, switch, process>>

Record(r) ==
  /\ at[r] = "record"
  /\ recorded' = [recorded EXCEPT ![r] = @ + 1]
  /\ Goto(r, "settle")
  /\ UNCHANGED <<input, route, model, hold, once, outcome, records, switch, process>>

(* TaskReservation.Settle; without a task the reservation is nil.           *)
Settle(r) ==
  /\ at[r] = "settle"
  /\ hold' = [hold EXCEPT ![r] = IF @ = "held" THEN "settled" ELSE @]
  /\ Goto(r, "publish")
  /\ UNCHANGED <<input, route, model, once, outcome, recorded, records, switch, process>>

(* WrapCostSink: PublishCostUpdate looks the agent up before the record is  *)
(* handed over.  The lookup may begin the agent's period (View of           *)
(* AgentBudget) or create the agent when it was deleted in between          *)
(* (GetBudget of AgentLifecycle); no ledger of a request changes.           *)
PublishCost(r) ==
  /\ at[r] = "publish"
  /\ Goto(r, "enqueue")
  /\ UNCHANGED <<input, route, model, hold, once, outcome, recorded, records, switch, process>>

WriterOpen == serving \notin {"closeWriter", "closeStore"}

(* BufferedCostWriter.Enqueue: a full queue drops the record, and a send on *)
(* the closed channel panics, which ends the handler.                       *)
Enqueue(r) ==
  /\ at[r] = "enqueue"
  /\ IF ~WriterOpen
     THEN fate' = [fate EXCEPT ![r] = "panicked"] /\ Goto(r, "leaving") /\ UNCHANGED queue
     ELSE /\ IF Len(queue) < QueueSize
             THEN fate' = [fate EXCEPT ![r] = "queued"] /\ queue' = Append(queue, r)
             ELSE fate' = [fate EXCEPT ![r] = "dropped"] /\ UNCHANGED queue
          /\ Goto(r, IF route[r].compat THEN "leaving" ELSE "closing")
  /\ UNCHANGED <<input, route, model, hold, once, outcome, recorded, switch, process>>

(* What the context of a request holds is gone when its handler returns.    *)
Forget(rs) ==
  /\ input' = [r \in Requests |-> IF r \in rs THEN None ELSE input[r]]
  /\ route' = [r \in Requests |-> IF r \in rs THEN NoRoute ELSE route[r]]
  /\ model' = [r \in Requests |-> IF r \in rs THEN None ELSE model[r]]
  /\ once' = [r \in Requests |-> IF r \in rs THEN FALSE ELSE once[r]]
  /\ outcome' = [r \in Requests |-> IF r \in rs THEN None ELSE outcome[r]]

(* Mutant: the handler returns without the deferred Release.                *)
LeaveHolding(r) ==
  /\ at[r] = "leaving"
  /\ Goto(r, "ended") /\ Forget({r})
  /\ UNCHANGED <<hold, recorded, records, switch, process>>

(* The handler returns and its deferred Release runs.                       *)
Leave(r) ==
  /\ at[r] = "leaving"
  /\ ReleaseHold(r)
  /\ Goto(r, "ended") /\ Forget({r})
  /\ UNCHANGED <<recorded, records, switch, process>>

-----------------------------------------------------------------------------
(* The cost writer.                                                         *)

(* The worker receives the next record.                                     *)
TakeRecord ==
  /\ Running /\ queue # <<>>
  /\ \A r \in Requests : fate[r] # "writing"
  /\ fate' = [fate EXCEPT ![Head(queue)] = "writing"]
  /\ queue' = Tail(queue)
  /\ UNCHANGED <<request, switch, process>>

(* SaveCostRecord succeeds, or fails and is only logged.                    *)
SaveRecord(r, result) ==
  /\ Running /\ fate[r] = "writing"
  /\ fate' = [fate EXCEPT ![r] = result]
  /\ UNCHANGED <<queue, request, switch, process>>

-----------------------------------------------------------------------------
(* handleKillAll and handleResume.                                          *)

Active(c) == call[c].step = "set"

(* The switch in memory changes first.                                      *)
SetStop(c, on) ==
  /\ serving \in {"up", "draining"}
  /\ call[c].step = "idle"
  /\ stop' = on
  /\ armed' = (armed /\ on)
  /\ call' = [d \in Calls |->
       IF d = c THEN [on |-> on, step |-> "set", crossed |-> \E e \in Calls : Active(e) /\ ~call[e].on]
       ELSE [call[d] EXCEPT !.crossed = @ \/ (Active(d) /\ ~on)]]
  /\ UNCHANGED <<setting, request, records, process>>

(* Then its setting; an error is answered with 500.  A stop is acknowledged *)
(* when no resume crossed it.                                               *)
StoreStop(c, ok) ==
  /\ Running /\ Active(c)
  /\ setting' = IF ok THEN call[c].on ELSE setting
  /\ call' = [call EXCEPT ![c].step = IF ok THEN "done" ELSE "failed"]
  /\ armed' = (armed \/ (ok /\ call[c].on /\ ~call[c].crossed))
  /\ UNCHANGED <<stop, request, records, process>>

-----------------------------------------------------------------------------
(* runServeRuntime: shutdown, crash and start.                              *)

Busy == {r \in Requests : at[r] \notin {"new", "ended", "past"}}

Advance(stage) == serving' = stage /\ UNCHANGED <<starts, request, records, switch>>

(* A signal cancels the context: Shutdown closes the listener and waits.    *)
Signal == serving = "up" /\ Advance("draining") /\ UNCHANGED <<stored, inTime>>

(* Mutant: Shutdown has no timeout.                                         *)
StopWaitingWhenIdle ==
  /\ serving = "draining" /\ Busy = {}
  /\ inTime' = {r \in Requests : at[r] = "ended"}
  /\ Advance("closeManager") /\ UNCHANGED stored

(* Shutdown returns when no request is left or after five seconds.          *)
StopWaiting ==
  /\ serving = "draining"
  /\ inTime' = {r \in Requests : at[r] = "ended"}
  /\ Advance("closeManager") /\ UNCHANGED stored

(* BudgetManager.Close flushes the spend recorded so far; its error is      *)
(* dropped.  stored counts a failed write as written.                       *)
CloseManager ==
  /\ serving = "closeManager"
  /\ stored' = {r \in Requests : recorded[r] > 0}
  /\ Advance("closeAlerts") /\ UNCHANGED inTime

(* Drain waits three seconds at most, then Close cancels what is in flight. *)
CloseAlerts == serving = "closeAlerts" /\ Advance("closeWriter") /\ UNCHANGED <<stored, inTime>>

WriterIdle == queue = <<>> /\ \A r \in Requests : fate[r] # "writing"

(* Mutant: Close does not wait for the worker.                              *)
CloseWriterAtOnce == serving = "closeWriter" /\ Advance("closeStore") /\ UNCHANGED <<stored, inTime>>

(* BufferedCostWriter.Close returns when the worker has drained the queue.  *)
CloseWriter == serving = "closeWriter" /\ WriterIdle /\ Advance("closeStore") /\ UNCHANGED <<stored, inTime>>

(* The process ends: what its goroutines were doing is lost, and no request *)
(* it served is in the memory of the next one.                              *)
Vanish(stage) ==
  /\ serving' = stage
  /\ at' = [r \in Requests |-> IF at[r] = "new" THEN "new" ELSE "past"]
  /\ Forget(Requests)
  /\ fate' = [r \in Requests |-> IF fate[r] \in {"queued", "writing"} THEN "lost" ELSE fate[r]]
  /\ queue' = <<>>
  /\ call' = [c \in Calls |-> IF Active(c) THEN [call[c] EXCEPT !.step = "failed"] ELSE call[c]]
  /\ UNCHANGED <<hold, recorded, stop, setting, armed, stored, inTime, starts>>

CloseStore == serving = "closeStore" /\ Vanish("exited")

Crash == Running /\ Vanish("crashed")

Boot ==
  /\ ~Running /\ starts < MaxStarts
  /\ serving' = "up" /\ starts' = starts + 1
  /\ hold' = [r \in Requests |-> "none"]
  /\ recorded' = [r \in Requests |-> 0]
  /\ fate' = [r \in Requests |-> "none"]
  /\ stored' = {} /\ inTime' = {}
  /\ UNCHANGED <<at, input, route, model, once, outcome, queue, setting, call, armed>>

(* Mutant: the setting is not loaded.                                       *)
StartResumed == Boot /\ stop' = FALSE

(* Memory starts empty, and loadEmergencyStopSetting runs before the server *)
(* listens.                                                                 *)
Start == Boot /\ stop' = setting

-----------------------------------------------------------------------------

Handle(r) ==
  \/ CheckStop(r) \/ CheckBudget(r) \/ Reserve(r) \/ UpstreamFails(r)
  \/ \E chain \in Chains, over \in BOOLEAN : Downgrade(r, chain, over)
  \/ \E status \in {"success", "redirect", "error"} : Respond(r, status)
  \/ ReadEOF(r) \/ BreakOff(r) \/ CloseBody(r)
  \/ Record(r) \/ Settle(r) \/ PublishCost(r) \/ Enqueue(r) \/ Leave(r)

Save == \E r \in Requests, result \in {"saved", "failed"} : SaveRecord(r, result)

Closing == StopWaiting \/ CloseManager \/ CloseAlerts \/ CloseWriter \/ CloseStore

Next ==
  \/ \E r \in Requests : Handle(r) \/ \E q \in Inputs : Arrive(r, q)
  \/ TakeRecord \/ Save
  \/ \E c \in Calls : (\E on \in BOOLEAN : SetStop(c, on)) \/ (\E ok \in BOOLEAN : StoreStop(c, ok))
  \/ Signal \/ Closing \/ Crash \/ Start

Spec == Init /\ [][Next]_vars

(* The main goroutine walks through its deferred calls, each of which ends  *)
(* or times out, and the worker writes what it receives.  Nothing is        *)
(* assumed of clients and upstreams.                                        *)
Fairness == WF_vars(TakeRecord) /\ WF_vars(Save) /\ WF_vars(Closing)

LiveSpec == Spec /\ Fairness

-----------------------------------------------------------------------------

TypeOK ==
  /\ serving \in Stage
  /\ starts \in 1 .. MaxStarts
  /\ at \in [Requests -> Step]
  /\ \A r \in Requests : input[r] \in Inputs \cup {None}
  /\ \A r \in Requests : route[r].provider \in Configured \cup {None}
  /\ \A r \in Requests : model[r] = None \/ model[r].family \in Families
  /\ hold \in [Requests -> {"none", "held", "settled", "released"}]
  /\ once \in [Requests -> BOOLEAN]
  /\ \A r \in Requests : outcome[r] \in {None, "refused", "success", "redirect", "error"}
  /\ recorded \in [Requests -> 0 .. 1]
  /\ fate \in [Requests -> {"none", "queued", "writing", "saved", "failed", "dropped", "panicked", "lost"}]
  /\ Len(queue) <= QueueSize
  /\ stored \subseteq Requests /\ inTime \subseteq Requests
  /\ {stop, setting, armed} \subseteq BOOLEAN
  /\ \A c \in Calls : call[c].step \in {"idle", "set", "done", "failed"}

(* A request whose handler returned is in every ledger or in none: the      *)
(* agent was charged once exactly when a cost record was handed over, and   *)
(* its task was charged exactly then too; no hold outlives its request.     *)
LedgersAgree ==
  \A r \in Requests : at[r] = "ended" =>
    /\ hold[r] # "held"
    /\ recorded[r] = (IF fate[r] = "none" THEN 0 ELSE 1)
    /\ hold[r] # "none" => (hold[r] = "settled") = (recorded[r] = 1)

(* A client that got a successful answer of a model, whole or cut short, is *)
(* charged for it, and one that was refused or got an error is not.         *)
AnswersAreCharged ==
  \A r \in Requests : at[r] = "leaving" =>
    /\ outcome[r] = "success" /\ model[r] # None => recorded[r] = 1
    /\ outcome[r] \in {"refused", "error"} => recorded[r] = 0

OneProvider(c) == \A i, j \in 1 .. Len(c) : Detect(c[i]) = Detect(c[j])

(* The provider is resolved before the model is downgraded and still is the *)
(* provider of the model that is sent, as long as no chain mixes providers  *)
(* and the client did not name one.                                         *)
SentToItsProvider ==
  /\ TypeOK
  /\ \A r \in Requests :
       /\ at[r] \in {"upstream", "answering"}
       /\ input[r].path \in {"chat", "completions"} /\ input[r].override = None
       /\ \A c \in Chains : OneProvider(c)
       => Detect(model[r]) = route[r].provider

(* A request without the agent header is charged to the agent with the      *)
(* longest configured prefix of its key, whatever the order of the entries. *)
ChargedToItsAgent ==
  \A r \in Requests : input[r] # None /\ input[r].header = None =>
    LET key == input[r].key
        fits == {i \in 1 .. Len(KeyMap) : KeyMap[i].prefix # <<>> /\ IsPrefix(KeyMap[i].prefix, key)}
        agent == IdentifyAgent("api_key", input[r])
    IN IF fits = {} THEN agent = Unknown
       ELSE \E i \in fits : /\ agent = KeyMap[i].agent
                            /\ \A j \in fits : Len(KeyMap[j].prefix) <= Len(KeyMap[i].prefix)

(* Once a kill-all is acknowledged no request passes the gate until a       *)
(* resume begins, whatever restarts or crashes come in between.             *)
StopHolds == [][armed => \A r \in Requests : at[r] = "routed" => at'[r] # "passed"]_vars

(* An orderly exit loses nothing of a request that ended while Shutdown     *)
(* still waited: its spend was flushed and its cost record was written,     *)
(* unless the queue was full or the database refused it.                    *)
OrderlyExitKeepsAll ==
  serving = "exited" => \A r \in inTime : recorded[r] = 1 =>
    r \in stored /\ fate[r] \in {"saved", "failed", "dropped"}

(* Every call that was answered leaves the setting a restart reads equal to *)
(* the switch in memory, when none is in progress and none failed.          *)
SwitchIsStored ==
  serving = "up" /\ (\A c \in Calls : call[c].step \in {"idle", "done"}) => setting = stop

(* A shutdown ends although a stream never does.                            *)
ShutdownEnds == serving = "draining" ~> ~Running

=============================================================================
