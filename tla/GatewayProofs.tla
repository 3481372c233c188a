----------------------------- MODULE GatewayProofs -----------------------------
(***************************************************************************)
(* Theorems about Gateway: the ledgers of a request agree, what a client   *)
(* got is charged, an orderly exit loses nothing, an acknowledged stop     *)
(* holds, a model reaches its provider, and a key charges the agent of its *)
(* longest prefix, for any number of requests, inputs, chains, prefixes    *)
(* and calls and any size of the cost queue; and about StreamUsage: the    *)
(* charge of a response, for any bytes, prices and chunks.                 *)
(***************************************************************************)
EXTENDS Gateway, StreamUsage, SequenceTheorems, FiniteSetTheorems, WellFoundedInduction, TLAPS

Fates == {"none", "queued", "writing", "saved", "failed", "dropped", "panicked", "lost"}

Types ==
  /\ serving \in Stage
  /\ at \in [Requests -> Step]
  /\ DOMAIN input = Requests /\ DOMAIN route = Requests
  /\ DOMAIN model = Requests /\ DOMAIN outcome = Requests
  /\ hold \in [Requests -> {"none", "held", "settled", "released"}]
  /\ once \in [Requests -> BOOLEAN]
  /\ recorded \in [Requests -> {0, 1}]
  /\ fate \in [Requests -> Fates]
  /\ queue \in Seq(Requests)
  /\ inTime \subseteq Requests

Status == {"success", "redirect", "error"}

(* Nothing has been charged and the body, if there is one, is not finalized. *)
Fresh(r) == once[r] = FALSE /\ recorded[r] = 0 /\ fate[r] = "none"

Paid(r) == outcome[r] \in {"success", "redirect"} /\ (route[r].compat \/ once[r])

(* What is true of a request at each of its steps.                          *)
ReqInv(r) ==
  /\ at[r] \in {"new", "routed", "passed", "priced"} => Fresh(r) /\ hold[r] = "none"
  /\ at[r] = "upstream" => Fresh(r) /\ hold[r] \in {"none", "held"}
  /\ at[r] = "answering" => Fresh(r) /\ hold[r] \in {"none", "held"} /\ outcome[r] \in Status
  /\ at[r] = "record" =>
       recorded[r] = 0 /\ fate[r] = "none" /\ hold[r] \in {"none", "held"} /\ Paid(r)
  /\ at[r] = "settle" =>
       recorded[r] = 1 /\ fate[r] = "none" /\ hold[r] \in {"none", "held"} /\ Paid(r)
  /\ at[r] \in {"publish", "enqueue"} =>
       recorded[r] = 1 /\ fate[r] = "none" /\ hold[r] \in {"none", "settled"} /\ Paid(r)
  /\ at[r] = "closing" =>
       /\ outcome[r] \in Status
       /\ \/ Fresh(r) /\ hold[r] \in {"none", "held"}
          \/ once[r] /\ recorded[r] = 0 /\ fate[r] = "none" /\ hold[r] \in {"none", "released"} /\ ~Billable(r)
          \/ once[r] /\ recorded[r] = 1 /\ fate[r] # "none" /\ hold[r] \in {"none", "settled"} /\ Paid(r)
  /\ at[r] = "leaving" =>
       \/ /\ recorded[r] = 0 /\ fate[r] = "none" /\ hold[r] \in {"none", "held", "released"}
          /\ outcome[r] \in {"refused", "redirect", "error"} \/ (outcome[r] = "success" /\ model[r] = None)
       \/ /\ recorded[r] = 1 /\ fate[r] # "none" /\ hold[r] \in {"none", "settled"}
          /\ outcome[r] \in {"success", "redirect"}
  /\ at[r] = "ended" =>
       \/ recorded[r] = 0 /\ fate[r] = "none" /\ hold[r] \in {"none", "released"}
       \/ recorded[r] = 1 /\ fate[r] # "none" /\ hold[r] \in {"none", "settled"}

(* The state of r that ReqInv speaks of is the same after the step.         *)
Same(r) ==
  /\ at'[r] = at[r] /\ input'[r] = input[r] /\ route'[r] = route[r] /\ model'[r] = model[r] /\ hold'[r] = hold[r]
  /\ once'[r] = once[r] /\ outcome'[r] = outcome[r] /\ recorded'[r] = recorded[r]
  /\ (fate'[r] = "none") <=> (fate[r] = "none")

LEMMA SameKeeps == ASSUME NEW r \in Requests, ReqInv(r), Same(r) PROVE ReqInv(r)'
BY DEF ReqInv, Same, Fresh, Paid, Billable

(* A queued record is in the queue, and only records are.                   *)
QueueInv ==
  /\ \A i \in 1 .. Len(queue) : fate[queue[i]] # "none"
  /\ \A r \in Requests : fate[r] = "queued" => \E i \in 1 .. Len(queue) : queue[i] = r

(* How far the shutdown has got with the requests that ended in time.       *)
ExitInv ==
  /\ serving \in {"up", "draining"} => \A r \in Requests : fate[r] # "panicked"
  /\ Running => \A r \in Requests : fate[r] # "lost"
  /\ serving \in {"closeManager", "closeAlerts", "closeWriter", "closeStore"} =>
       \A r \in inTime : at[r] = "ended" /\ fate[r] # "panicked"
  /\ serving \in {"closeAlerts", "closeWriter", "closeStore", "exited"} =>
       \A r \in inTime : recorded[r] = 1 => r \in stored
  /\ serving = "closeStore" => queue = <<>>
  /\ serving \in {"closeStore", "exited"} =>
       \A r \in inTime : recorded[r] = 1 => fate[r] \in {"saved", "failed", "dropped"}

(* A process that is gone handles no request and holds no record.           *)
DownInv == ~Running => queue = <<>> /\ \A r \in Requests : at[r] \in {"new", "past"}

RequestsInv == \A r \in Requests : ReqInv(r)

-----------------------------------------------------------------------------
(* The steps of one request.                                                *)

(* Each step of a request leaves the others alone.                          *)
LEMMA OthersKeep ==
  ASSUME Types, NEW r \in Requests, Handle(r) \/ \E q \in Inputs : Arrive(r, q)
  PROVE  \A d \in Requests : d # r => Same(d)
<1> USE DEF Types, Same, records, switch, process
<1>1. CASE \E q \in Inputs : Arrive(r, q)
  BY <1>1 DEF Arrive, Refuse, Goto
<1>2. CASE CheckStop(r) \/ CheckBudget(r) \/ UpstreamFails(r)
  BY <1>2 DEF CheckStop, CheckBudget, UpstreamFails, Refuse, Goto
<1>3. CASE Reserve(r)
  BY <1>3 DEF Reserve, Forward, Untranslatable, Refuse, Goto
<1>4. CASE \E chain \in Chains, over \in BOOLEAN : Downgrade(r, chain, over)
  BY <1>4 DEF Downgrade, Refuse, Goto
<1>5. CASE \E status \in Status : Respond(r, status)
  BY <1>5 DEF Respond, Goto
<1>6. CASE ReadEOF(r) \/ CloseBody(r)
  BY <1>6 DEF ReadEOF, CloseBody, Finalize, ReleaseHold, Goto
<1>7. CASE BreakOff(r) \/ Record(r) \/ Settle(r) \/ PublishCost(r)
  BY <1>7 DEF BreakOff, Record, Settle, PublishCost, Goto
<1>8. CASE Enqueue(r)
  BY <1>8 DEF Enqueue, Goto
<1>9. CASE Leave(r)
  BY <1>9 DEF Leave, ReleaseHold, Forget, Goto
<1> QED
  BY <1>1, <1>2, <1>3, <1>4, <1>5, <1>6, <1>7, <1>8, <1>9 DEF Handle, Status

(* Each step of a request takes it from what is true of it at one step to   *)
(* what is true at the next.                                                *)
LEMMA ActsKeep ==
  ASSUME Types, NEW r \in Requests, ReqInv(r), Handle(r) \/ \E q \in Inputs : Arrive(r, q)
  PROVE  ReqInv(r)'
<1> USE DEF Types, ReqInv, Fresh, records, switch, process
<1>1. CASE \E q \in Inputs : Arrive(r, q)
  BY <1>1 DEF Arrive, Refuse, Goto
<1>2. CASE CheckStop(r) \/ CheckBudget(r) \/ UpstreamFails(r)
  BY <1>2 DEF CheckStop, CheckBudget, UpstreamFails, Refuse, Goto
<1>3. CASE Reserve(r)
  BY <1>3 DEF Reserve, Forward, Untranslatable, Refuse, Goto
<1>4. CASE \E chain \in Chains, over \in BOOLEAN : Downgrade(r, chain, over)
  BY <1>4 DEF Downgrade, Refuse, Goto
<1>5. CASE \E status \in Status : Respond(r, status)
  BY <1>5 DEF Respond, Goto, Status, Paid
<1>6. CASE ReadEOF(r)
  BY <1>6 DEF ReadEOF, Finalize, ReleaseHold, Goto, Status, Paid, Billable
<1>7. CASE CloseBody(r)
  BY <1>7 DEF CloseBody, Finalize, ReleaseHold, Goto, Status, Paid, Billable
<1>8. CASE BreakOff(r)
  BY <1>8 DEF BreakOff, Goto
<1>9. CASE Record(r)
  BY <1>9 DEF Record, Goto, Paid
<1>10. CASE Settle(r) \/ PublishCost(r)
  BY <1>10 DEF Settle, PublishCost, Goto, Paid
<1>11. CASE Enqueue(r)
  BY <1>11 DEF Enqueue, Goto, Paid, Status
<1>12. CASE Leave(r)
  BY <1>12 DEF Leave, ReleaseHold, Forget, Goto
<1> QED
  BY <1>1, <1>2, <1>3, <1>4, <1>5, <1>6, <1>7, <1>8, <1>9, <1>10, <1>11, <1>12 DEF Handle, Status

(* What a step of a request may change of the rest: it charges, hands a     *)
(* record over, or neither, and the process stands where it stood.          *)
LEMMA ActsLocally ==
  ASSUME Types, NEW r \in Requests, Handle(r) \/ \E q \in Inputs : Arrive(r, q)
  PROVE  /\ UNCHANGED <<serving, stored, inTime>>
         /\ at[r] \notin {"ended", "past"} /\ (at[r] = "new" => serving = "up")
         /\ Enqueue(r) \/ UNCHANGED <<fate, queue>>
<1> USE DEF records, process
<1>1. CASE \E q \in Inputs : Arrive(r, q)
  BY <1>1 DEF Arrive
<1>2. CASE CheckStop(r) \/ CheckBudget(r) \/ UpstreamFails(r) \/ Reserve(r)
  BY <1>2 DEF CheckStop, CheckBudget, UpstreamFails, Reserve
<1>3. CASE \E chain \in Chains, over \in BOOLEAN : Downgrade(r, chain, over)
  BY <1>3 DEF Downgrade
<1>4. CASE \E status \in Status : Respond(r, status)
  BY <1>4 DEF Respond
<1>5. CASE ReadEOF(r) \/ CloseBody(r) \/ BreakOff(r) \/ Record(r) \/ Settle(r) \/ PublishCost(r)
  BY <1>5 DEF ReadEOF, CloseBody, BreakOff, Record, Settle, PublishCost
<1>6. CASE Enqueue(r)
  BY <1>6 DEF Enqueue
<1>7. CASE Leave(r)
  BY <1>7 DEF Leave
<1> QED
  BY <1>1, <1>2, <1>3, <1>4, <1>5, <1>6, <1>7 DEF Handle, Status

(* A record is queued, dropped, or sent on a closed channel.                *)
LEMMA EnqueueCases ==
  ASSUME NEW r \in Requests, Enqueue(r)
  PROVE  /\ at[r] = "enqueue"
         /\ UNCHANGED <<hold, once, recorded, serving, stored, inTime>>
         /\ UNCHANGED <<input, route, model, outcome>>
         /\ Goto(r, "leaving") \/ Goto(r, "closing")
         /\ \/ queue' = Append(queue, r) /\ fate' = [fate EXCEPT ![r] = "queued"] /\ WriterOpen
            \/ queue' = queue /\ fate' = [fate EXCEPT ![r] = "dropped"]
            \/ queue' = queue /\ fate' = [fate EXCEPT ![r] = "panicked"] /\ ~WriterOpen
<1>1. at[r] = "enqueue" /\ UNCHANGED <<hold, once, recorded, serving, stored, inTime>>
  BY DEF Enqueue, process
<1>2. UNCHANGED <<input, route, model, outcome>> /\ (Goto(r, "leaving") \/ Goto(r, "closing"))
  BY DEF Enqueue
<1>3. CASE ~WriterOpen
  BY <1>1, <1>2, <1>3 DEF Enqueue
<1>4. CASE WriterOpen /\ Len(queue) < QueueSize
  BY <1>1, <1>2, <1>4 DEF Enqueue
<1>5. CASE WriterOpen /\ ~(Len(queue) < QueueSize)
  BY <1>1, <1>2, <1>5 DEF Enqueue
<1> QED
  BY <1>3, <1>4, <1>5

(* The steps of a request keep the types.                                   *)
LEMMA ActsTyped ==
  ASSUME Types, NEW r \in Requests, ReqInv(r), Handle(r) \/ \E q \in Inputs : Arrive(r, q)
  PROVE  Types'
<1> USE DEF Types, Step, records, switch, process
<1>1. CASE \E q \in Inputs : Arrive(r, q)
  BY <1>1 DEF Arrive, Refuse, Goto
<1>2. CASE CheckStop(r) \/ CheckBudget(r) \/ UpstreamFails(r)
  BY <1>2 DEF CheckStop, CheckBudget, UpstreamFails, Refuse, Goto
<1>3. CASE Reserve(r)
  BY <1>3 DEF Reserve, Forward, Untranslatable, Refuse, Goto
<1>4. CASE \E chain \in Chains, over \in BOOLEAN : Downgrade(r, chain, over)
  BY <1>4 DEF Downgrade, Refuse, Goto
<1>5. CASE \E status \in Status : Respond(r, status)
  BY <1>5 DEF Respond, Goto
<1>6. CASE ReadEOF(r) \/ CloseBody(r)
  BY <1>6 DEF ReadEOF, CloseBody, Finalize, ReleaseHold, Goto
<1>7. CASE BreakOff(r)
  BY <1>7 DEF BreakOff, Goto
<1>8. CASE Record(r)
  BY <1>8 DEF Record, Goto, ReqInv
<1>9. CASE Settle(r) \/ PublishCost(r)
  BY <1>9 DEF Settle, PublishCost, Goto
<1>10. CASE Enqueue(r)
  <2>1. fate' \in [Requests -> Fates]
    BY <1>10, EnqueueCases DEF Fates
  <2>2. queue' = queue \/ queue' = Append(queue, r)
    BY <1>10, EnqueueCases
  <2>3. queue' \in Seq(Requests)
    BY <2>2, AppendProperties
  <2> QED
    BY <1>10, <2>1, <2>3, EnqueueCases DEF Goto
<1>11. CASE Leave(r)
  BY <1>11 DEF Leave, ReleaseHold, Forget, Goto
<1> QED
  BY <1>1, <1>2, <1>3, <1>4, <1>5, <1>6, <1>7, <1>8, <1>9, <1>10, <1>11 DEF Handle, Status

-----------------------------------------------------------------------------
(* The inductive invariant.                                                 *)

GateInv == Types /\ RequestsInv /\ QueueInv /\ ExitInv /\ DownInv

LEMMA GateInvInit == Init => GateInv
<1> SUFFICES ASSUME Init PROVE GateInv
  OBVIOUS
<1>1. Types
  BY DEF Init, Types, Stage, Step, Fates
<1>2. RequestsInv
  BY DEF Init, RequestsInv, ReqInv, Fresh
<1>3. QueueInv /\ ExitInv /\ DownInv
  BY DEF Init, QueueInv, ExitInv, DownInv, Running
<1> QED
  BY <1>1, <1>2, <1>3 DEF GateInv

(* A step of a request keeps the invariant.                                 *)
LEMMA RequestKeeps ==
  ASSUME GateInv, NEW r \in Requests, Handle(r) \/ \E q \in Inputs : Arrive(r, q)
  PROVE  GateInv'
<1> USE DEF GateInv
<1>1. ReqInv(r)
  BY DEF RequestsInv
<1>2. Types'
  BY <1>1, ActsTyped
<1>3. RequestsInv'
  <2> SUFFICES ASSUME NEW d \in Requests PROVE ReqInv(d)'
    BY DEF RequestsInv
  <2>1. CASE d = r
    BY <2>1, <1>1, ActsKeep
  <2>2. CASE d # r
    BY <2>2, OthersKeep, SameKeeps DEF RequestsInv
  <2> QED BY <2>1, <2>2
<1>4. /\ UNCHANGED <<serving, stored, inTime>>
      /\ at[r] \notin {"ended", "past"} /\ (at[r] = "new" => serving = "up")
      /\ Enqueue(r) \/ UNCHANGED <<fate, queue>>
  BY ActsLocally
<1>5. Running
  BY <1>4 DEF DownInv, Running
<1>6. \A d \in Requests : d # r => at'[d] = at[d] /\ recorded'[d] = recorded[d]
  BY OthersKeep DEF Same
<1>7. CASE UNCHANGED <<fate, queue>>
  <2>1. QueueInv'
    BY <1>7 DEF QueueInv
  <2>2. ExitInv'
    BY <1>4, <1>5, <1>6, <1>7 DEF ExitInv, Running, Types
  <2> QED BY <2>1, <2>2, <1>2, <1>3, <1>4, <1>5 DEF DownInv, Running
<1>8. CASE Enqueue(r)
  <2>1. /\ queue \in Seq(Requests) /\ fate \in [Requests -> Fates] /\ at[r] = "enqueue" /\ fate[r] = "none"
        /\ inTime \subseteq Requests
    BY <1>1, <1>8 DEF Types, Enqueue, ReqInv
  <2>2. CASE queue' = Append(queue, r) /\ fate' = [fate EXCEPT ![r] = "queued"] /\ WriterOpen
    <3>1. Len(queue') = Len(queue) + 1 /\ queue'[Len(queue) + 1] = r /\ Len(queue) \in Nat
      BY <2>1, <2>2
    <3>2. \A i \in 1 .. Len(queue) : queue'[i] = queue[i] /\ queue[i] \in Requests
      BY <2>1, <2>2
    <3>3. QueueInv'
      BY <2>1, <2>2, <3>1, <3>2 DEF QueueInv
    <3>4. ExitInv'
      BY <2>1, <2>2, <1>4, <1>5, <1>6 DEF ExitInv, Running, WriterOpen
    <3> QED BY <3>3, <3>4, <1>2, <1>3, <1>4, <1>5 DEF DownInv, Running
  <2>3. CASE \/ queue' = queue /\ fate' = [fate EXCEPT ![r] = "dropped"]
             \/ queue' = queue /\ fate' = [fate EXCEPT ![r] = "panicked"] /\ ~WriterOpen
    <3>1. \A i \in 1 .. Len(queue) : queue[i] \in Requests
      BY <2>1
    <3>2. QueueInv'
      BY <2>1, <2>3, <3>1 DEF QueueInv
    <3>3. ExitInv'
      BY <2>1, <2>3, <1>4, <1>5, <1>6 DEF ExitInv, Running, WriterOpen
    <3> QED BY <3>2, <3>3, <1>2, <1>3, <1>4, <1>5 DEF DownInv, Running
  <2>4. \/ queue' = Append(queue, r) /\ fate' = [fate EXCEPT ![r] = "queued"] /\ WriterOpen
        \/ queue' = queue /\ fate' = [fate EXCEPT ![r] = "dropped"]
        \/ queue' = queue /\ fate' = [fate EXCEPT ![r] = "panicked"] /\ ~WriterOpen
    BY <1>8, EnqueueCases
  <2> QED BY <2>2, <2>3, <2>4
<1> QED
  BY <1>4, <1>7, <1>8

(* The steps of the worker.                                                 *)
LEMMA WorkerKeeps ==
  ASSUME GateInv, TakeRecord \/ Save
  PROVE  GateInv'
<1> USE DEF GateInv
<1>1. CASE TakeRecord
  <2>1. /\ queue \in Seq(Requests) /\ queue # <<>> /\ queue' = Tail(queue)
        /\ fate' = [fate EXCEPT ![Head(queue)] = "writing"] /\ fate \in [Requests -> Fates]
        /\ Running /\ UNCHANGED <<request, serving, stored, inTime>>
    BY <1>1 DEF TakeRecord, Types, process
  <2>2. /\ Len(queue) \in Nat \ {0} /\ Head(queue) = queue[1] /\ Head(queue) \in Requests
        /\ Tail(queue) \in Seq(Requests) /\ Len(Tail(queue)) = Len(queue) - 1
        /\ \A i \in 1 .. Len(queue) - 1 : Tail(queue)[i] = queue[i + 1]
        /\ \A i \in 1 .. Len(queue) : queue[i] \in Requests
    BY <2>1
  <2>3. fate[Head(queue)] # "none"
    BY <2>2 DEF QueueInv
  <2>4. Types'
    BY <2>1, <2>2 DEF Types, Fates, request
  <2>5. RequestsInv'
    <3>1. \A r \in Requests : Same(r)
      BY <2>1, <2>2, <2>3 DEF Same, request
    <3> QED BY <3>1, SameKeeps DEF RequestsInv
  <2>6. QueueInv'
    <3>1. \A i \in 1 .. Len(queue') : fate'[queue'[i]] # "none"
      <4> SUFFICES ASSUME NEW i \in 1 .. Len(queue') PROVE fate'[queue'[i]] # "none"
        OBVIOUS
      <4>1. i + 1 \in 1 .. Len(queue) /\ queue'[i] = queue[i + 1]
        BY <2>1, <2>2
      <4> QED BY <4>1, <2>1, <2>2 DEF QueueInv
    <3>2. ASSUME NEW r \in Requests, fate'[r] = "queued"
          PROVE  \E i \in 1 .. Len(queue') : queue'[i] = r
      <4>1. fate[r] = "queued" /\ r # Head(queue)
        BY <3>2, <2>1, <2>2
      <4>2. PICK i \in 1 .. Len(queue) : queue[i] = r
        BY <4>1 DEF QueueInv
      <4>3. i # 1 /\ i - 1 \in 1 .. Len(queue') /\ queue'[i - 1] = queue[i]
        BY <4>1, <4>2, <2>1, <2>2
      <4> QED BY <4>2, <4>3
    <3> QED BY <3>1, <3>2 DEF QueueInv
  <2>7. ExitInv'
    <3>1. serving # "closeStore"
      BY <2>1 DEF ExitInv
    <3> QED BY <3>1, <2>1, <2>2 DEF ExitInv, Running, request
  <2> QED BY <2>1, <2>4, <2>5, <2>6, <2>7 DEF DownInv, Running
<1>2. CASE Save
  <2> PICK r \in Requests, result \in {"saved", "failed"} : SaveRecord(r, result)
    BY <1>2 DEF Save
  <2>1. /\ fate' = [fate EXCEPT ![r] = result] /\ fate[r] = "writing" /\ fate \in [Requests -> Fates]
        /\ Running /\ UNCHANGED <<request, queue, serving, stored, inTime>> /\ queue \in Seq(Requests)
    BY DEF SaveRecord, Types, process
  <2>2. Types'
    BY <2>1 DEF Types, Fates, request
  <2>3. RequestsInv'
    <3>1. \A d \in Requests : Same(d)
      BY <2>1 DEF Same, request
    <3> QED BY <3>1, SameKeeps DEF RequestsInv
  <2>4. QueueInv'
    <3>1. \A i \in 1 .. Len(queue) : queue[i] \in Requests
      BY <2>1
    <3> QED BY <2>1, <3>1 DEF QueueInv
  <2>5. ExitInv'
    BY <2>1 DEF ExitInv, Running, request
  <2> QED BY <2>1, <2>2, <2>3, <2>4, <2>5 DEF DownInv, Running
<1> QED
  BY <1>1, <1>2

(* A step that changes neither a request nor a record.                      *)
LEMMA UnchangedKeeps ==
  ASSUME GateInv, UNCHANGED <<request, records>>, Types'
  PROVE  RequestsInv' /\ QueueInv'
<1>1. \A r \in Requests : Same(r)
  BY DEF Same, request, records
<1> QED
  BY <1>1, SameKeeps DEF GateInv, RequestsInv, QueueInv, records

(* The steps of a shutdown, and the kill-all and resume calls.              *)
LEMMA ShutdownKeeps ==
  ASSUME GateInv,
         \/ UNCHANGED <<request, records, serving, stored, inTime>>
         \/ Signal \/ StopWaiting \/ CloseManager \/ CloseAlerts \/ CloseWriter
  PROVE  GateInv'
<1> USE DEF GateInv
<1>1. UNCHANGED <<request, records>>
  BY DEF Signal, StopWaiting, CloseManager, CloseAlerts, CloseWriter, Advance
<1>2. serving' \in Stage /\ inTime' \subseteq Requests /\ (Running' => Running) /\ (Running => Running')
  BY DEF Signal, StopWaiting, CloseManager, CloseAlerts, CloseWriter, Advance, Types, Stage, Running
<1>3. Types'
  BY <1>1, <1>2 DEF Types, request, records
<1>4. DownInv'
  BY <1>1, <1>2 DEF DownInv, request, records
<1>5. ExitInv'
  <2> USE DEF ExitInv, Running, request, records, Types
  <2>1. CASE UNCHANGED <<request, records, serving, stored, inTime>>
    BY <2>1
  <2>2. CASE Signal
    BY <2>2, <1>1 DEF Signal, Advance
  <2>3. CASE StopWaiting
    BY <2>3, <1>1 DEF StopWaiting, Advance
  <2>4. CASE CloseManager
    BY <2>4, <1>1 DEF CloseManager, Advance
  <2>5. CASE CloseAlerts
    BY <2>5, <1>1 DEF CloseAlerts, Advance
  <2>6. CASE CloseWriter
    <3>1. queue = <<>> /\ serving = "closeWriter" /\ serving' = "closeStore" /\ UNCHANGED <<stored, inTime>>
      BY <2>6 DEF CloseWriter, Advance, WriterIdle
    <3>2. \A r \in inTime : at[r] = "ended" /\ fate[r] \notin {"panicked", "lost", "writing", "queued"}
      BY <3>1, <2>6 DEF CloseWriter, WriterIdle, QueueInv
    <3>3. \A r \in inTime : recorded[r] = 1 => fate[r] # "none"
      BY <3>2 DEF RequestsInv, ReqInv
    <3>4. \A r \in inTime : recorded[r] = 1 => fate[r] \in {"saved", "failed", "dropped"}
      BY <3>2, <3>3 DEF Fates
    <3> QED BY <3>1, <3>2, <3>4, <1>1
  <2> QED BY <2>1, <2>2, <2>3, <2>4, <2>5, <2>6
<1> QED
  BY <1>1, <1>3, <1>4, <1>5, UnchangedKeeps

(* The end of the process, orderly or not, and a start.                     *)
LEMMA RestartKeeps ==
  ASSUME GateInv, CloseStore \/ Crash \/ Start
  PROVE  GateInv'
<1> USE DEF GateInv
<1>1. ASSUME NEW stage \in {"exited", "crashed"}, Vanish(stage), stage = "exited" => serving = "closeStore"
      PROVE  GateInv'
  <2>1. Types'
    BY <1>1 DEF Vanish, Forget, Types, Stage, Step, Fates
  <2>2. RequestsInv'
    <3> SUFFICES ASSUME NEW r \in Requests PROVE ReqInv(r)'
      BY DEF RequestsInv
    <3>1. ReqInv(r) /\ at'[r] = (IF at[r] = "new" THEN "new" ELSE "past") /\ once'[r] = FALSE
          /\ UNCHANGED <<hold, recorded>>
          /\ fate'[r] = (IF fate[r] \in {"queued", "writing"} THEN "lost" ELSE fate[r])
      BY <1>1 DEF RequestsInv, Vanish, Forget
    <3> QED BY <3>1 DEF ReqInv, Fresh
  <2>3. QueueInv'
    BY <1>1 DEF Vanish, QueueInv
  <2>4. ExitInv'
    BY <1>1 DEF Vanish, ExitInv, Running, Types
  <2>5. DownInv'
    BY <1>1 DEF Vanish, DownInv
  <2> QED BY <2>1, <2>2, <2>3, <2>4, <2>5
<1>2. CASE CloseStore
  BY <1>1, <1>2 DEF CloseStore
<1>3. CASE Crash
  BY <1>1, <1>3 DEF Crash
<1>4. CASE Start
  <2>1. Boot
    BY <1>4 DEF Start
  <2>2. Types'
    BY <2>1 DEF Boot, Types, Stage, Fates
  <2>3. RequestsInv'
    <3> SUFFICES ASSUME NEW r \in Requests PROVE ReqInv(r)'
      BY DEF RequestsInv
    <3> QED BY <2>1 DEF Boot, DownInv, RequestsInv, ReqInv, Fresh
  <2>4. QueueInv' /\ ExitInv' /\ DownInv'
    BY <2>1 DEF Boot, DownInv, QueueInv, ExitInv, Running
  <2> QED BY <2>2, <2>3, <2>4
<1> QED
  BY <1>2, <1>3, <1>4

LEMMA GateInvNext == GateInv /\ [Next]_vars => GateInv'
<1> SUFFICES ASSUME GateInv, [Next]_vars PROVE GateInv'
  OBVIOUS
<1>1. CASE \E r \in Requests : Handle(r) \/ \E q \in Inputs : Arrive(r, q)
  BY <1>1, RequestKeeps
<1>2. CASE TakeRecord \/ Save
  BY <1>2, WorkerKeeps
<1>3. ASSUME NEW c \in Calls, (\E on \in BOOLEAN : SetStop(c, on)) \/ (\E ok \in BOOLEAN : StoreStop(c, ok))
      PROVE  GateInv'
  <2>1. UNCHANGED <<request, records, serving, stored, inTime>>
    BY <1>3 DEF SetStop, StoreStop, process
  <2> QED BY <2>1, ShutdownKeeps
<1>4. CASE Signal \/ StopWaiting \/ CloseManager \/ CloseAlerts \/ CloseWriter
  BY <1>4, ShutdownKeeps
<1>5. CASE CloseStore \/ Crash \/ Start
  BY <1>5, RestartKeeps
<1>6. CASE UNCHANGED vars
  BY <1>6, ShutdownKeeps DEF vars, process
<1> QED
  BY <1>1, <1>2, <1>3, <1>4, <1>5, <1>6 DEF Next, Closing

LEMMA GateInvAlways == Spec => []GateInv
BY GateInvInit, GateInvNext, PTL DEF Spec

-----------------------------------------------------------------------------

(* Whether a body is finalized by its end, by its Close or by both, and     *)
(* whatever answers, breaks off or panics (proxy.go:427-486 and the         *)
(* deferred Release of proxy.go:305): a handler that returned charged its   *)
(* agent and its task once each, exactly if it handed over a cost record,   *)
(* and holds no reservation.                                                *)
THEOREM RequestsAreAccounted == Spec => []LedgersAgree
<1>1. GateInv => LedgersAgree
  BY DEF GateInv, RequestsInv, ReqInv, LedgersAgree
<1> QED
  BY <1>1, GateInvAlways, PTL

(* A successful answer of a model is charged once, also when the client or  *)
(* the upstream broke it off; a refusal or an error never is                *)
(* (proxy.go:443-486, provider_routing.go:236-280).                         *)
THEOREM WhatIsAnsweredIsCharged == Spec => []AnswersAreCharged
<1>1. GateInv => AnswersAreCharged
  BY DEF GateInv, RequestsInv, ReqInv, AnswersAreCharged
<1> QED
  BY <1>1, GateInvAlways, PTL

(* The order of the deferred closes (main.go:636-712) keeps what the        *)
(* requests that ended in time have spent and recorded: the budget manager  *)
(* flushes after the server stopped, and the writer drains its queue before *)
(* the store closes.                                                        *)
THEOREM ExitKeepsAll == Spec => []OrderlyExitKeepsAll
<1>1. GateInv => OrderlyExitKeepsAll
  BY DEF GateInv, ExitInv, OrderlyExitKeepsAll
<1> QED
  BY <1>1, GateInvAlways, PTL

-----------------------------------------------------------------------------
(* The emergency stop.                                                      *)

CallType == [on : BOOLEAN, step : {"idle", "set", "done", "failed"}, crossed : BOOLEAN]

Stopped == stop = TRUE /\ \A c \in Calls : Active(c) => call[c].on

(* While a stop holds, or one no resume crossed is on its way to the        *)
(* setting, the switch is on and no resume is in progress; a start finds    *)
(* the setting, and no call.                                                *)
SwitchInv ==
  /\ call \in [Calls -> CallType] /\ armed \in BOOLEAN
  /\ ~Running => \A c \in Calls : ~Active(c)
  /\ armed => Stopped /\ setting = TRUE
  /\ \A c \in Calls : Active(c) /\ call[c].on /\ ~call[c].crossed => Stopped

LEMMA SwitchInvInit == Init => SwitchInv
<1> SUFFICES ASSUME Init PROVE SwitchInv
  OBVIOUS
<1>1. \A c \in Calls : call[c] \in CallType /\ call[c].step = "idle"
  BY DEF Init, CallType, NoCall
<1>2. call \in [Calls -> CallType]
  BY <1>1 DEF Init
<1> QED
  BY <1>1, <1>2 DEF Init, SwitchInv, Active

LEMMA RequestLeavesSwitch ==
  ASSUME NEW r \in Requests, Handle(r) \/ \E q \in Inputs : Arrive(r, q)
  PROVE  UNCHANGED <<switch, process>>
<1>1. CASE \E q \in Inputs : Arrive(r, q)
  BY <1>1 DEF Arrive
<1>2. CASE CheckStop(r) \/ CheckBudget(r) \/ UpstreamFails(r) \/ Reserve(r)
  BY <1>2 DEF CheckStop, CheckBudget, UpstreamFails, Reserve
<1>3. CASE \E chain \in Chains, over \in BOOLEAN : Downgrade(r, chain, over)
  BY <1>3 DEF Downgrade
<1>4. CASE \E status \in Status : Respond(r, status)
  BY <1>4 DEF Respond
<1>5. CASE ReadEOF(r) \/ CloseBody(r) \/ BreakOff(r) \/ Record(r) \/ Settle(r)
          \/ PublishCost(r) \/ Enqueue(r) \/ Leave(r)
  BY <1>5 DEF ReadEOF, CloseBody, BreakOff, Record, Settle, PublishCost, Enqueue, Leave
<1> QED
  BY <1>1, <1>2, <1>3, <1>4, <1>5 DEF Handle, Status

LEMMA SwitchInvNext == SwitchInv /\ [Next]_vars => SwitchInv'
<1> SUFFICES ASSUME SwitchInv, [Next]_vars PROVE SwitchInv'
  OBVIOUS
<1>1. CASE UNCHANGED switch /\ (~Running' => ~Running)
  BY <1>1 DEF SwitchInv, Stopped, Active, switch
<1>2. ASSUME NEW c \in Calls, NEW on \in BOOLEAN, SetStop(c, on) PROVE SwitchInv'
  <2>0. Running'
    BY <1>2 DEF SetStop, process, Running
  <2>1. /\ stop' = on /\ armed' = (armed /\ on) /\ setting' = setting
        /\ call[c].step = "idle"
        /\ call'[c] = [on |-> on, step |-> "set", crossed |-> \E e \in Calls : Active(e) /\ ~call[e].on]
        /\ \A d \in Calls : d # c => call'[d] = [call[d] EXCEPT !.crossed = @ \/ (Active(d) /\ ~on)]
    BY <1>2 DEF SetStop
  <2>2. call' \in [Calls -> CallType]
    BY <1>2 DEF SetStop, SwitchInv, CallType
  <2>3. \A d \in Calls : d # c => /\ call'[d].step = call[d].step /\ call'[d].on = call[d].on
                                  /\ (call'[d].crossed <=> (call[d].crossed \/ (Active(d) /\ ~on)))
    <3> SUFFICES ASSUME NEW d \in Calls, d # c
                 PROVE  /\ call'[d].step = call[d].step /\ call'[d].on = call[d].on
                        /\ (call'[d].crossed <=> (call[d].crossed \/ (Active(d) /\ ~on)))
      OBVIOUS
    <3>1. call'[d] = [call[d] EXCEPT !.crossed = @ \/ (Active(d) /\ ~on)]
      BY <2>1
    <3>2. call[d] \in CallType
      BY DEF SwitchInv
    <3>3. call'[d].step = call[d].step /\ call'[d].on = call[d].on
      BY <3>1, <3>2 DEF CallType
    <3>4. call'[d].crossed = (call[d].crossed \/ (Active(d) /\ ~on))
      BY <3>1, <3>2 DEF CallType
    <3> QED BY <3>3, <3>4
  <2>4. (\A e \in Calls : Active(e) => call[e].on) /\ on => Stopped'
    BY <2>1, <2>3 DEF Stopped, Active
  <2>5. armed' => Stopped' /\ setting' = TRUE
    BY <2>1, <2>4 DEF SwitchInv, Stopped
  <2>6. ASSUME NEW d \in Calls, Active(d)', call'[d].on, ~call'[d].crossed PROVE Stopped'
    <3>1. CASE d = c
      BY <3>1, <2>1, <2>4, <2>6
    <3>2. CASE d # c
      <4>1. Active(d) /\ call[d].on /\ ~call[d].crossed /\ on
        BY <3>2, <2>3, <2>6 DEF Active
      <4> QED BY <4>1, <2>4 DEF SwitchInv, Stopped
    <3> QED BY <3>1, <3>2
  <2> QED BY <2>0, <2>1, <2>2, <2>5, <2>6 DEF SwitchInv
<1>3. ASSUME NEW c \in Calls, NEW ok \in BOOLEAN, StoreStop(c, ok) PROVE SwitchInv'
  <2>1. /\ Active(c) /\ stop' = stop
        /\ setting' = (IF ok THEN call[c].on ELSE setting)
        /\ armed' = (armed \/ (ok /\ call[c].on /\ ~call[c].crossed))
        /\ call' = [call EXCEPT ![c].step = IF ok THEN "done" ELSE "failed"]
    BY <1>3 DEF StoreStop
  <2>2. call' \in [Calls -> CallType]
    BY <2>1 DEF SwitchInv, CallType
  <2>3. ~Active(c)' /\ \A d \in Calls : d # c => call'[d] = call[d]
    BY <2>1 DEF SwitchInv, CallType, Active
  <2>4. Stopped => Stopped'
    BY <2>1, <2>3 DEF Stopped, Active
  <2>5. \A d \in Calls : Active(d)' /\ call'[d].on /\ ~call'[d].crossed => Stopped'
    BY <2>3, <2>4 DEF SwitchInv, Active
  <2>6. armed' => Stopped /\ setting' = TRUE
    <3>1. call[c].on \in BOOLEAN /\ armed \in BOOLEAN
      BY DEF SwitchInv, CallType
    <3>2. CASE armed
      BY <3>1, <3>2, <2>1 DEF SwitchInv, Stopped
    <3>3. CASE ~armed
      BY <3>1, <3>3, <2>1 DEF SwitchInv
    <3> QED BY <3>2, <3>3
  <2>7. armed' \in BOOLEAN /\ Running'
    BY <1>3, <2>1 DEF StoreStop, process, Running, SwitchInv
  <2> QED BY <2>2, <2>4, <2>5, <2>6, <2>7 DEF SwitchInv
<1>4. CASE CloseStore \/ Crash
  <2>1. /\ UNCHANGED <<stop, setting, armed>>
        /\ call' = [c \in Calls |-> IF Active(c) THEN [call[c] EXCEPT !.step = "failed"] ELSE call[c]]
    BY <1>4 DEF CloseStore, Crash, Vanish
  <2>2. call' \in [Calls -> CallType] /\ \A c \in Calls : ~Active(c)'
    BY <2>1 DEF SwitchInv, CallType, Active
  <2> QED BY <2>1, <2>2 DEF SwitchInv, Stopped
<1>5. CASE Start
  <2>1. stop' = setting /\ UNCHANGED <<setting, armed, call>> /\ ~Running
    BY <1>5 DEF Start, Boot
  <2> QED BY <2>1 DEF SwitchInv, Stopped, Active
<1>6. ASSUME NEW r \in Requests, Handle(r) \/ \E q \in Inputs : Arrive(r, q) PROVE SwitchInv'
  BY <1>6, RequestLeavesSwitch, <1>1 DEF process, Running
<1>7. CASE TakeRecord \/ Save
  BY <1>7, <1>1 DEF TakeRecord, Save, SaveRecord, process, Running
<1>8. CASE Signal \/ StopWaiting \/ CloseManager \/ CloseAlerts \/ CloseWriter
  BY <1>8, <1>1 DEF Signal, StopWaiting, CloseManager, CloseAlerts, CloseWriter, Advance, Running
<1>9. CASE UNCHANGED vars
  BY <1>9, <1>1 DEF vars, process, Running
<1> QED
  BY <1>1, <1>2, <1>3, <1>4, <1>5, <1>6, <1>7, <1>8, <1>9 DEF Next, Closing

(* An acknowledged stop holds (server.go:593-633, main.go:751-760): no      *)
(* request passes gateMiddleware until a resume begins, whatever calls      *)
(* overlap, whichever write of the setting fails, and whenever the process  *)
(* restarts.                                                                *)
THEOREM StopIsKept == Spec => StopHolds
<1>1. SwitchInv /\ Types /\ [Next]_vars => [armed => \A r \in Requests : at[r] = "routed" => at'[r] # "passed"]_vars
  <2> SUFFICES ASSUME SwitchInv, Types, Next, armed, NEW r \in Requests, at[r] = "routed" PROVE at'[r] # "passed"
    OBVIOUS
  <2>1. stop
    BY DEF SwitchInv, Stopped
  <2>2. ASSUME NEW d \in Requests, Handle(d) \/ \E q \in Inputs : Arrive(d, q), d # r PROVE at'[r] # "passed"
    BY <2>2, OthersKeep DEF Same
  <2>3. CASE Handle(r) \/ \E q \in Inputs : Arrive(r, q)
    <3>1. CheckStop(r) => at'[r] = "leaving"
      BY <2>1 DEF CheckStop, Refuse, Goto, Types
    <3>2. CheckStop(r)
      BY <2>3 DEF Handle, CheckBudget, Reserve, UpstreamFails, Downgrade, Respond, ReadEOF, BreakOff,
                  CloseBody, Record, Settle, PublishCost, Enqueue, Leave, Arrive
    <3> QED BY <3>1, <3>2
  <2>4. CASE at' = at
    BY <2>4
  <2>5. CASE CloseStore \/ Crash
    BY <2>5 DEF CloseStore, Crash, Vanish
  <2>6. CASE TakeRecord \/ Save \/ Signal \/ StopWaiting \/ CloseManager \/ CloseAlerts \/ CloseWriter \/ Start
             \/ \E c \in Calls : (\E on \in BOOLEAN : SetStop(c, on)) \/ (\E ok \in BOOLEAN : StoreStop(c, ok))
    BY <2>6, <2>4 DEF TakeRecord, Save, SaveRecord, Signal, StopWaiting, CloseManager, CloseAlerts, CloseWriter,
                      Advance, Start, Boot, SetStop, StoreStop, request
  <2> QED BY <2>2, <2>3, <2>5, <2>6 DEF Next, Closing
<1>2. SwitchInv /\ [Next]_vars => SwitchInv'
  BY SwitchInvNext
<1>3. GateInv => Types
  BY DEF GateInv
<1> QED
  BY <1>1, <1>2, <1>3, SwitchInvInit, GateInvAlways, PTL DEF Spec, StopHolds

-----------------------------------------------------------------------------
(* Where a request is sent.                                                 *)

LEMMA Least ==
  ASSUME NEW T \in SUBSET Nat, T # {}
  PROVE  \E m \in T : \A k \in T : m <= k
<1> DEFINE R == {ss \in Nat \X Nat : ss[1] < ss[2]}
<1>1. IsWellFoundedOn(R, Nat)
  BY NatLessThanWellFounded DEF OpToRel
<1>2. PICK m \in T : \A k \in T : <<k, m>> \notin R
  <2> HIDE DEF R
  <2> QED BY <1>1, WFMin
<1>3. m \in Nat /\ \A k \in T : k \in Nat /\ (k < m => <<k, m>> \in R)
  OBVIOUS
<1>4. \A k \in T : ~(k < m)
  BY <1>2, <1>3
<1> HIDE DEF R
<1> QED
  BY <1>3, <1>4

LEMMA MinIsLeast ==
  ASSUME NEW T \in SUBSET Nat, T # {}
  PROVE  Min(T) \in T
<1>1. \E m \in T : \A k \in T : m <= k
  BY Least
<1> QED
  BY <1>1 DEF Min

(* The next model of a chain is a member of it after one that is m.         *)
LEMMA NextIsOfChain ==
  ASSUME NEW chain \in Seq(Model), NEW m \in Model
  PROVE  \/ NextInChain(chain, m) = m
         \/ \E i \in 1 .. Len(chain) : /\ chain[i] = m /\ i + 1 \in 1 .. Len(chain)
                                       /\ NextInChain(chain, m) = chain[i + 1]
<1> DEFINE I == {i \in 1 .. Len(chain) : chain[i] = m}
           i == SelectInSeq(chain, LAMBDA x : x = m)
<1>1. i = IF I # {} THEN Min(I) ELSE 0
  BY DEF SelectInSeq
<1>2. NextInChain(chain, m) = IF i = 0 \/ i = Len(chain) THEN m ELSE chain[i + 1]
  BY DEF NextInChain
<1>3. I \in SUBSET Nat /\ Len(chain) \in Nat
  OBVIOUS
<1>4. i = 0 \/ i \in I
  <2> HIDE DEF I, i
  <2> QED BY <1>1, <1>3, MinIsLeast
<1> HIDE DEF i
<1> QED
  BY <1>2, <1>3, <1>4

LEMMA BuiltinIs ==
  ASSUME NEW m \in Model
  PROVE  /\ BuiltinChain(m) \in Seq(Model)
         /\ \A i \in 1 .. Len(BuiltinChain(m)) : BuiltinChain(m)[i].family = m.family
<1>1. m.family \in Families
  BY DEF Model
<1>2. ASSUME NEW n \in Nat
      PROVE  /\ ChainOf(m.family, n) \in Seq(Model) /\ Len(ChainOf(m.family, n)) = n
             /\ \A i \in 1 .. n : ChainOf(m.family, n)[i].family = m.family
  <2>1. \A i \in 1 .. n : [family |-> m.family, tier |-> i] \in Model
    BY <1>1 DEF Model
  <2> QED BY <2>1 DEF ChainOf
<1>3. /\ <<>> \in Seq(Model) /\ Len(<<>>) = 0
  OBVIOUS
<1>4. CASE m.family = "gpt"
  BY <1>2, <1>4 DEF BuiltinChain
<1>5. CASE m.family = "claude"
  BY <1>2, <1>5 DEF BuiltinChain
<1>6. CASE m.family = "gemini"
  BY <1>2, <1>6 DEF BuiltinChain
<1>7. CASE m.family \notin {"gpt", "claude", "gemini"}
  BY <1>3, <1>7 DEF BuiltinChain
<1> QED
  BY <1>4, <1>5, <1>6, <1>7

(* A downgrade keeps to the provider of the model, unless the chain mixes   *)
(* providers.                                                               *)
LEMMA DowngradedIs ==
  ASSUME NEW chain \in Chains, NEW m \in Model
  PROVE  /\ Downgraded(chain, m) \in Model
         /\ OneProvider(chain) => Detect(Downgraded(chain, m)) = Detect(m)
<1> DEFINE used == IF chain = <<>> THEN BuiltinChain(m) ELSE chain
<1>1. chain \in Seq(Model)
  BY GatewayAssumption
<1>2. used \in Seq(Model)
  BY <1>1, BuiltinIs
<1>3. Downgraded(chain, m) = NextInChain(used, m)
  BY DEF Downgraded
<1>4. \/ NextInChain(used, m) = m
      \/ \E i \in 1 .. Len(used) : /\ used[i] = m /\ i + 1 \in 1 .. Len(used)
                                   /\ NextInChain(used, m) = used[i + 1]
  <2> HIDE DEF used
  <2> QED BY <1>2, NextIsOfChain
<1>5. \A i \in 1 .. Len(used) : used[i] \in Model
  <2> HIDE DEF used
  <2> QED BY <1>2
<1>6. ASSUME NEW i \in 1 .. Len(used), used[i] = m, i + 1 \in 1 .. Len(used), OneProvider(chain)
      PROVE  Detect(used[i + 1]) = Detect(m)
  <2>1. CASE chain = <<>>
    <3>1. used[i + 1].family = m.family /\ used[i + 1] \in Model
      BY <1>5, <1>6, <2>1, BuiltinIs
    <3>2. None \notin Model
      BY GatewayAssumption
    <3> HIDE DEF used
    <3> QED BY <3>1, <3>2 DEF Detect
  <2>2. CASE chain # <<>>
    BY <1>6, <2>2 DEF OneProvider
  <2> QED BY <2>1, <2>2
<1> HIDE DEF used
<1> QED
  BY <1>3, <1>4, <1>5, <1>6

Plain(q) == q.path \in {"chat", "completions"} /\ q.override = None

OnItsWay(r) == at[r] \in {"routed", "passed", "priced", "upstream", "answering"}

(* From its routing on, the provider of a request is the one of its model.  *)
RouteInv(r) ==
  /\ input[r] \in Inputs \cup {None}
  /\ route[r].provider \in Configured \cup {None}
  /\ model[r] \in Model \cup {None}
  /\ outcome[r] \in {None, "refused"} \cup Status
  /\ OnItsWay(r) /\ Plain(input[r]) /\ (\A c \in Chains : OneProvider(c)) =>
       Detect(model[r]) = route[r].provider

RoutesInv == \A r \in Requests : RouteInv(r)

(* A request without an override goes to the provider of its model, or is   *)
(* refused.                                                                 *)
LEMMA ResolvedIs ==
  ASSUME NEW q \in Inputs, Resolve(q).provider \in Configured, Plain(q)
  PROVE  Resolve(q).provider = Detect(q.model)
<1>1. Resolve(q).provider # None
  BY GatewayAssumption
<1>2. q.path \notin {"messages", "ollama", "models"}
  BY DEF Plain
<1> DEFINE chosen == IF q.override = None THEN Detect(q.model) ELSE q.override
<1>3. chosen = Detect(q.model)
  BY DEF Plain
<1>4. CASE chosen = "anthropic" /\ q.path # "chat"
  <2>1. Resolve(q) = NoRoute
    BY <1>2, <1>4 DEF Resolve
  <2> QED BY <1>1, <2>1 DEF NoRoute
<1>5. CASE ~(chosen = "anthropic" /\ q.path # "chat")
  <2>1. Resolve(q) = [provider |-> chosen, compat |-> chosen = "anthropic"]
    BY <1>2, <1>5 DEF Resolve
  <2> HIDE DEF chosen
  <2> QED BY <1>3, <2>1
<1> QED
  BY <1>4, <1>5

LEMMA RouteActs ==
  ASSUME Types, NEW r \in Requests, RouteInv(r), Handle(r) \/ \E q \in Inputs : Arrive(r, q)
  PROVE  RouteInv(r)'
<1> USE DEF Types, RouteInv, OnItsWay, Status
<1>1. ASSUME NEW q \in Inputs, Arrive(r, q) PROVE RouteInv(r)'
  <2>1. input'[r] = q /\ q.model \in Model \cup {None}
    BY <1>1, GatewayAssumption DEF Arrive, Input
  <2>2. CASE Resolve(q).provider \in Configured
    <3>1. /\ at'[r] = "routed" /\ route'[r] = Resolve(q) /\ model'[r] = q.model
          /\ outcome'[r] = outcome[r]
      BY <1>1, <2>2 DEF Arrive, Goto
    <3>2. Plain(q) => Detect(q.model) = Resolve(q).provider
      BY <2>2, ResolvedIs
    <3> QED BY <2>1, <2>2, <3>1, <3>2
  <2>3. CASE Resolve(q).provider \notin Configured
    <3>1. /\ at'[r] = "leaving" /\ route'[r] = route[r] /\ model'[r] = model[r]
          /\ outcome'[r] = "refused"
      BY <1>1, <2>3 DEF Arrive, Refuse, Goto
    <3> QED BY <2>1, <3>1
  <2> QED BY <2>2, <2>3
<1>2. CASE CheckStop(r) \/ CheckBudget(r) \/ UpstreamFails(r)
  BY <1>2 DEF CheckStop, CheckBudget, UpstreamFails, Refuse, Goto
<1>3. CASE Reserve(r)
  BY <1>3 DEF Reserve, Forward, Untranslatable, Refuse, Goto
<1>4. ASSUME NEW chain \in Chains, NEW over \in BOOLEAN, Downgrade(r, chain, over) PROVE RouteInv(r)'
  <2>1. UNCHANGED <<input, route>> /\ at[r] = "passed"
    BY <1>4 DEF Downgrade
  <2>2. CASE at'[r] = "priced"
    <3> DEFINE next == IF model[r] = None THEN None ELSE Downgraded(chain, model[r])
    <3>1. model'[r] = next /\ outcome' = outcome
      BY <1>4, <2>1, <2>2 DEF Downgrade, Refuse, Goto
    <3>2. /\ next \in Model \cup {None}
          /\ OneProvider(chain) => Detect(next) = Detect(model[r])
      BY DowngradedIs
    <3> HIDE DEF next
    <3> QED BY <2>1, <2>2, <3>1, <3>2
  <2>3. CASE at'[r] # "priced"
    <3>1. at'[r] = "leaving" /\ model' = model /\ outcome'[r] = "refused"
      BY <1>4, <2>1, <2>3 DEF Downgrade, Refuse, Goto
    <3> QED BY <2>1, <3>1
  <2> QED BY <2>2, <2>3
<1>5. CASE \E status \in Status : Respond(r, status)
  BY <1>5 DEF Respond, Goto
<1>6. CASE ReadEOF(r) \/ CloseBody(r)
  BY <1>6 DEF ReadEOF, CloseBody, Finalize, Goto
<1>7. CASE BreakOff(r) \/ Record(r) \/ Settle(r) \/ PublishCost(r)
  BY <1>7 DEF BreakOff, Record, Settle, PublishCost, Goto
<1>8. CASE Enqueue(r)
  BY <1>8, EnqueueCases DEF Goto
<1>9. CASE Leave(r)
  BY <1>9 DEF Leave, Forget, Goto, NoRoute
<1> QED
  BY <1>1, <1>2, <1>3, <1>4, <1>5, <1>6, <1>7, <1>8, <1>9 DEF Handle

LEMMA RoutesInvNext == Types /\ RoutesInv /\ [Next]_vars => RoutesInv'
<1> SUFFICES ASSUME Types, RoutesInv, [Next]_vars, NEW r \in Requests PROVE RouteInv(r)'
  BY DEF RoutesInv
<1>1. RouteInv(r)
  BY DEF RoutesInv
<1>2. ASSUME Same(r) PROVE RouteInv(r)'
  BY <1>1, <1>2 DEF Same, RouteInv, OnItsWay
<1>3. ASSUME NEW d \in Requests, Handle(d) \/ \E q \in Inputs : Arrive(d, q) PROVE RouteInv(r)'
  BY <1>1, <1>2, <1>3, OthersKeep, RouteActs
<1>4. CASE CloseStore \/ Crash
  <2>1. /\ at'[r] \in {"new", "past"} /\ input'[r] = None /\ route'[r] = NoRoute /\ model'[r] = None
        /\ outcome'[r] = None
    BY <1>4 DEF CloseStore, Crash, Vanish, Forget
  <2> QED BY <2>1 DEF RouteInv, OnItsWay, NoRoute
<1>5. CASE UNCHANGED <<at, input, route, model, outcome>>
  BY <1>1, <1>5 DEF RouteInv, OnItsWay
<1>6. CASE TakeRecord \/ Save \/ Signal \/ StopWaiting \/ CloseManager \/ CloseAlerts \/ CloseWriter \/ Start
           \/ \E c \in Calls : (\E on \in BOOLEAN : SetStop(c, on)) \/ (\E ok \in BOOLEAN : StoreStop(c, ok))
  BY <1>6, <1>5 DEF TakeRecord, Save, SaveRecord, Signal, StopWaiting, CloseManager, CloseAlerts, CloseWriter,
                    Advance, Start, Boot, SetStop, StoreStop, request
<1> QED
  BY <1>3, <1>4, <1>5, <1>6 DEF Next, Closing, vars, request

(* What is left of the types.                                               *)
RestInv ==
  /\ starts \in 1 .. MaxStarts
  /\ Len(queue) <= QueueSize
  /\ stored \subseteq Requests
  /\ stop \in BOOLEAN /\ setting \in BOOLEAN

LEMMA RestInvNext == Types /\ SwitchInv /\ RestInv /\ [Next]_vars => RestInv'
<1> SUFFICES ASSUME Types, SwitchInv, RestInv, [Next]_vars PROVE RestInv'
  OBVIOUS
<1>0. queue \in Seq(Requests) /\ Len(queue) \in Nat /\ MaxStarts \in Nat /\ QueueSize \in Nat
  BY GatewayAssumption DEF Types
<1>1. CASE UNCHANGED <<starts, queue, stored, stop, setting>>
  BY <1>1 DEF RestInv
<1>2. ASSUME NEW r \in Requests, Handle(r) \/ \E q \in Inputs : Arrive(r, q) PROVE RestInv'
  <2>1. UNCHANGED <<starts, stored, stop, setting>>
    BY <1>2, RequestLeavesSwitch DEF switch, process
  <2>2. CASE Enqueue(r)
    <3>1. queue' = queue \/ (Len(queue) < QueueSize /\ queue' = Append(queue, r))
      BY <2>2 DEF Enqueue
    <3>2. Len(Append(queue, r)) = Len(queue) + 1
      BY <1>0
    <3> QED BY <1>0, <2>1, <3>1, <3>2 DEF RestInv
  <2>3. CASE UNCHANGED <<fate, queue>>
    BY <2>1, <2>3 DEF RestInv
  <2> QED BY <1>2, <2>2, <2>3, ActsLocally
<1>3. CASE TakeRecord
  <2>1. queue # <<>> /\ queue' = Tail(queue) /\ UNCHANGED <<starts, stored, stop, setting>>
    BY <1>3 DEF TakeRecord, switch, process
  <2>2. Len(Tail(queue)) = Len(queue) - 1
    BY <1>0, <2>1
  <2> QED BY <1>0, <2>1, <2>2 DEF RestInv
<1>4. ASSUME NEW c \in Calls, NEW on \in BOOLEAN, SetStop(c, on) PROVE RestInv'
  BY <1>4 DEF SetStop, RestInv, process, records
<1>5. ASSUME NEW c \in Calls, NEW ok \in BOOLEAN, StoreStop(c, ok) PROVE RestInv'
  <2>1. call[c].on \in BOOLEAN
    BY DEF SwitchInv, CallType
  <2> QED BY <1>5, <2>1 DEF StoreStop, RestInv, process, records
<1>6. CASE CloseManager
  BY <1>6 DEF CloseManager, Advance, RestInv, records, switch
<1>7. CASE CloseStore \/ Crash
  BY <1>0, <1>7, GatewayAssumption DEF CloseStore, Crash, Vanish, RestInv
<1>8. CASE Start
  BY <1>0, <1>8 DEF Start, Boot, RestInv
<1>9. CASE Save \/ Signal \/ StopWaiting \/ CloseAlerts \/ CloseWriter \/ UNCHANGED vars
  BY <1>9, <1>1 DEF Save, SaveRecord, Signal, StopWaiting, CloseAlerts, CloseWriter, Advance, vars, records,
                    switch, process
<1> QED
  BY <1>2, <1>3, <1>4, <1>5, <1>6, <1>7, <1>8, <1>9 DEF Next, Closing

(* The provider that answers a chat or completions request is the one of    *)
(* the model it is sent, as provider_routing.go:76-137 resolved it, also    *)
(* when manager.go:736-782 has downgraded the model since.                  *)
THEOREM ProviderFits == Spec => []SentToItsProvider
<1>1. Init => RoutesInv /\ RestInv
  <2>1. Init => RoutesInv
    BY DEF Init, RoutesInv, RouteInv, OnItsWay, NoRoute
  <2>2. Init => RestInv
    <3>1. Len(<<>>) = 0 /\ QueueSize \in Nat /\ MaxStarts \in Nat \ {0}
      BY GatewayAssumption
    <3>2. 1 \in 1 .. MaxStarts
      BY <3>1
    <3>3. Len(<<>>) <= QueueSize
      BY <3>1
    <3>4. Init => starts = 1 /\ queue = <<>> /\ stored = {} /\ stop = FALSE /\ setting = FALSE
      BY DEF Init
    <3> QED BY <3>2, <3>3, <3>4 DEF RestInv
  <2> QED BY <2>1, <2>2
<1>2. GateInv /\ SwitchInv /\ RoutesInv /\ RestInv => SentToItsProvider
  <2> SUFFICES ASSUME GateInv, SwitchInv, RoutesInv, RestInv PROVE SentToItsProvider
    OBVIOUS
  <2>1. TypeOK
    <3>1. Types /\ \A r \in Requests : model[r] = None \/ model[r].family \in Families
      BY DEF GateInv, RoutesInv, RouteInv, Model
    <3>2. \A r \in Requests : /\ input[r] \in Inputs \cup {None}
                              /\ route[r].provider \in Configured \cup {None}
                              /\ outcome[r] \in {None, "refused", "success", "redirect", "error"}
      BY DEF RoutesInv, RouteInv, Status
    <3>3. {stop, setting, armed} \subseteq BOOLEAN
      BY DEF RestInv, SwitchInv
    <3>4. \A c \in Calls : call[c].step \in {"idle", "set", "done", "failed"}
      BY DEF SwitchInv, CallType
    <3>5. recorded \in [Requests -> 0 .. 1]
      BY <3>1 DEF Types
    <3> QED BY <3>1, <3>2, <3>3, <3>4, <3>5 DEF TypeOK, Types, Fates, RestInv
  <2> QED BY <2>1 DEF SentToItsProvider, RoutesInv, RouteInv, OnItsWay, Plain
<1>3. GateInv => Types
  BY DEF GateInv
<1> QED
  BY <1>1, <1>2, <1>3, RoutesInvNext, RestInvNext, SwitchInvInit, SwitchInvNext, GateInvAlways, PTL DEF Spec

-----------------------------------------------------------------------------
(* Induction and folds.                                                     *)

(* Induction, for a property given as the set of what has it.               *)
LEMMA NatSet ==
  ASSUME NEW G, 0 \in G, \A n \in Nat : n \in G => n + 1 \in G
  PROVE  \A n \in Nat : n \in G
<1> SUFFICES ASSUME Nat \ G # {} PROVE FALSE
  OBVIOUS
<1>1. PICK m \in Nat \ G : \A k \in Nat \ G : m <= k
  BY Least
<1>2. m # 0 /\ m - 1 \in Nat /\ ~(m <= m - 1)
  OBVIOUS
<1>3. m - 1 \in G
  BY <1>1, <1>2
<1>4. (m - 1) + 1 \in G
  BY <1>2, <1>3
<1> QED
  BY <1>4

LEMMA MaxIsGreatest ==
  ASSUME NEW n \in Nat, NEW s \in SUBSET (1 .. n), s # {}
  PROVE  Max(s) \in s /\ \A x \in s : x <= Max(s)
<1> DEFINE U == {u \in Nat : \A x \in s : x <= u}
<1>1. n \in U /\ U \in SUBSET Nat
  OBVIOUS
<1>2. PICK m \in U : \A u \in U : m <= u
  <2> HIDE DEF U
  <2> QED BY <1>1, Least
<1>3. m \in s
  <2> SUFFICES ASSUME m \notin s PROVE FALSE
    OBVIOUS
  <2>1. \A x \in s : x \in Nat /\ x >= 1 /\ x <= m - 1
    BY <1>2
  <2>2. m - 1 \in Nat
    <3>1. PICK x \in s : x \in Nat /\ x >= 1 /\ x <= m - 1
      BY <2>1
    <3>2. m \in Nat
      OBVIOUS
    <3> HIDE DEF U
    <3> QED BY <3>1, <3>2
  <2>3. m - 1 \in U /\ ~(m <= m - 1)
    BY <2>1, <2>2
  <2> HIDE DEF U
  <2> QED BY <1>2, <2>3
<1>4. \A x \in s : m >= x
  BY <1>2
<1> QED
  BY <1>3, <1>4 DEF Max

LEMMA WithoutMax ==
  ASSUME NEW n \in Nat, NEW s \in SUBSET (1 .. n + 1), s # {}
  PROVE  s \ {Max(s)} \in SUBSET (1 .. n)
<1>1. Max(s) \in s /\ \A x \in s : x <= Max(s)
  <2>1. n + 1 \in Nat
    OBVIOUS
  <2> QED BY <2>1, MaxIsGreatest
<1>2. \A x \in s : x \in Nat /\ 1 <= x /\ x <= n + 1
  OBVIOUS
<1>3. ASSUME NEW x \in s, x # Max(s) PROVE x \in 1 .. n
  <2>1. x <= Max(s) /\ x \in Nat /\ Max(s) \in Nat /\ 1 <= x /\ Max(s) <= n + 1
    BY <1>1, <1>2
  <2> QED BY <1>3, <2>1
<1> QED
  BY <1>3

LEMMA MaxUpTo ==
  ASSUME NEW n \in Nat
  PROVE  /\ Max(1 .. n + 1) = n + 1 /\ (1 .. n + 1) # {}
         /\ (1 .. n + 1) \ {n + 1} = 1 .. n
<1>1. n + 1 \in Nat /\ n + 1 \in 1 .. n + 1 /\ (1 .. n + 1) \in SUBSET (1 .. n + 1)
  OBVIOUS
<1>2. Max(1 .. n + 1) \in 1 .. n + 1 /\ n + 1 <= Max(1 .. n + 1)
  BY <1>1, MaxIsGreatest
<1>3. (1 .. n + 1) \ {n + 1} = 1 .. n
  OBVIOUS
<1> QED
  BY <1>1, <1>2, <1>3

(* g folds the first N elements of seq to the left by the function F.       *)
IsFold(g, A, F, base, seq, N) ==
  /\ g \in [SUBSET (1 .. N) -> A]
  /\ \A s \in SUBSET (1 .. N) : g[s] = IF s = {} THEN base ELSE F[<<g[s \ {Max(s)}], seq[Max(s)]>>]

(* There is such a fold: one can be built from the subsets of *)
(* 1 .. n to those of 1 .. n + 1.                                           *)
LEMMA FoldExists ==
  ASSUME NEW A, NEW B, NEW F \in [A \X B -> A], NEW base \in A,
         NEW N \in Nat, NEW seq, \A i \in 1 .. N : seq[i] \in B
  PROVE  \E g : IsFold(g, A, F, base, seq, N)
<1> DEFINE Value(g, s) == IF s = {} THEN base ELSE F[<<g[s \ {Max(s)}], seq[Max(s)]>>]
           Good(g, n) == g \in [SUBSET (1 .. n) -> A] /\ \A s \in SUBSET (1 .. n) : g[s] = Value(g, s)
           G == {n \in Nat : n <= N => \E g : Good(g, n)}
<1>1. 0 \in G
  <2> DEFINE g == [s \in {{}} |-> base]
  <2>1. Good(g, 0)
    OBVIOUS
  <2> HIDE DEF Good, g
  <2> QED BY <2>1
<1>2. ASSUME NEW n \in Nat, n \in G PROVE n + 1 \in G
  <2> SUFFICES ASSUME n + 1 <= N PROVE \E g : Good(g, n + 1)
    <3> HIDE DEF Good
    <3> QED OBVIOUS
  <2>1. PICK g : Good(g, n)
    <3>1. n <= N
      OBVIOUS
    <3> HIDE DEF Good
    <3> QED BY <1>2, <3>1
  <2> DEFINE h == [s \in SUBSET (1 .. n + 1) |-> Value(g, s)]
  <2>2. ASSUME NEW s \in SUBSET (1 .. n + 1), s # {}
        PROVE  s \ {Max(s)} \in SUBSET (1 .. n) /\ seq[Max(s)] \in B
    <3>1. s \ {Max(s)} \in SUBSET (1 .. n)
      BY <2>2, WithoutMax
    <3>2. n + 1 \in Nat
      OBVIOUS
    <3>3. Max(s) \in s
      BY <2>2, <3>2, MaxIsGreatest
    <3>4. Max(s) \in 1 .. n + 1
      BY <3>3
    <3>5. Max(s) \in 1 .. N
      BY <3>4
    <3> QED BY <3>1, <3>5
  <2>3. ASSUME NEW s \in SUBSET (1 .. n + 1) PROVE Value(g, s) \in A
    <3>1. CASE s = {}
      BY <3>1
    <3>2. CASE s # {}
      <4>1. g[s \ {Max(s)}] \in A /\ seq[Max(s)] \in B
        BY <2>1, <2>2, <3>2
      <4> QED BY <3>2, <4>1
    <3> QED BY <3>1, <3>2
  <2>4. \A s \in SUBSET (1 .. n) : s \in SUBSET (1 .. n + 1) /\ h[s] = g[s]
    <3>1. \A s \in SUBSET (1 .. n) : s \in SUBSET (1 .. n + 1)
      OBVIOUS
    <3>2. \A s \in SUBSET (1 .. n) : g[s] = Value(g, s)
      BY <2>1
    <3> HIDE DEF Value
    <3> QED BY <3>1, <3>2
  <2>5. ASSUME NEW s \in SUBSET (1 .. n + 1) PROVE h[s] = Value(h, s)
    <3>1. CASE s = {}
      BY <3>1
    <3>2. CASE s # {}
      <4>1. h[s \ {Max(s)}] = g[s \ {Max(s)}]
        <5> HIDE DEF h
        <5> QED BY <2>2, <2>4, <3>2
      <4>2. h[s] = Value(g, s)
        OBVIOUS
      <4> HIDE DEF h
      <4> QED BY <3>2, <4>1, <4>2
    <3> QED BY <3>1, <3>2
  <2>6. h \in [SUBSET (1 .. n + 1) -> A]
    <3> HIDE DEF Value
    <3> QED BY <2>3
  <2> HIDE DEF h, Value
  <2>7. Good(h, n + 1)
    BY <2>5, <2>6
  <2> HIDE DEF Good
  <2> QED BY <2>7
<1>3. N <= N
  OBVIOUS
<1>4. \A n \in Nat : n \in G
  <2> HIDE DEF G
  <2> QED BY <1>1, <1>2, NatSet
<1>5. PICK g : Good(g, N)
  <2> HIDE DEF Good
  <2> QED BY <1>3, <1>4
<1> QED
  BY <1>5 DEF IsFold

-----------------------------------------------------------------------------
(* Whom a key is charged to: the fold over the entries, by its definition.  *)

Longer(key, best, e) ==
  IF Len(e.prefix) > Len(best.prefix) /\ IsPrefix(e.prefix, key) THEN e ELSE best

Nobody == [prefix |-> <<>>, agent |-> Unknown]

BestStep(g, key, s) == IF s = {} THEN Nobody ELSE Longer(key, g[s \ {Max(s)}], KeyMap[Max(s)])
Folds(g, key) == g = [s \in SUBSET DOMAIN KeyMap |-> BestStep(g, key, s)]
Folded(key) == CHOOSE g : Folds(g, key)

LEMMA BestIsFold ==
  ASSUME NEW key
  PROVE  BestMatch(key) = Folded(key)[DOMAIN KeyMap].agent
BY DEF BestMatch, FoldLeft, MapThenFoldSet, Folded, Folds, BestStep, Longer, Nobody

LEMMA FoldedFolds ==
  ASSUME NEW key
  PROVE  Folds(Folded(key), key)
<1> DEFINE N == Len(KeyMap)
           A == {Nobody} \cup {KeyMap[i] : i \in 1 .. N}
           F == [x \in A \X A |-> Longer(key, x[1], x[2])]
<1>1. N \in Nat /\ DOMAIN KeyMap = 1 .. N
  BY GatewayAssumption
<1>2. F \in [A \X A -> A] /\ \A x \in A, y \in A : F[<<x, y>>] = Longer(key, x, y)
  <2> HIDE DEF A
  <2>1. \A x \in A \X A : Longer(key, x[1], x[2]) \in A
    BY DEF Longer
  <2> QED BY <2>1
<1>3. Nobody \in A /\ \A i \in 1 .. N : KeyMap[i] \in A
  OBVIOUS
<1> HIDE DEF F, A, N
<1>4. PICK g : IsFold(g, A, F, Nobody, KeyMap, N)
  BY <1>1, <1>2, <1>3, FoldExists
<1>5. ASSUME NEW s \in SUBSET (1 .. N) PROVE g[s] = BestStep(g, key, s)
  <2>1. CASE s = {}
    BY <1>4, <2>1 DEF BestStep, IsFold
  <2>2. CASE s # {}
    <3>1. Max(s) \in s
      BY <1>1, <2>2, MaxIsGreatest
    <3>2. Max(s) \in 1 .. N /\ s \ {Max(s)} \in SUBSET (1 .. N)
      BY <3>1
    <3>3. KeyMap[Max(s)] \in A /\ g[s \ {Max(s)}] \in A
      BY <1>3, <1>4, <3>2 DEF IsFold
    <3> QED BY <1>2, <1>4, <2>2, <3>3 DEF BestStep, IsFold
  <2> QED BY <2>1, <2>2
<1>6. Folds(g, key)
  BY <1>1, <1>4, <1>5 DEF Folds, IsFold
<1> QED
  BY <1>6 DEF Folded

Fits(key, n) == {i \in 1 .. n : KeyMap[i].prefix # <<>> /\ IsPrefix(KeyMap[i].prefix, key)}

(* What best may be after the first n entries.                              *)
IsBest(best, key, n) ==
  \/ best = Nobody /\ Fits(key, n) = {}
  \/ \E i \in Fits(key, n) :
       best = KeyMap[i] /\ \A j \in Fits(key, n) : Len(KeyMap[j].prefix) <= Len(KeyMap[i].prefix)

LEMMA LongestIsBest ==
  ASSUME NEW key, NEW n \in Nat, n <= Len(KeyMap)
  PROVE  IsBest(Folded(key)[1 .. n], key, n)
<1> DEFINE best(k) == Folded(key)[1 .. k]
           G == {k \in Nat : k <= Len(KeyMap) => IsBest(best(k), key, k)}
<1>1. Len(KeyMap) \in Nat /\ DOMAIN KeyMap = 1 .. Len(KeyMap)
  BY GatewayAssumption
<1>2. \A s \in SUBSET DOMAIN KeyMap : Folded(key)[s] = BestStep(Folded(key), key, s)
  BY FoldedFolds DEF Folds
<1>3. 0 \in G
  <2>1. 1 .. 0 = {} /\ {} \in SUBSET DOMAIN KeyMap
    OBVIOUS
  <2>2. Folded(key)[{}] = Nobody
    BY <1>2, <2>1 DEF BestStep
  <2> QED BY <2>1, <2>2 DEF IsBest, Fits
<1>4. ASSUME NEW k \in Nat, k \in G PROVE k + 1 \in G
  <2> SUFFICES ASSUME k + 1 <= Len(KeyMap) PROVE IsBest(best(k + 1), key, k + 1)
    OBVIOUS
  <2>1. IsBest(best(k), key, k)
    BY <1>1, <1>4
  <2>2. best(k + 1) = Longer(key, best(k), KeyMap[k + 1])
    <3>1. (1 .. k + 1) \in SUBSET DOMAIN KeyMap
      <4> HIDE DEF best, G
      <4> QED BY <1>1
    <3>2. Folded(key)[1 .. k + 1] = BestStep(Folded(key), key, 1 .. k + 1)
      BY <1>2, <3>1
    <3> QED BY <3>2, MaxUpTo DEF BestStep
  <2> HIDE DEF best, G
  <2> DEFINE e == KeyMap[k + 1]
  <2>3. \A i \in 1 .. k + 1 : KeyMap[i].prefix \in Seq(Nat) /\ Len(KeyMap[i].prefix) \in Nat
    <3>1. \A i \in 1 .. k + 1 : i \in 1 .. Len(KeyMap)
      BY <1>1
    <3> DEFINE K == [prefix : Seq(Nat), agent : STRING]
    <3>2. \A i \in 1 .. Len(KeyMap) : KeyMap[i] \in K
      <4>1. KeyMap \in Seq(K)
        BY GatewayAssumption
      <4> HIDE DEF K
      <4> QED BY <4>1
    <3>3. \A i \in 1 .. Len(KeyMap) : KeyMap[i].prefix \in Seq(Nat)
      BY <3>2
    <3> QED BY <3>1, <3>3
  <2>4. Len(Nobody.prefix) = 0 /\ (Len(e.prefix) = 0 <=> e.prefix = <<>>)
    BY <2>3 DEF Nobody
  <2>5. Fits(key, k + 1) = Fits(key, k) \cup (IF e.prefix # <<>> /\ IsPrefix(e.prefix, key) THEN {k + 1} ELSE {})
    BY DEF Fits
  <2>6. Fits(key, k) \subseteq 1 .. k + 1
    BY DEF Fits
  <2>7. CASE Fits(key, k) = {}
    <3>1. best(k) = Nobody
      BY <2>1, <2>7 DEF IsBest
    <3>2. CASE e.prefix # <<>> /\ IsPrefix(e.prefix, key)
      <4>1. best(k + 1) = e
        BY <2>2, <2>3, <2>4, <3>1, <3>2 DEF Longer
      <4> QED BY <2>3, <2>5, <2>7, <3>2, <4>1 DEF IsBest
    <3>3. CASE ~(e.prefix # <<>> /\ IsPrefix(e.prefix, key))
      <4>1. best(k + 1) = Nobody
        BY <2>2, <2>4, <3>1, <3>3 DEF Longer
      <4> QED BY <2>5, <2>7, <3>3, <4>1 DEF IsBest
    <3> QED BY <3>2, <3>3
  <2>8. ASSUME NEW i \in Fits(key, k), best(k) = KeyMap[i],
               \A j \in Fits(key, k) : Len(KeyMap[j].prefix) <= Len(KeyMap[i].prefix)
        PROVE  IsBest(best(k + 1), key, k + 1)
    <3>1. CASE Len(e.prefix) > Len(KeyMap[i].prefix) /\ IsPrefix(e.prefix, key)
      <4>1. best(k + 1) = e
        BY <2>2, <2>8, <3>1 DEF Longer
      <4>2. e.prefix # <<>>
        BY <2>3, <2>4, <2>6, <3>1
      <4>3. Fits(key, k + 1) = Fits(key, k) \cup {k + 1}
        BY <2>5, <3>1, <4>2
      <4>4. \A j \in Fits(key, k + 1) : Len(KeyMap[j].prefix) <= Len(e.prefix)
        <5>1. Len(KeyMap[i].prefix) \in Nat /\ Len(e.prefix) \in Nat
          BY <2>3, <2>6
        <5>2. \A j \in Fits(key, k) : Len(KeyMap[j].prefix) \in Nat
          BY <2>3, <2>6
        <5> QED BY <2>8, <3>1, <4>3, <5>1, <5>2
      <4> QED BY <4>1, <4>3, <4>4 DEF IsBest
    <3>2. CASE ~(Len(e.prefix) > Len(KeyMap[i].prefix) /\ IsPrefix(e.prefix, key))
      <4>1. best(k + 1) = KeyMap[i]
        BY <2>2, <2>8, <3>2 DEF Longer
      <4>2. i \in Fits(key, k + 1)
        BY <2>5
      <4>3. \A j \in Fits(key, k + 1) : Len(KeyMap[j].prefix) <= Len(KeyMap[i].prefix)
        BY <2>3, <2>5, <2>6, <2>8, <3>2
      <4> QED BY <4>1, <4>2, <4>3 DEF IsBest
    <3> QED BY <3>1, <3>2
  <2> QED BY <2>1, <2>7, <2>8 DEF IsBest
<1>5. \A k \in Nat : k \in G
  <2> HIDE DEF G
  <2> QED BY <1>3, <1>4, NatSet
<1> QED
  BY <1>5

(* A key is charged to the agent with the longest configured prefix of it,  *)
(* whatever the order of the entries (manager.go:415-433).                  *)
THEOREM KeysFindTheirAgent == Spec => []ChargedToItsAgent
<1>1. \A key : IsBest(Folded(key)[DOMAIN KeyMap], key, Len(KeyMap))
  <2>1. Len(KeyMap) \in Nat /\ DOMAIN KeyMap = 1 .. Len(KeyMap) /\ Len(KeyMap) <= Len(KeyMap)
    BY GatewayAssumption
  <2> QED BY <2>1, LongestIsBest
<1>2. ChargedToItsAgent
  <2> SUFFICES ASSUME NEW r \in Requests, input[r] # None, input[r].header = None
               PROVE  LET key == input[r].key
                          agent == IdentifyAgent("api_key", input[r])
                      IN IF Fits(key, Len(KeyMap)) = {} THEN agent = Unknown
                         ELSE \E i \in Fits(key, Len(KeyMap)) :
                                /\ agent = KeyMap[i].agent
                                /\ \A j \in Fits(key, Len(KeyMap)) :
                                     Len(KeyMap[j].prefix) <= Len(KeyMap[i].prefix)
    BY DEF ChargedToItsAgent, Fits
  <2> DEFINE key == input[r].key
  <2>1. IdentifyAgent("api_key", input[r]) = Folded(key)[DOMAIN KeyMap].agent
    BY BestIsFold DEF IdentifyAgent
  <2>2. IsBest(Folded(key)[DOMAIN KeyMap], key, Len(KeyMap))
    BY <1>1
  <2>3. Nobody.agent = Unknown
    BY DEF Nobody
  <2> HIDE DEF key
  <2> QED BY <2>1, <2>2, <2>3 DEF IsBest, key
<1> QED
  BY <1>2, PTL

-----------------------------------------------------------------------------
(* What a stream of bytes is charged for, in StreamUsage.                   *)

(* A document of a stream stands at the bytes i and i + 1 of b, alone on    *)
(* its line so far; it is Closed if the line ended within the first n bytes *)
(* and Heard if these bytes do not go beyond the document.                  *)
Half(b, i, d, h) == b[i] = [of |-> d, half |-> h]
Line(b, i) ==
  /\ \E d \in Docs : d.data /\ Half(b, i, d, 1) /\ Half(b, i + 1, d, 2)
  /\ i = 1 \/ b[i - 1] = NL
Closed(b, n) == {i \in 1 .. n - 2 : Line(b, i) /\ b[i + 2] = NL}
Heard(b, n)  == {i \in 1 .. n - 1 : Line(b, i) /\ (i + 1 = n \/ b[i + 2] = NL)}

(* v is the last positive count of those at the positions of I.             *)
IsLatest(v, c, I) ==
  \/ v = 0 /\ \A i \in I : c[i] <= 0
  \/ \E i \in I : v = c[i] /\ c[i] > 0 /\ \A j \in I : c[j] > 0 => j <= i

Ins(b)  == [i \in 1 .. Len(b) |-> b[i].of.in]
Outs(b) == [i \in 1 .. Len(b) |-> b[i].of.out]

Texts(b, I) == UNION {{i} \X (1 .. b[i].of.delta) : i \in {j \in I : ~(b[j].of.in # 0 \/ b[j].of.out # 0)}}

Acc == [in : Nat, out : Nat, delta : Nat, partialLine : Seq(Byte)]

(* The accumulator a has counted the documents at the positions of I.       *)
Counted(a, b, I) ==
  /\ a \in Acc
  /\ IsLatest(a.in, Ins(b), I) /\ IsLatest(a.out, Outs(b), I)
  /\ IsFiniteSet(Texts(b, I)) /\ a.delta = Cardinality(Texts(b, I))

(* p is what the first n bytes of b have after their last end of a line.    *)
Begun(p, b, n) ==
  \E k \in 0 .. n :
    /\ k = 0 \/ b[k] = NL
    /\ Len(p) = n - k
    /\ \A i \in 1 .. n - k : p[i] = b[k + i] /\ p[i] # NL

LEMMA LatestGrows ==
  ASSUME NEW v \in Nat, NEW c, NEW I \in SUBSET Nat, NEW m \in Nat, \A i \in I : i < m /\ c[i] \in Int,
         c[m] \in Int, IsLatest(v, c, I)
  PROVE  IsLatest(IF c[m] > 0 THEN c[m] ELSE v, c, I \cup {m})
<1>1. CASE c[m] > 0
  <2>1. \A j \in I \cup {m} : j <= m
    OBVIOUS
  <2> QED BY <1>1, <2>1 DEF IsLatest
<1>2. CASE ~(c[m] > 0)
  <2>1. c[m] <= 0
    BY <1>2
  <2>2. CASE v = 0 /\ \A i \in I : c[i] <= 0
    BY <1>2, <2>1, <2>2 DEF IsLatest
  <2>3. CASE \E i \in I : v = c[i] /\ c[i] > 0 /\ \A j \in I : c[j] > 0 => j <= i
    BY <1>2, <2>3 DEF IsLatest
  <2> QED BY <2>2, <2>3 DEF IsLatest
<1> QED
  BY <1>1, <1>2

LEMMA LatestIs ==
  ASSUME NEW n \in Nat, NEW I \in SUBSET (1 .. n), NEW c, \A i \in I : c[i] \in Int, NEW v, IsLatest(v, c, I)
  PROVE  LET has == {i \in I : c[i] > 0} IN v = IF has = {} THEN 0 ELSE c[Max(has)]
<1> DEFINE has == {i \in I : c[i] > 0}
<1>1. CASE v = 0 /\ \A i \in I : c[i] <= 0
  <2>1. \A i \in I : ~(c[i] > 0)
    BY <1>1
  <2>2. has = {}
    BY <2>1
  <2> QED BY <1>1, <2>2
<1>2. ASSUME NEW i \in I, v = c[i], c[i] > 0, \A j \in I : c[j] > 0 => j <= i
      PROVE  has # {} /\ v = c[Max(has)]
  <2>1. i \in has /\ has \in SUBSET (1 .. n) /\ \A j \in has : j <= i
    BY <1>2
  <2>2. Max(has) \in has /\ \A x \in has : x <= Max(has)
    <3> HIDE DEF has
    <3> QED BY <2>1, MaxIsGreatest
  <2>3. Max(has) <= i /\ i <= Max(has) /\ Max(has) \in 1 .. n /\ i \in 1 .. n
    <3> HIDE DEF has
    <3> QED BY <2>1, <2>2
  <2>4. Max(has) = i
    BY <2>3
  <2> QED BY <1>2, <2>1, <2>4
<1> QED
  BY <1>1, <1>2 DEF IsLatest

LEMMA TextGrows ==
  ASSUME NEW b, NEW I, NEW m, m \notin I, b[m].of.delta \in Nat, IsFiniteSet(Texts(b, I))
  PROVE  /\ IsFiniteSet(Texts(b, I \cup {m}))
         /\ Cardinality(Texts(b, I \cup {m})) =
              Cardinality(Texts(b, I)) + (IF b[m].of.in # 0 \/ b[m].of.out # 0 THEN 0 ELSE b[m].of.delta)
<1> DEFINE D == b[m].of.delta
           T == {m} \X (1 .. D)
<1>1. CASE b[m].of.in # 0 \/ b[m].of.out # 0
  <2>1. {j \in I \cup {m} : ~(b[j].of.in # 0 \/ b[j].of.out # 0)} = {j \in I : ~(b[j].of.in # 0 \/ b[j].of.out # 0)}
    BY <1>1
  <2>2. Texts(b, I \cup {m}) = Texts(b, I)
    BY <2>1 DEF Texts
  <2>3. Cardinality(Texts(b, I)) \in Nat
    BY FS_CardinalityType
  <2> QED BY <1>1, <2>2, <2>3
<1>2. CASE ~(b[m].of.in # 0 \/ b[m].of.out # 0)
  <2>1. Texts(b, I \cup {m}) = Texts(b, I) \cup T
    BY <1>2 DEF Texts
  <2>2. IsFiniteSet({m}) /\ Cardinality({m}) = 1
    BY FS_Singleton
  <2>3. IsFiniteSet(1 .. D) /\ Cardinality(1 .. D) = D
    <3>1. 1 \in Int /\ D \in Int /\ D \in Nat
      OBVIOUS
    <3> HIDE DEF D
    <3>2. IsFiniteSet(1 .. D) /\ Cardinality(1 .. D) = IF 1 > D THEN 0 ELSE D - 1 + 1
      BY <3>1, FS_Interval
    <3> QED BY <3>1, <3>2
  <2>4. IsFiniteSet(T) /\ Cardinality(T) = D
    <3>1. IsFiniteSet(T) /\ Cardinality(T) = Cardinality({m}) * Cardinality(1 .. D)
      <4> HIDE DEF D
      <4> QED BY <2>2, <2>3, FS_Product
    <3> QED BY <2>2, <2>3, <3>1
  <2>5. Texts(b, I) \cap T = {}
    BY DEF Texts
  <2>6. /\ IsFiniteSet(Texts(b, I) \cup T)
        /\ Cardinality(Texts(b, I) \cup T) =
             Cardinality(Texts(b, I)) + Cardinality(T) - Cardinality(Texts(b, I) \cap T)
    <3> HIDE DEF T
    <3> QED BY <2>4, FS_Union
  <2>7. Cardinality(Texts(b, I) \cap T) = 0 /\ Cardinality(Texts(b, I)) \in Nat
    BY <2>5, FS_EmptySet, FS_CardinalityType
  <2>8. D \in Nat /\ (IF b[m].of.in # 0 \/ b[m].of.out # 0 THEN 0 ELSE D) = D
    BY <1>2
  <2> HIDE DEF D, T
  <2>9. Cardinality(Texts(b, I) \cup T) = Cardinality(Texts(b, I)) + D
    BY <2>4, <2>6, <2>7, <2>8
  <2> QED BY <2>1, <2>6, <2>8, <2>9 DEF D
<1> QED
  BY <1>1, <1>2

LEMMA OfLine ==
  ASSUME NEW b, NEW i, Line(b, i)
  PROVE  /\ b[i].of \in Docs /\ b[i].of.in \in Int /\ b[i].of.out \in Int /\ b[i].of.delta \in Nat
         /\ b[i].of.data /\ Half(b, i, b[i].of, 1) /\ Half(b, i + 1, b[i].of, 2)
<1>1. PICK d \in Docs : d.data /\ Half(b, i, d, 1) /\ Half(b, i + 1, d, 2)
  BY DEF Line
<1>2. b[i].of = d
  BY <1>1 DEF Half
<1>3. d \in Doc
  BY StreamUsageAssumption
<1>4. d.in \in Int /\ d.out \in Int /\ d.delta \in Nat
  BY <1>3 DEF Doc
<1> QED
  BY <1>1, <1>2, <1>4

LEMMA HalvesDiffer ==
  ASSUME NEW b, NEW i, NEW d, NEW h, Half(b, i, d, h)
  PROVE  b[i] # NL
<1>1. DOMAIN b[i] = {"of", "half"} /\ DOMAIN NL = {"end"} /\ "end" \notin {"of", "half"}
  BY DEF Half, NL
<1> QED
  BY <1>1

(* What was begun is a document exactly if one stands at n - 1 on its line. *)
LEMMA BegunIsDoc ==
  ASSUME NEW b \in Seq(Byte), NEW n \in 0 .. Len(b), NEW p \in Seq(Byte), Begun(p, b, n), NEW d \in Docs, d.data
  PROVE  /\ p = Bytes(d) => n - 1 \in 1 .. n /\ Line(b, n - 1) /\ b[n - 1].of = d
         /\ n - 1 \in 1 .. n /\ Line(b, n - 1) /\ b[n - 1].of = d => p = Bytes(d)
<1>0. n \in Nat /\ Len(b) \in Nat /\ n <= Len(b)
  OBVIOUS
<1>1. PICK k \in 0 .. n : /\ k = 0 \/ b[k] = NL
                          /\ Len(p) = n - k
                          /\ \A i \in 1 .. n - k : p[i] = b[k + i] /\ p[i] # NL
  BY DEF Begun
<1>2. ASSUME p = Bytes(d)
      PROVE  n - 1 \in 1 .. n /\ Line(b, n - 1) /\ b[n - 1].of = d
  <2>1. Len(p) = 2 /\ p[1] = [of |-> d, half |-> 1] /\ p[2] = [of |-> d, half |-> 2]
    BY <1>2 DEF Bytes
  <2>2. k = n - 2 /\ k + 1 = n - 1 /\ k + 2 = n /\ n - 1 \in 1 .. n /\ 1 \in 1 .. n - k /\ 2 \in 1 .. n - k
    <3>1. n - k = 2
      BY <1>1, <2>1, Zenon
    <3>2. k \in Int /\ k >= 0
      BY <1>0
    <3> QED BY <1>0, <3>1, <3>2
  <2>3. b[n - 1] = p[1] /\ b[n] = p[2]
    BY <1>1, <2>2
  <2>4. (n - 1) + 1 = n /\ (n - 1) - 1 = k /\ (k = 0 => n - 1 = 1)
    BY <1>0, <2>2
  <2>5. Half(b, n - 1, d, 1) /\ Half(b, (n - 1) + 1, d, 2)
    BY <2>1, <2>3, <2>4 DEF Half
  <2>6. n - 1 = 1 \/ b[(n - 1) - 1] = NL
    BY <1>1, <2>4
  <2>7. Line(b, n - 1)
    BY <2>5, <2>6 DEF Line
  <2>8. b[n - 1].of = d
    BY <2>5 DEF Half
  <2> QED BY <2>2, <2>7, <2>8
<1>3. ASSUME n - 1 \in 1 .. n, Line(b, n - 1), b[n - 1].of = d
      PROVE  p = Bytes(d)
  <2>1. (n - 1) + 1 = n /\ (n - 1) - 1 = n - 2 /\ n >= 2
    BY <1>0, <1>3
  <2>2. b[n - 1] = [of |-> d, half |-> 1] /\ b[n] = [of |-> d, half |-> 2]
    BY <1>3, <2>1, OfLine DEF Half
  <2>3. b[n - 1] # NL /\ b[n] # NL
    BY <1>3, <2>1, OfLine, HalvesDiffer
  <2>4. k # n /\ k # n - 1
    BY <1>0, <1>1, <2>1, <2>3
  <2>5. k <= n - 2
    BY <1>0, <1>1, <2>4
  <2>6. ~(k < n - 2)
    <3> SUFFICES ASSUME k < n - 2 PROVE FALSE
      OBVIOUS
    <3>1. n - 1 # 1 /\ (n - 2) - k \in 1 .. n - k /\ k + ((n - 2) - k) = n - 2
      BY <1>0, <1>1, <2>1
    <3>2. b[n - 2] = NL
      BY <1>3, <2>1, <3>1 DEF Line
    <3> QED BY <1>1, <3>1, <3>2
  <2>7. k = n - 2 /\ k + 1 = n - 1 /\ k + 2 = n /\ n - k = 2
    BY <1>0, <2>5, <2>6
  <2>8. Len(p) = 2 /\ p[1] = b[n - 1] /\ p[2] = b[n]
    <3>1. 1 \in 1 .. n - k /\ 2 \in 1 .. n - k
      BY <2>7
    <3>2. Len(p) = n - k /\ p[1] = b[k + 1] /\ p[2] = b[k + 2]
      BY <1>1, <3>1
    <3> QED BY <2>7, <3>2
  <2> QED BY <2>2, <2>8 DEF Bytes
<1> QED
  BY <1>2, <1>3

LEMMA FlushTyped ==
  ASSUME NEW a \in Acc
  PROVE  FlushLine(a) \in Acc
<1> DEFINE usable == {d \in Parsed(a.partialLine) : d.data}
           d == CHOOSE d \in usable : TRUE
<1>0. a.in \in Nat /\ a.out \in Nat /\ a.delta \in Nat /\ <<>> \in Seq(Byte)
  BY DEF Acc
<1>1. CASE usable = {}
  <2>1. FlushLine(a) = [a EXCEPT !.partialLine = <<>>]
    BY <1>1 DEF FlushLine, processLine
  <2> QED BY <1>0, <2>1 DEF Acc
<1>2. CASE usable # {}
  <2>1. d \in Docs
    <3>1. d \in usable
      BY <1>2
    <3> QED BY <3>1 DEF Parsed
  <2>2. d.in \in Int /\ d.out \in Int /\ d.delta \in Nat
    <3> HIDE DEF d
    <3> QED BY <2>1, StreamUsageAssumption DEF Doc
  <2> DEFINE in  == IF d.in > 0 THEN d.in ELSE a.in
             out == IF d.out > 0 THEN d.out ELSE a.out
  <2>3. in \in Nat /\ out \in Nat /\ a.delta + d.delta \in Nat
    <3> HIDE DEF d
    <3> QED BY <1>0, <2>2
  <2>4. \/ FlushLine(a) = [[a EXCEPT !.in = in, !.out = out] EXCEPT !.partialLine = <<>>]
        \/ FlushLine(a) = [[a EXCEPT !.delta = a.delta + d.delta] EXCEPT !.partialLine = <<>>]
    BY <1>2 DEF FlushLine, processLine, Acc
  <2> HIDE DEF in, out, d
  <2> QED BY <1>0, <2>3, <2>4 DEF Acc
<1> QED
  BY <1>1, <1>2

LEMMA FlushKeeps ==
  ASSUME NEW b \in Seq(Byte), NEW n \in 0 .. Len(b), NEW a, Counted(a, b, Closed(b, n)),
         Begun(a.partialLine, b, n)
  PROVE  Counted(FlushLine(a), b, Heard(b, n)) /\ FlushLine(a).partialLine = <<>>
<1> DEFINE p == a.partialLine
           m == n - 1
           usable == {d \in Parsed(p) : d.data}
<1>0. /\ n \in Nat /\ Len(b) \in Nat /\ n <= Len(b) /\ p \in Seq(Byte)
      /\ a \in Acc /\ a.in \in Nat /\ a.out \in Nat /\ a.delta \in Nat /\ <<>> \in Seq(Byte)
  BY DEF Counted, Acc
<1>1. \A i \in Heard(b, n) : i \in 1 .. n - 1 /\ Line(b, i) /\ (i # m => i \in Closed(b, n))
  <2> SUFFICES ASSUME NEW i \in Heard(b, n) PROVE i \in 1 .. n - 1 /\ Line(b, i) /\ (i # m => i \in Closed(b, n))
    OBVIOUS
  <2>1. i \in 1 .. n - 1 /\ Line(b, i) /\ (i + 1 = n \/ b[i + 2] = NL)
    BY DEF Heard
  <2>2. i # m => i \in 1 .. n - 2 /\ i + 1 # n
    BY <1>0, <2>1
  <2> QED BY <2>1, <2>2 DEF Closed
<1>2. \A i \in Closed(b, n) : i \in Heard(b, n) /\ i < m /\ i \in Nat
  <2> SUFFICES ASSUME NEW i \in Closed(b, n) PROVE i \in Heard(b, n) /\ i < m /\ i \in Nat
    OBVIOUS
  <2>1. i \in 1 .. n - 2 /\ Line(b, i) /\ b[i + 2] = NL
    BY DEF Closed
  <2>2. i \in 1 .. n - 1 /\ i < m /\ i \in Nat
    BY <1>0, <2>1
  <2> QED BY <2>1, <2>2 DEF Heard
<1>3. m \in 1 .. n /\ Line(b, m) => m \in Heard(b, n)
  <2>1. m \in 1 .. n => m \in 1 .. n - 1 /\ m + 1 = n
    BY <1>0
  <2> QED BY <2>1 DEF Heard
<1>4. CASE usable = {}
  <2>1. FlushLine(a) = [a EXCEPT !.partialLine = <<>>]
    BY <1>4 DEF FlushLine, processLine
  <2>2. ~(m \in 1 .. n /\ Line(b, m))
    <3> SUFFICES ASSUME m \in 1 .. n, Line(b, m) PROVE FALSE
      OBVIOUS
    <3>1. b[m].of \in Docs /\ b[m].of.data
      BY OfLine
    <3>2. p = Bytes(b[m].of)
      BY <1>0, <3>1, BegunIsDoc
    <3>3. b[m].of \in usable
      BY <3>1, <3>2 DEF Parsed
    <3> QED BY <1>4, <3>3
  <2>3. \A i \in Heard(b, n) : i # m
    <3>1. \A i \in 1 .. n - 1 : i \in 1 .. n
      BY <1>0
    <3> QED BY <1>1, <2>2, <3>1
  <2>4. Heard(b, n) = Closed(b, n)
    BY <1>1, <1>2, <2>3
  <2>5. /\ FlushLine(a).in = a.in /\ FlushLine(a).out = a.out /\ FlushLine(a).delta = a.delta
        /\ FlushLine(a).partialLine = <<>> /\ FlushLine(a) \in Acc
    BY <1>0, <2>1 DEF Acc
  <2> QED BY <2>4, <2>5 DEF Counted
<1>5. CASE usable # {}
  <2> DEFINE d == CHOOSE x \in usable : TRUE
             f == FlushLine(a)
  <2>1. d \in usable
    BY <1>5
  <2>2. d \in Docs /\ p = Bytes(d) /\ d.data
    BY <2>1 DEF Parsed
  <2>3. m \in 1 .. n /\ Line(b, m) /\ b[m].of = d
    <3> HIDE DEF d
    <3> QED BY <1>0, <2>2, BegunIsDoc
  <2>4. Heard(b, n) = Closed(b, n) \cup {m} /\ m \notin Closed(b, n) /\ m \in Nat
    <3>1. m \notin Closed(b, n) /\ m \in Nat
      BY <1>0, <1>2, <2>3
    <3> QED BY <1>1, <1>2, <1>3, <2>3, <3>1
  <2>5. f = [IF extractUsage(d)
             THEN [a EXCEPT !.in = IF d.in > 0 THEN d.in ELSE @, !.out = IF d.out > 0 THEN d.out ELSE @]
             ELSE [a EXCEPT !.delta = @ + d.delta] EXCEPT !.partialLine = <<>>]
    BY <1>5 DEF FlushLine, processLine
  <2>6. d.in \in Int /\ d.out \in Int /\ d.delta \in Nat
    <3> HIDE DEF d
    <3> QED BY <2>3, OfLine
  <2> HIDE DEF d, f, p, usable
  <2>7. /\ f.partialLine = <<>>
        /\ f.in = IF d.in > 0 THEN d.in ELSE a.in
        /\ f.out = IF d.out > 0 THEN d.out ELSE a.out
        /\ f.delta = a.delta + (IF d.in # 0 \/ d.out # 0 THEN 0 ELSE d.delta)
    <3>1. CASE d.in # 0 \/ d.out # 0
      <4>1. f = [[a EXCEPT !.in = IF d.in > 0 THEN d.in ELSE @, !.out = IF d.out > 0 THEN d.out ELSE @]
                 EXCEPT !.partialLine = <<>>]
        BY <2>5, <3>1 DEF extractUsage
      <4>2. /\ f.in = IF d.in > 0 THEN d.in ELSE a.in
            /\ f.out = IF d.out > 0 THEN d.out ELSE a.out
            /\ f.delta = a.delta /\ f.partialLine = <<>>
        BY <1>0, <4>1 DEF Acc
      <4> QED BY <1>0, <3>1, <4>2
    <3>2. CASE ~(d.in # 0 \/ d.out # 0)
      <4>1. f = [[a EXCEPT !.delta = @ + d.delta] EXCEPT !.partialLine = <<>>]
        BY <2>5, <3>2 DEF extractUsage
      <4>2. f.in = a.in /\ f.out = a.out /\ f.delta = a.delta + d.delta /\ f.partialLine = <<>>
        BY <1>0, <4>1 DEF Acc
      <4> QED BY <1>0, <3>2, <4>2
    <3> QED BY <3>1, <3>2
  <2>8. /\ Ins(b)[m] = d.in /\ Outs(b)[m] = d.out
        /\ \A i \in Closed(b, n) : Ins(b)[i] \in Int /\ Outs(b)[i] \in Int
    <3>1. \A i \in Heard(b, n) : i \in 1 .. Len(b) /\ b[i].of.in \in Int /\ b[i].of.out \in Int
      <4>1. \A i \in 1 .. n - 1 : i \in 1 .. Len(b)
        BY <1>0
      <4> QED BY <1>1, <4>1, OfLine
    <3> QED BY <2>3, <2>4, <3>1 DEF Ins, Outs
  <2>9. IsLatest(f.in, Ins(b), Heard(b, n))
    <3>1. IsLatest(a.in, Ins(b), Closed(b, n)) /\ Closed(b, n) \in SUBSET Nat
      BY <1>2 DEF Counted
    <3>2. IsLatest(IF Ins(b)[m] > 0 THEN Ins(b)[m] ELSE a.in, Ins(b), Closed(b, n) \cup {m})
      <4> HIDE DEF m
      <4> QED BY <1>0, <1>2, <2>4, <2>6, <2>8, <3>1, LatestGrows
    <3> QED BY <2>4, <2>7, <2>8, <3>2
  <2>10. IsLatest(f.out, Outs(b), Heard(b, n))
    <3>1. IsLatest(a.out, Outs(b), Closed(b, n)) /\ Closed(b, n) \in SUBSET Nat
      BY <1>2 DEF Counted
    <3>2. IsLatest(IF Outs(b)[m] > 0 THEN Outs(b)[m] ELSE a.out, Outs(b), Closed(b, n) \cup {m})
      <4> HIDE DEF m
      <4> QED BY <1>0, <1>2, <2>4, <2>6, <2>8, <3>1, LatestGrows
    <3> QED BY <2>4, <2>7, <2>8, <3>2
  <2>11. IsFiniteSet(Texts(b, Heard(b, n))) /\ f.delta = Cardinality(Texts(b, Heard(b, n)))
    <3>1. IsFiniteSet(Texts(b, Closed(b, n))) /\ a.delta = Cardinality(Texts(b, Closed(b, n)))
      BY DEF Counted
    <3>2. b[m].of.delta \in Nat /\ m \notin Closed(b, n)
      BY <2>3, <2>4, <2>6
    <3> DEFINE C == Closed(b, n)
               T == Texts(b, C \cup {m})
    <3>3. m \notin C /\ IsFiniteSet(Texts(b, C))
      BY <3>1, <3>2
    <3> HIDE DEF m, C
    <3>4. IsFiniteSet(T)
      BY <3>2, <3>3, TextGrows
    <3>5. Cardinality(T) = Cardinality(Texts(b, C)) + (IF b[m].of.in # 0 \/ b[m].of.out # 0 THEN 0 ELSE b[m].of.delta)
      BY <3>2, <3>3, TextGrows
    <3> QED BY <2>3, <2>4, <2>7, <3>1, <3>4, <3>5 DEF C
  <2> QED BY <1>0, <2>7, <2>9, <2>10, <2>11, FlushTyped DEF Counted, f
<1> QED
  BY <1>4, <1>5

-----------------------------------------------------------------------------
(* An accumulator that has been written the first n bytes of b.             *)
Streams(a, b, n) == Counted(a, b, Closed(b, n)) /\ Begun(a.partialLine, b, n)

LEMMA ByteTyped ==
  ASSUME NEW a \in Acc, NEW byte \in Byte
  PROVE  AddByte(a, byte) \in Acc
<1>1. CASE byte = NL
  BY <1>1, FlushTyped DEF AddByte
<1>2. CASE byte # NL
  <2>1. a.partialLine \in Seq(Byte)
    BY DEF Acc
  <2>2. Append(a.partialLine, byte) \in Seq(Byte)
    BY <2>1, AppendProperties
  <2>3. AddByte(a, byte) = [a EXCEPT !.partialLine = Append(a.partialLine, byte)]
    BY <1>2 DEF AddByte, Acc
  <2> QED BY <2>2, <2>3 DEF Acc
<1> QED
  BY <1>1, <1>2

LEMMA ByteKeeps ==
  ASSUME NEW b \in Seq(Byte), NEW n \in Nat, n + 1 <= Len(b), NEW a, Streams(a, b, n)
  PROVE  Streams(AddByte(a, b[n + 1]), b, n + 1)
<1>0. n \in 0 .. Len(b) /\ Len(b) \in Nat /\ a \in Acc /\ a.partialLine \in Seq(Byte)
  BY DEF Streams, Counted, Acc
<1>1. CASE b[n + 1] = NL
  <2>1. Counted(FlushLine(a), b, Heard(b, n)) /\ FlushLine(a).partialLine = <<>>
    BY <1>0, FlushKeeps DEF Streams
  <2>2. Closed(b, n + 1) = Heard(b, n)
    <3>1. (n + 1) - 2 = n - 1 /\ \A i \in 1 .. n - 1 : i + 1 = n => i + 2 = n + 1
      BY <1>0
    <3>2. \A i \in 1 .. n - 1 : i + 1 = n => b[i + 2] = NL
      BY <1>1, <3>1
    <3> QED BY <3>1, <3>2 DEF Closed, Heard
  <2>3. Begun(<<>>, b, n + 1)
    <3>1. n + 1 \in 0 .. n + 1 /\ Len(<<>>) = (n + 1) - (n + 1) /\ 1 .. (n + 1) - (n + 1) = {}
      BY <1>0
    <3> QED BY <1>1, <3>1 DEF Begun
  <2> QED BY <1>1, <2>1, <2>2, <2>3 DEF AddByte, Streams
<1>2. CASE b[n + 1] # NL
  <2> DEFINE p == a.partialLine
             q == Append(p, b[n + 1])
             f == AddByte(a, b[n + 1])
  <2>1. f = [a EXCEPT !.partialLine = q]
    BY <1>2 DEF AddByte
  <2>2. f.in = a.in /\ f.out = a.out /\ f.delta = a.delta /\ f.partialLine = q
    BY <1>0, <2>1 DEF Acc
  <2>3. f \in Acc
    <3>1. n + 1 \in 1 .. Len(b)
      BY <1>0
    <3>2. b[n + 1] \in Byte
      BY <3>1
    <3> QED BY <1>0, <3>2, ByteTyped
  <2>4. Closed(b, n + 1) = Closed(b, n)
    <3>1. (n + 1) - 2 = n - 1 /\ \A i \in 1 .. n - 1 : i + 2 # n + 1 => i \in 1 .. n - 2
      BY <1>0
    <3>2. \A i \in 1 .. n - 1 : b[i + 2] = NL => i \in 1 .. n - 2
      BY <1>2, <3>1
    <3>3. \A i \in 1 .. n - 2 : i \in 1 .. n - 1
      BY <1>0
    <3> QED BY <3>1, <3>2, <3>3 DEF Closed
  <2>5. Begun(q, b, n + 1)
    <3>1. PICK k \in 0 .. n : /\ k = 0 \/ b[k] = NL
                              /\ Len(p) = n - k
                              /\ \A i \in 1 .. n - k : p[i] = b[k + i] /\ p[i] # NL
      BY DEF Streams, Begun
    <3>2. Len(q) = Len(p) + 1 /\ q[Len(p) + 1] = b[n + 1] /\ \A i \in 1 .. Len(p) : q[i] = p[i]
      BY <1>0
    <3>3. /\ k \in 0 .. n + 1 /\ Len(p) + 1 = (n + 1) - k /\ k + ((n + 1) - k) = n + 1
          /\ \A i \in 1 .. (n + 1) - k : i \in 1 .. n - k \/ i = (n + 1) - k
      BY <1>0, <3>1
    <3> HIDE DEF p, q
    <3>4. \A i \in 1 .. (n + 1) - k : q[i] = b[k + i] /\ q[i] # NL
      <4> TAKE i \in 1 .. (n + 1) - k
      <4>1. CASE i \in 1 .. n - k
        BY <3>1, <3>2, <4>1
      <4>2. CASE i = (n + 1) - k
        BY <1>2, <3>2, <3>3, <4>2
      <4> QED BY <3>3, <4>1, <4>2
    <3>5. Len(q) = (n + 1) - k
      BY <3>2, <3>3
    <3> QED BY <3>1, <3>3, <3>4, <3>5 DEF Begun
  <2> HIDE DEF f
  <2>6. Counted(f, b, Closed(b, n + 1))
    BY <2>2, <2>3, <2>4 DEF Counted, Streams
  <2> QED BY <2>2, <2>5, <2>6 DEF Streams, f
<1> QED
  BY <1>1, <1>2

WriteStep(g, a, chunk, s) == IF s = {} THEN a ELSE AddByte(g[s \ {Max(s)}], chunk[Max(s)])
Writes(g, a, chunk) == g = [s \in SUBSET DOMAIN chunk |-> WriteStep(g, a, chunk, s)]
Written(a, chunk) == CHOOSE g : Writes(g, a, chunk)

LEMMA WriteIsFold ==
  ASSUME NEW a, NEW chunk
  PROVE  Write(a, chunk) = Written(a, chunk)[DOMAIN chunk]
BY DEF Write, FoldLeft, MapThenFoldSet, Written, Writes, WriteStep

LEMMA WrittenWrites ==
  ASSUME NEW a \in Acc, NEW chunk \in Seq(Byte)
  PROVE  Writes(Written(a, chunk), a, chunk)
<1> DEFINE F == [x \in Acc \X Byte |-> AddByte(x[1], x[2])]
<1>1. F \in [Acc \X Byte -> Acc]
  <2>1. \A x \in Acc \X Byte : AddByte(x[1], x[2]) \in Acc
    BY ByteTyped
  <2> QED BY <2>1
<1>2. \A c \in Acc, byte \in Byte : F[<<c, byte>>] = AddByte(c, byte)
  OBVIOUS
<1> DEFINE N == Len(chunk)
<1>9. N \in Nat /\ DOMAIN chunk = 1 .. N /\ \A i \in 1 .. N : chunk[i] \in Byte
  OBVIOUS
<1>3. PICK g : IsFold(g, Acc, F, a, chunk, N)
  <2> HIDE DEF F, N
  <2> QED BY <1>1, <1>9, FoldExists
<1> HIDE DEF N
<1>4. ASSUME NEW s \in SUBSET (1 .. N) PROVE g[s] = WriteStep(g, a, chunk, s)
  <2>1. CASE s = {}
    BY <1>3, <2>1 DEF WriteStep, IsFold
  <2>2. CASE s # {}
    <3>1. Max(s) \in s
      BY <1>9, <2>2, MaxIsGreatest
    <3>2. Max(s) \in 1 .. N /\ s \ {Max(s)} \in SUBSET (1 .. N)
      BY <3>1
    <3>3. chunk[Max(s)] \in Byte /\ g[s \ {Max(s)}] \in Acc
      BY <1>3, <1>9, <3>2 DEF IsFold
    <3> HIDE DEF F
    <3> QED BY <1>2, <1>3, <2>2, <3>3 DEF WriteStep, IsFold
  <2> QED BY <2>1, <2>2
<1>5. Writes(g, a, chunk)
  BY <1>3, <1>4, <1>9 DEF Writes, IsFold
<1> QED
  BY <1>5 DEF Written

LEMMA ChunkIs ==
  ASSUME NEW b \in Seq(Byte), NEW m \in Nat, NEW n \in Nat, m + n <= Len(b)
  PROVE  LET chunk == SubSeq(b, m + 1, m + n)
         IN chunk \in Seq(Byte) /\ Len(chunk) = n /\ \A j \in 1 .. n : chunk[j] = b[m + j]
<1> DEFINE chunk == SubSeq(b, m + 1, m + n)
           lo == m + 1
           hi == m + n
<1>1. \A i \in lo .. hi : b[i] \in Byte
  <2>1. Len(b) \in Nat /\ \A i \in lo .. hi : i \in 1 .. Len(b)
    OBVIOUS
  <2> QED BY <2>1
<1>2. lo \in Int /\ hi \in Int /\ (IF lo <= hi THEN hi - lo + 1 ELSE 0) = n /\ hi - lo + 1 = n
  OBVIOUS
<1>3. \A j \in 1 .. n : lo + j - 1 = m + j
  OBVIOUS
<1> HIDE DEF lo, hi
<1>4. /\ SubSeq(b, lo, hi) \in Seq(Byte)
      /\ Len(SubSeq(b, lo, hi)) = IF lo <= hi THEN hi - lo + 1 ELSE 0
      /\ \A j \in 1 .. hi - lo + 1 : SubSeq(b, lo, hi)[j] = b[lo + j - 1]
  BY <1>1, <1>2, SubSeqProperties
<1>5. chunk = SubSeq(b, lo, hi)
  BY DEF lo, hi
<1> HIDE DEF chunk
<1>6. chunk \in Seq(Byte) /\ Len(chunk) = n /\ \A j \in 1 .. n : chunk[j] = b[m + j]
  BY <1>2, <1>3, <1>4, <1>5
<1> QED
  BY <1>6 DEF chunk

(* However a stream is cut, the accumulator has what its bytes say.         *)
LEMMA WriteKeeps ==
  ASSUME NEW b \in Seq(Byte), NEW m \in Nat, NEW n \in Nat, m + n <= Len(b), NEW a, Streams(a, b, m)
  PROVE  Streams(Write(a, SubSeq(b, m + 1, m + n)), b, m + n)
<1> DEFINE chunk == SubSeq(b, m + 1, m + n)
           w(j) == Written(a, chunk)[1 .. j]
           G == {j \in Nat : j <= n => Streams(w(j), b, m + j)}
<1>1. /\ chunk \in Seq(Byte) /\ Len(chunk) = n /\ DOMAIN chunk = 1 .. n
      /\ \A j \in 1 .. n : chunk[j] = b[m + j]
  <2>1. chunk \in Seq(Byte) /\ Len(chunk) = n /\ \A j \in 1 .. n : chunk[j] = b[m + j]
    BY ChunkIs
  <2> HIDE DEF chunk
  <2> QED BY <2>1
<1>2. a \in Acc
  BY DEF Streams, Counted
<1> HIDE DEF chunk
<1>3. \A s \in SUBSET (1 .. n) : Written(a, chunk)[s] = WriteStep(Written(a, chunk), a, chunk, s)
  BY <1>1, <1>2, WrittenWrites DEF Writes
<1>4. 0 \in G
  <2>1. 1 .. 0 = {} /\ {} \in SUBSET (1 .. n) /\ m + 0 = m
    OBVIOUS
  <2>2. w(0) = a
    BY <1>3, <2>1 DEF WriteStep, IsFold
  <2> QED BY <2>1, <2>2
<1>5. ASSUME NEW j \in Nat, j \in G PROVE j + 1 \in G
  <2> SUFFICES ASSUME j + 1 <= n PROVE Streams(w(j + 1), b, m + (j + 1))
    OBVIOUS
  <2>1. Streams(w(j), b, m + j)
    BY <1>5
  <2>2. w(j + 1) = AddByte(w(j), chunk[j + 1])
    <3>1. (1 .. j + 1) \in SUBSET (1 .. n)
      OBVIOUS
    <3>2. w(j + 1) = WriteStep(Written(a, chunk), a, chunk, 1 .. j + 1)
      BY <1>3, <3>1
    <3> QED BY <3>2, MaxUpTo DEF WriteStep
  <2>3. chunk[j + 1] = b[(m + j) + 1] /\ m + (j + 1) = (m + j) + 1 /\ m + j \in Nat /\ (m + j) + 1 <= Len(b)
    <3>1. j + 1 \in 1 .. n /\ m + (j + 1) = (m + j) + 1 /\ m + j \in Nat
      OBVIOUS
    <3>2. Len(b) \in Nat /\ (m + j) + 1 <= m + n
      OBVIOUS
    <3> QED BY <1>1, <3>1, <3>2
  <2> HIDE DEF w, G
  <2> QED BY <2>1, <2>2, <2>3, ByteKeeps
<1>6. n \in G
  <2> HIDE DEF G
  <2> QED BY <1>4, <1>5, NatSet
<1>7. Streams(w(n), b, m + n)
  <2>1. n <= n
    OBVIOUS
  <2> QED BY <1>6, <2>1
<1>8. Write(a, chunk) = w(n)
  BY <1>1, WriteIsFold
<1> QED
  BY <1>7, <1>8 DEF chunk

-----------------------------------------------------------------------------
(* The charge.                                                              *)

LEMMA CostIsNat ==
  ASSUME NEW m, NEW in \in Int, NEW out \in Int, \A k \in DOMAIN table : table[k] \in Price
  PROVE  CalculateCost(m, in, out) \in Nat
<1>1. CASE normalizeModel(m) \notin DOMAIN table
  BY <1>1 DEF CalculateCost
<1>2. CASE normalizeModel(m) \in DOMAIN table
  <2> DEFINE price == table[normalizeModel(m)]
  <2>1. price.in \in Nat /\ price.out \in Nat
    BY <1>2 DEF Price
  <2>2. Positive(in) \in Nat /\ Positive(out) \in Nat
    BY DEF Positive
  <2>3. CalculateCost(m, in, out) = Positive(in) * price.in + Positive(out) * price.out
    BY <1>2 DEF CalculateCost
  <2> HIDE DEF price
  <2>4. \A x \in Nat, y \in Nat : x * y \in Nat
    OBVIOUS
  <2>5. Positive(in) * price.in \in Nat /\ Positive(out) * price.out \in Nat
    BY <2>1, <2>2, <2>4
  <2> QED BY <2>3, <2>5
<1> QED
  BY <1>1, <1>2

LEMMA PricesTyped ==
  ASSUME NEW o \in Overrides
  PROVE  \A m \in DOMAIN NewPricingTable(o) : NewPricingTable(o)[m] \in Price
<1> SUFFICES ASSUME NEW m \in DOMAIN NewPricingTable(o) PROVE NewPricingTable(o)[m] \in Price
  OBVIOUS
<1> DEFINE Named(t) == {k \in DOMAIN t : normalizeModel(k) = m}
           First(t) == CHOOSE k \in Named(t) : TRUE
<1>1. m \in {normalizeModel(k) : k \in DOMAIN BuiltIn \cup DOMAIN o}
  BY DEF NewPricingTable
<1>2. NewPricingTable(o)[m] = IF Named(o) # {} THEN o[First(o)] ELSE BuiltIn[First(BuiltIn)]
  BY <1>1 DEF NewPricingTable
<1>3. Named(o) # {} \/ Named(BuiltIn) # {}
  BY <1>1
<1>4. \A t : Named(t) # {} => First(t) \in DOMAIN t
  OBVIOUS
<1>5. (\A k \in DOMAIN o : o[k] \in Price) /\ (\A k \in DOMAIN BuiltIn : BuiltIn[k] \in Price)
  BY StreamUsageAssumption
<1> HIDE DEF Named, First
<1> QED
  BY <1>2, <1>3, <1>4, <1>5

LEMMA UsageTyped ==
  ASSUME NEW a \in Acc
  PROVE  /\ Usage(a).in \in Nat /\ Usage(a).out \in Nat
         /\ LET f == FlushLine(a)
            IN <<Usage(a).in, Usage(a).out>> =
                 CASE f.in + f.out > 0 -> <<f.in, f.out>>
                   [] f.in + f.out = 0 /\ f.delta > 0 -> <<0, IF f.delta < 4 THEN 1 ELSE f.delta \div 4>>
                   [] OTHER -> <<1, 1>>
<1> DEFINE f == FlushLine(a)
           e == estimateTokensFromBodyLength(f.delta)
<1>1. f.in \in Nat /\ f.out \in Nat /\ f.delta \in Nat
  BY FlushTyped DEF Acc
<1>2. Usage(a) = CASE f.in > 0 \/ f.out > 0 -> [in |-> f.in, out |-> f.out, est |-> "no"]
                   [] f.in = 0 /\ f.out = 0 /\ f.delta > 0 -> [in |-> 0, out |-> e, est |-> "delta"]
                   [] OTHER -> [in |-> 1, out |-> 1, est |-> "least"]
  BY DEF Usage
<1>3. e \in Nat /\ (f.delta > 0 => e = IF f.delta < 4 THEN 1 ELSE f.delta \div 4)
  <2>1. Divisor = 4
    BY DEF Divisor
  <2> HIDE DEF f
  <2>2. f.delta \div 4 \in Nat /\ (f.delta \div 4 < 1 <=> f.delta < 4)
    BY <1>1
  <2> QED BY <1>1, <2>1, <2>2 DEF estimateTokensFromBodyLength
<1> HIDE DEF f, e
<1>4. CASE f.in > 0 \/ f.out > 0
  <2>1. Usage(a) = [in |-> f.in, out |-> f.out, est |-> "no"]
    BY <1>1, <1>2, <1>4
  <2>2. f.in + f.out > 0 /\ ~(f.in + f.out = 0)
    BY <1>1, <1>4
  <2> QED BY <1>1, <2>1, <2>2 DEF f
<1>5. CASE f.in = 0 /\ f.out = 0 /\ f.delta > 0
  <2>1. Usage(a) = [in |-> 0, out |-> e, est |-> "delta"]
    BY <1>1, <1>2, <1>5
  <2>2. f.in + f.out = 0 /\ ~(f.in + f.out > 0)
    BY <1>1, <1>5
  <2> QED BY <1>1, <1>3, <1>5, <2>1, <2>2 DEF f
<1>6. CASE f.in = 0 /\ f.out = 0 /\ ~(f.delta > 0)
  <2>1. Usage(a) = [in |-> 1, out |-> 1, est |-> "least"]
    BY <1>1, <1>2, <1>6
  <2>2. f.in + f.out = 0 /\ ~(f.in + f.out > 0)
    BY <1>1, <1>6
  <2> QED BY <1>1, <1>6, <2>1, <2>2 DEF f
<1> QED
  BY <1>1, <1>4, <1>5, <1>6

(* What is found in a whole body are integers, faulty counts included.      *)
LEMMA AnswerTyped ==
  ASSUME NEW text \in Seq(Byte)
  PROVE  ExtractUsageFromResponse(text).in \in Int /\ ExtractUsageFromResponse(text).out \in Int
<1> DEFINE usable == {d \in Parsed(text) : ~d.data /\ extractUsage(d)}
           d == CHOOSE d \in usable : TRUE
           n == estimateTokensFromBodyLength(Len(text))
<1>1. CASE usable = {}
  <2>1. ExtractUsageFromResponse(text) = [in |-> n, out |-> n, est |-> "length"]
    BY <1>1 DEF ExtractUsageFromResponse
  <2>2. n \in Int
    <3>1. Len(text) \in Nat /\ Divisor = 4
      BY DEF Divisor
    <3> QED BY <3>1 DEF estimateTokensFromBodyLength
  <2> QED BY <2>1, <2>2
<1>2. CASE usable # {}
  <2>1. ExtractUsageFromResponse(text) = [in |-> d.in, out |-> d.out, est |-> "no"]
    BY <1>2 DEF ExtractUsageFromResponse
  <2>2. d \in Docs
    <3>1. d \in usable
      BY <1>2
    <3> QED BY <3>1 DEF Parsed
  <2> HIDE DEF d
  <2>3. d.in \in Int /\ d.out \in Int
    BY <2>2, StreamUsageAssumption DEF Doc
  <2> QED BY <2>1, <2>3
<1> QED
  BY <1>1, <1>2

(* What has arrived is what an accumulator has heard.                       *)
LEMMA HeardIsArrived ==
  ASSUME body \in Seq(Byte), read \in 0 .. Len(body)
  PROVE  Heard(body, read) = Arrived
<1>1. \A i \in 1 .. read - 1 : i \in 1 .. Len(body) /\ i + 1 \in 1 .. Len(body) /\ i \in Int
  OBVIOUS
<1>2. ASSUME NEW i \in 1 .. read - 1, NEW d \in Docs
      PROVE  SubSeq(body, i, i + 1) = Bytes(d) <=> Half(body, i, d, 1) /\ Half(body, i + 1, d, 2)
  <2> DEFINE s == SubSeq(body, i, i + 1)
  <2>1. s \in Seq(Byte) /\ Len(s) = 2 /\ s[1] = body[i] /\ s[2] = body[i + 1]
    <3> DEFINE m == i - 1
    <3>1. m \in Nat /\ m + 2 <= Len(body) /\ m + 1 = i /\ m + 2 = i + 1
      BY <1>1
    <3> HIDE DEF m
    <3>2. /\ SubSeq(body, m + 1, m + 2) \in Seq(Byte) /\ Len(SubSeq(body, m + 1, m + 2)) = 2
          /\ \A j \in 1 .. 2 : SubSeq(body, m + 1, m + 2)[j] = body[m + j]
      BY <3>1, ChunkIs
    <3>3. s = SubSeq(body, m + 1, m + 2)
      BY <3>1
    <3>4. 1 \in 1 .. 2 /\ 2 \in 1 .. 2
      OBVIOUS
    <3> HIDE DEF s
    <3>5. s \in Seq(Byte) /\ Len(s) = 2
      BY <3>2, <3>3
    <3>6. s[1] = body[m + 1] /\ s[2] = body[m + 2]
      BY <3>2, <3>3, <3>4
    <3> QED BY <3>1, <3>5, <3>6
  <2> HIDE DEF s
  <2>2. s = Bytes(d) <=> s[1] = [of |-> d, half |-> 1] /\ s[2] = [of |-> d, half |-> 2]
    BY <2>1 DEF Bytes
  <2> QED BY <2>1, <2>2 DEF Half, s
<1> QED
  BY <1>2 DEF Heard, Arrived, Line

(* The charge of a stream is that of its lines.                             *)
LEMMA StreamBilled ==
  ASSUME body \in Seq(Byte), read \in 0 .. Len(body), Streams(acc, body, read)
  PROVE  LET in  == Latest(Arrived, LAMBDA i : At(i).in)
             out == Latest(Arrived, LAMBDA i : At(i).out)
         IN <<Usage(acc).in, Usage(acc).out>> =
              CASE in + out > 0 -> <<in, out>>
                [] in + out = 0 /\ Deltas > 0 -> <<0, IF Deltas < 4 THEN 1 ELSE Deltas \div 4>>
                [] OTHER -> <<1, 1>>
<1> DEFINE f == FlushLine(acc)
<1>1. acc \in Acc /\ Counted(f, body, Arrived)
  BY FlushKeeps, HeardIsArrived DEF Streams, Counted
<1>2. Arrived \in SUBSET (1 .. Len(body)) /\ Len(body) \in Nat
  BY DEF Arrived
<1>3. \A i \in Arrived : body[i].of.in \in Int /\ body[i].of.out \in Int
  <2>1. \A i \in Heard(body, read) : Line(body, i)
    BY DEF Heard
  <2> QED BY <2>1, HeardIsArrived, OfLine
<1>4. \A i \in 1 .. Len(body) : Ins(body)[i] = body[i].of.in /\ Outs(body)[i] = body[i].of.out
  BY DEF Ins, Outs
<1>5. f.in = Latest(Arrived, LAMBDA i : At(i).in)
  <2> DEFINE has == {i \in Arrived : Ins(body)[i] > 0}
  <2>1. f.in = IF has = {} THEN 0 ELSE Ins(body)[Max(has)]
    BY <1>1, <1>2, <1>3, <1>4, LatestIs DEF Counted
  <2>2. has = {i \in Arrived : body[i].of.in > 0}
    BY <1>2, <1>4
  <2>3. has # {} => Max(has) \in 1 .. Len(body)
    <3>1. has \in SUBSET (1 .. Len(body))
      BY <1>2
    <3> HIDE DEF has
    <3> QED BY <1>2, <3>1, MaxIsGreatest
  <2>4. Latest(Arrived, LAMBDA i : At(i).in) =
          LET S == {i \in Arrived : body[i].of.in > 0} IN IF S = {} THEN 0 ELSE body[Max(S)].of.in
    BY DEF Latest, At
  <2> HIDE DEF has
  <2> QED BY <1>4, <2>1, <2>2, <2>3, <2>4
<1>6. f.out = Latest(Arrived, LAMBDA i : At(i).out)
  <2> DEFINE has == {i \in Arrived : Outs(body)[i] > 0}
  <2>1. f.out = IF has = {} THEN 0 ELSE Outs(body)[Max(has)]
    BY <1>1, <1>2, <1>3, <1>4, LatestIs DEF Counted
  <2>2. has = {i \in Arrived : body[i].of.out > 0}
    BY <1>2, <1>4
  <2>3. has # {} => Max(has) \in 1 .. Len(body)
    <3>1. has \in SUBSET (1 .. Len(body))
      BY <1>2
    <3> HIDE DEF has
    <3> QED BY <1>2, <3>1, MaxIsGreatest
  <2>4. Latest(Arrived, LAMBDA i : At(i).out) =
          LET S == {i \in Arrived : body[i].of.out > 0} IN IF S = {} THEN 0 ELSE body[Max(S)].of.out
    BY DEF Latest, At
  <2> HIDE DEF has
  <2> QED BY <1>4, <2>1, <2>2, <2>3, <2>4
<1>7. f.delta = Deltas
  BY <1>1 DEF Counted, Texts, Deltas, Text, Reports, At
<1> HIDE DEF f
<1>8. <<Usage(acc).in, Usage(acc).out>> =
        CASE f.in + f.out > 0 -> <<f.in, f.out>>
          [] f.in + f.out = 0 /\ f.delta > 0 -> <<0, IF f.delta < 4 THEN 1 ELSE f.delta \div 4>>
          [] OTHER -> <<1, 1>>
  BY <1>1, UsageTyped DEF f
<1> QED
  BY <1>5, <1>6, <1>7, <1>8

BodyInv ==
  /\ body \in Bodies /\ read \in 0 .. Len(body) /\ streaming \in BOOLEAN /\ asked \in Models
  /\ \A k \in DOMAIN table : table[k] \in Price
  /\ acc \in Acc
  /\ streaming => Streams(acc, body, read)
  /\ usage.in \in Int /\ usage.out \in Int /\ cost \in Nat
  /\ usage # Open /\ streaming => usage = Usage(acc)

LEMMA BodyInvInit == BodyInit => BodyInv
<1> SUFFICES ASSUME BodyInit PROVE BodyInv
  OBVIOUS
<1>1. body \in Seq(Byte) /\ Len(body) \in Nat /\ read \in 0 .. Len(body)
  <2>1. body \in Seq(Byte) /\ read = 0
    BY StreamUsageAssumption DEF BodyInit
  <2> QED BY <2>1
<1>2. acc \in Acc /\ acc.in = 0 /\ acc.out = 0 /\ acc.delta = 0 /\ acc.partialLine = <<>>
  BY DEF BodyInit, NewSSEAccumulator, Acc
<1>3. Closed(body, 0) = {}
  BY DEF Closed
<1>4. Counted(acc, body, Closed(body, 0))
  <2>1. Texts(body, {}) = {}
    BY DEF Texts
  <2>2. IsFiniteSet(Texts(body, {})) /\ Cardinality(Texts(body, {})) = 0
    BY <2>1, FS_EmptySet
  <2> QED BY <1>2, <1>3, <2>2 DEF Counted, IsLatest
<1>5. Begun(acc.partialLine, body, 0)
  <2>1. 0 \in 0 .. 0 /\ Len(<<>>) = 0 - 0 /\ 1 .. 0 - 0 = {}
    OBVIOUS
  <2> QED BY <1>2, <2>1 DEF Begun
<1>6. \A k \in DOMAIN table : table[k] \in Price
  <2>1. PICK o \in Overrides : table = NewPricingTable(o)
    BY DEF BodyInit
  <2> QED BY <2>1, PricesTyped
<1>7. Streams(acc, body, read)
  BY <1>4, <1>5 DEF Streams, BodyInit
<1> QED
  BY <1>1, <1>2, <1>6, <1>7 DEF BodyInit, BodyInv, Open

LEMMA BodyInvNext == BodyInv /\ [BodyNext]_bodyVars => BodyInv'
<1> SUFFICES ASSUME BodyInv, [BodyNext]_bodyVars PROVE BodyInv'
  OBVIOUS
<1>0. body \in Seq(Byte) /\ Len(body) \in Nat /\ read \in Nat /\ read <= Len(body) /\ acc \in Acc
  <2>1. body \in Seq(Byte)
    BY StreamUsageAssumption DEF BodyInv
  <2> QED BY <2>1 DEF BodyInv
<1>1. ASSUME NEW n \in 1 .. Len(body), Read(n) PROVE BodyInv'
  <2> DEFINE chunk == SubSeq(body, read + 1, read + n)
  <2>1. /\ usage = Open /\ n \in Nat /\ read + n <= Len(body) /\ read' = read + n
        /\ acc' = IF streaming THEN Write(acc, chunk) ELSE [acc EXCEPT !.partialLine = @ \o chunk]
        /\ UNCHANGED <<body, streaming, table, asked, usage, cost>>
    BY <1>0, <1>1 DEF Read
  <2>2. read' \in 0 .. Len(body)
    BY <1>0, <2>1
  <2>3. CASE streaming
    <3>1. Streams(Write(acc, chunk), body, read + n)
      BY <1>0, <2>1, <2>3, WriteKeeps DEF BodyInv
    <3>2. Streams(acc', body', read')
      BY <2>1, <2>3, <3>1
    <3>3. acc' \in Acc
      BY <3>2 DEF Streams, Counted
    <3> QED BY <2>1, <2>2, <3>2, <3>3 DEF BodyInv
  <2>4. CASE ~streaming
    <3>1. chunk \in Seq(Byte)
      BY <1>0, <2>1, ChunkIs
    <3>2. acc.partialLine \in Seq(Byte)
      BY <1>0 DEF Acc
    <3>3. acc.partialLine \o chunk \in Seq(Byte)
      <4> HIDE DEF chunk
      <4> QED BY <3>1, <3>2
    <3>4. acc' = [acc EXCEPT !.partialLine = acc.partialLine \o chunk]
      BY <2>1, <2>4
    <3> HIDE DEF chunk
    <3>5. acc' \in Acc
      BY <1>0, <3>3, <3>4 DEF Acc
    <3> QED BY <2>1, <2>2, <2>4, <3>5 DEF BodyInv
  <2> QED BY <2>3, <2>4 DEF BodyInv
<1>2. CASE FinalizeBody
  <2> DEFINE found == IF streaming THEN Usage(acc) ELSE ExtractUsageFromResponse(acc.partialLine)
  <2>1. /\ usage' = found /\ cost' = CalculateCost(asked, found.in, found.out)
        /\ UNCHANGED <<body, read, streaming, acc, table, asked>>
    BY <1>2 DEF FinalizeBody
  <2>2. found.in \in Int /\ found.out \in Int
    <3>0. Usage(acc).in \in Nat /\ Usage(acc).out \in Nat
      BY <1>0, UsageTyped
    <3>1. Usage(acc).in \in Int /\ Usage(acc).out \in Int
      BY <3>0
    <3>2. acc.partialLine \in Seq(Byte)
      BY <1>0 DEF Acc
    <3> QED BY <3>1, <3>2, AnswerTyped
  <2>3. streaming => found = Usage(acc)
    OBVIOUS
  <2> HIDE DEF found
  <2>4. cost' \in Nat
    BY <2>1, <2>2, CostIsNat DEF BodyInv
  <2>5. /\ UNCHANGED <<body, read, streaming, acc, table, asked>>
        /\ usage'.in \in Int /\ usage'.out \in Int /\ (streaming => usage' = Usage(acc))
    BY <2>1, <2>2, <2>3
  <2>6. Usage(acc)' = Usage(acc) /\ Streams(acc, body, read)' = Streams(acc, body, read)
    BY <2>5
  <2> QED BY <2>4, <2>5, <2>6 DEF BodyInv
<1>3. CASE UNCHANGED bodyVars
  BY <1>3 DEF BodyInv, bodyVars
<1> QED
  BY <1>1, <1>2, <1>3 DEF BodyNext

(* Wherever the network cut a stream into chunks, and wherever it broke     *)
(* off, streaming.go:25-56 charges it for the lines that arrived whole, and *)
(* no response, with whatever counts, earns its agent money.                *)
THEOREM ChargedAsReceived == BodySpec => []BilledAsReceived
<1>1. BodyInv => BilledAsReceived
  <2> SUFFICES ASSUME BodyInv PROVE BilledAsReceived
    OBVIOUS
  <2>1. body \in Seq(Byte)
    BY StreamUsageAssumption DEF BodyInv
  <2>2. BodyTypeOK /\ cost >= 0
    BY <2>1 DEF BodyInv, BodyTypeOK, Acc
  <2>3. ASSUME usage # Open, streaming
        PROVE  LET in  == Latest(Arrived, LAMBDA i : At(i).in)
                   out == Latest(Arrived, LAMBDA i : At(i).out)
               IN <<usage.in, usage.out>> =
                    CASE in + out > 0 -> <<in, out>>
                      [] in + out = 0 /\ Deltas > 0 -> <<0, IF Deltas < 4 THEN 1 ELSE Deltas \div 4>>
                      [] OTHER -> <<1, 1>>
    <3>1. usage = Usage(acc) /\ Streams(acc, body, read) /\ read \in 0 .. Len(body)
      BY <2>3 DEF BodyInv
    <3> QED BY <2>1, <3>1, StreamBilled
  <2> QED BY <2>2, <2>3 DEF BilledAsReceived
<1> QED
  BY <1>1, BodyInvInit, BodyInvNext, PTL DEF BodySpec

=============================================================================
