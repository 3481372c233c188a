--------------------------- MODULE AlertDispatcher ----------------------------
(***************************************************************************)
(* The alert dispatcher (src/internal/alert/dispatcher.go): Dispatch in    *)
(* the goroutines of the callers, the bounded queue, the workers with      *)
(* their retries, and Drain followed by Close at shutdown                  *)
(* (src/cmd/oberwatch/main.go:671-679).                                    *)
(*                                                                         *)
(* A step is an operation on the mutex, on the channel, or on the counter  *)
(* Drain polls; the other counters are only read by Stats and are left     *)
(* out.  Payload encoding cannot fail for the alerts the program builds,   *)
(* and delays have no length here.                                         *)
(***************************************************************************)
EXTENDS Naturals, Sequences, FiniteSets

CONSTANTS
  Events,        \* alerts; each is dispatched by one call
  Keys,          \* threshold keys: agent, percentage and period start
  KeyOf,         \* the key of each alert, or None for the other types
  Destinations,  \* how many destinations are configured
  Workers,       \* the delivery goroutines
  QueueSize,     \* capacity of the channel
  MaxRetries     \* retries after the first attempt

None == "none"

ASSUME ConstantsAssumption ==
  /\ None \notin Keys
  /\ KeyOf \in [Events -> Keys \cup {None}]
  /\ Destinations \in Nat
  /\ IsFiniteSet(Events) /\ IsFiniteSet(Workers)
  /\ QueueSize \in Nat \ {0}
  /\ MaxRetries \in Nat

VARIABLES
  pc,         \* where the Dispatch call of each alert stands
  dest,       \* the destination it is at
  dedup,      \* thresholdDedup
  queue,      \* the channel
  stage,      \* what each worker does
  slot,       \* the job it delivers
  attempt,    \* attempts it has ended
  pending,    \* the counter Drain polls
  shut,       \* how far the shutdown has got
  done        \* history: how each job ended

caller == <<pc, dest, dedup>>
worker == <<stage, slot, attempt>>
vars   == <<caller, queue, worker, pending, shut, done>>

Jobs == Events \X (1 .. Destinations)
NoJob == <<None, 0>>
Closed == shut \in {"closed", "cancelled", "returned"}
Cancelled == shut \in {"cancelled", "returned"}
Busy == {w \in Workers : stage[w] \in {"sending", "waiting"}}
Queued == {queue[i] : i \in 1 .. Len(queue)}

Init ==
  /\ pc = [e \in Events |-> "new"]
  /\ dest = [e \in Events |-> 1]
  /\ dedup = {}
  /\ queue = <<>>
  /\ stage = [w \in Workers |-> "idle"]
  /\ slot = [w \in Workers |-> NoJob]
  /\ attempt = [w \in Workers |-> 0]
  /\ pending = 0
  /\ shut = "serving"
  /\ done = [j \in Jobs |-> None]

-----------------------------------------------------------------------------
(* Dispatch.                                                                *)

Suppressed(e) == KeyOf[e] \in dedup

(* Mutant: the key is looked up and never marked.                           *)
StartUnmarked(e) ==
  /\ pc[e] = "new"
  /\ pc' = [pc EXCEPT ![e] = IF Destinations = 0 \/ Suppressed(e) THEN "done" ELSE "check"]
  /\ UNCHANGED <<dest, dedup, queue, worker, pending, shut, done>>

(* Dispatch up to its loop: shouldSuppress looks the key up and marks it.   *)
Start(e) ==
  /\ pc[e] = "new"
  /\ pc' = [pc EXCEPT ![e] = IF Destinations = 0 \/ Suppressed(e) THEN "done" ELSE "check"]
  /\ dedup' = IF Destinations = 0 \/ KeyOf[e] = None THEN dedup ELSE dedup \cup {KeyOf[e]}
  /\ UNCHANGED <<dest, queue, worker, pending, shut, done>>

(* The loop moves to the next destination or ends.                          *)
NextDest(e) ==
  IF dest[e] = Destinations
  THEN pc' = [pc EXCEPT ![e] = "done"] /\ UNCHANGED dest
  ELSE pc' = [pc EXCEPT ![e] = "check"] /\ dest' = [dest EXCEPT ![e] = @ + 1]

Job(e) == <<e, dest[e]>>

Dropped(e) ==
  /\ done' = [done EXCEPT ![Job(e)] = "dropped"]
  /\ NextDest(e)

(* enqueue reads the flag and forgets the lock.                             *)
CheckOpen(e) ==
  /\ pc[e] = "check" /\ ~Closed
  /\ pc' = [pc EXCEPT ![e] = "announce"]
  /\ UNCHANGED <<dest, dedup, queue, worker, pending, shut, done>>

CheckClosed(e) ==
  /\ pc[e] = "check" /\ Closed
  /\ Dropped(e)
  /\ UNCHANGED <<dedup, queue, worker, pending, shut>>

(* Mutant: the counter is raised only once the job is in the channel.       *)
AnnounceLate(e) ==
  /\ pc[e] = "announce"
  /\ pc' = [pc EXCEPT ![e] = "put"]
  /\ UNCHANGED <<dest, dedup, queue, worker, pending, shut, done>>

Announce(e) ==
  /\ pc[e] = "announce"
  /\ pending' = pending + 1
  /\ pc' = [pc EXCEPT ![e] = "put"]
  /\ UNCHANGED <<dest, dedup, queue, worker, shut, done>>

Put(e) ==
  /\ pc[e] = "put" /\ Len(queue) < QueueSize
  /\ queue' = Append(queue, Job(e))
  /\ NextDest(e)
  /\ UNCHANGED <<dedup, worker, pending, shut, done>>

PutFull(e) ==
  /\ pc[e] = "put" /\ Len(queue) = QueueSize
  /\ pending' = pending - 1
  /\ Dropped(e)
  /\ UNCHANGED <<dedup, queue, worker, shut>>

-----------------------------------------------------------------------------
(* The workers.                                                             *)

Receive(w) ==
  /\ stage[w] = "idle" /\ queue # <<>>
  /\ slot' = [slot EXCEPT ![w] = Head(queue)]
  /\ queue' = Tail(queue)
  /\ attempt' = [attempt EXCEPT ![w] = 0]
  /\ stage' = [stage EXCEPT ![w] = "sending"]
  /\ UNCHANGED <<caller, pending, shut, done>>

(* Mutant: only a delivery looks at the context, an idle worker does not.   *)
StopMidway(w) ==
  /\ stage[w] = "sending" /\ Cancelled
  /\ stage' = [stage EXCEPT ![w] = "stopped"]
  /\ UNCHANGED <<caller, queue, slot, attempt, pending, shut, done>>

(* The select of worker may see the cancelled context first.                *)
Stop(w) ==
  /\ stage[w] = "idle" /\ Cancelled
  /\ stage' = [stage EXCEPT ![w] = "stopped"]
  /\ UNCHANGED <<caller, queue, slot, attempt, pending, shut, done>>

(* deliver returns and worker lowers the counter.                           *)
Ends(w, how) ==
  /\ done' = [done EXCEPT ![slot[w]] = how]
  /\ pending' = pending - 1
  /\ slot' = [slot EXCEPT ![w] = NoJob]
  /\ stage' = [stage EXCEPT ![w] = "idle"]
  /\ UNCHANGED <<caller, queue, shut>>

(* Mutant: the return after a success is missing, the loop goes on.         *)
SucceedGoesOn(w) ==
  /\ stage[w] = "sending" /\ attempt[w] < MaxRetries
  /\ done' = [done EXCEPT ![slot[w]] = "delivered"]
  /\ attempt' = [attempt EXCEPT ![w] = @ + 1]
  /\ UNCHANGED <<caller, queue, stage, slot, pending, shut>>

Succeed(w) ==
  /\ stage[w] = "sending"
  /\ Ends(w, "delivered")
  /\ UNCHANGED <<attempt>>

(* sendOnce fails for good: a permanent answer, a cancelled context, or the *)
(* last attempt.                                                            *)
GiveUp(w) ==
  /\ stage[w] = "sending"
  /\ Ends(w, "failed")
  /\ UNCHANGED <<attempt>>

(* sendOnce fails with a retryable error and a retry is left.               *)
Fail(w) ==
  /\ stage[w] = "sending" /\ ~Cancelled
  /\ attempt[w] < MaxRetries
  /\ attempt' = [attempt EXCEPT ![w] = @ + 1]
  /\ stage' = [stage EXCEPT ![w] = "waiting"]
  /\ UNCHANGED <<caller, queue, slot, pending, shut, done>>

(* Mutant: wait listens to the context and not to the clock.                *)
RetryNever(w) ==
  /\ stage[w] = "waiting" /\ Cancelled
  /\ stage' = [stage EXCEPT ![w] = "sending"]
  /\ UNCHANGED <<caller, queue, slot, attempt, pending, shut, done>>

(* wait: the delay is over, or the context is cancelled.                    *)
Retry(w) ==
  /\ stage[w] = "waiting"
  /\ stage' = [stage EXCEPT ![w] = "sending"]
  /\ UNCHANGED <<caller, queue, slot, attempt, pending, shut, done>>

CancelRetry(w) ==
  /\ stage[w] = "waiting" /\ Cancelled
  /\ Ends(w, "failed")
  /\ UNCHANGED <<attempt>>

-----------------------------------------------------------------------------
(* Shutdown: Drain with a deadline, then Close.                             *)

Shutdown(from, to) ==
  /\ shut = from /\ shut' = to
  /\ UNCHANGED <<caller, queue, worker, pending, done>>

StartDrain == Shutdown("serving", "draining")
DrainDone == pending = 0 /\ Shutdown("draining", "drained")
DrainTimeout == Shutdown("draining", "overdue")
SetClosed == Shutdown("drained", "closed") \/ Shutdown("overdue", "closed")
Cancel == Shutdown("closed", "cancelled")

CloseReturns ==
  /\ \A w \in Workers : stage[w] = "stopped"
  /\ Shutdown("cancelled", "returned")

-----------------------------------------------------------------------------

Dispatch(e) == Start(e) \/ CheckOpen(e) \/ CheckClosed(e) \/ Announce(e) \/ Put(e) \/ PutFull(e)
Deliver(w)  == Succeed(w) \/ GiveUp(w) \/ Fail(w) \/ Retry(w) \/ CancelRetry(w)
Work(w)     == Receive(w) \/ Stop(w) \/ Deliver(w)
Close       == SetClosed \/ Cancel \/ CloseReturns

Next ==
  \/ \E e \in Events : Dispatch(e)
  \/ \E w \in Workers : Work(w)
  \/ StartDrain \/ DrainDone \/ DrainTimeout \/ Close

Spec == Init /\ [][Next]_vars

(* The workers run; every attempt ends within its timeout and every delay   *)
(* passes.  select chooses at random among the channels that are ready, so  *)
(* a worker that finds the context cancelled again and again stops.  Close, *)
(* once called, goes on.  Nothing makes a caller or the shutdown begin.     *)
Fairness ==
  /\ \A w \in Workers : WF_vars(Receive(w) \/ Stop(w)) /\ WF_vars(Deliver(w)) /\ SF_vars(Stop(w))
  /\ WF_vars(Close)

FairSpec == Spec /\ Fairness

-----------------------------------------------------------------------------

(* Types; a worker has a job exactly while it delivers one.                 *)
TypeOK ==
  /\ pc \in [Events -> {"new", "check", "announce", "put", "done"}]
  /\ dest \in [Events -> Nat]
  /\ dedup \subseteq Keys
  /\ queue \in Seq(Jobs) /\ Len(queue) <= QueueSize
  /\ stage \in [Workers -> {"idle", "sending", "waiting", "stopped"}]
  /\ slot \in [Workers -> Jobs \cup {NoJob}]
  /\ attempt \in [Workers -> 0 .. MaxRetries]
  /\ pending \in Nat
  /\ shut \in {"serving", "draining", "drained", "overdue", "closed", "cancelled", "returned"}
  /\ done \in [Jobs -> {None, "delivered", "failed", "dropped"}]
  /\ \A w \in Workers : slot[w] = NoJob <=> w \notin Busy
  /\ \A e \in Events : pc[e] \in {"check", "announce", "put"} => dest[e] \in 1 .. Destinations

(* When Drain returns without an error nothing is queued and nothing is     *)
(* being delivered (dispatcher.go:253).                                     *)
DrainIsComplete == [][shut' = "drained" /\ shut # "drained" => queue = <<>> /\ Busy = {}]_vars

(* Where a delivery stands, as the callers of Dispatch may think of it.     *)
Fate(j) ==
  IF done[j] # None THEN done[j]
  ELSE IF j \in Queued \/ \E w \in Workers : slot[w] = j THEN "queued" ELSE "none"

(* Whichever callers report a threshold, and whenever, one report at most   *)
(* reaches a destination in a period (dispatcher.go:499-520).               *)
ThresholdSentOnce ==
  /\ TypeOK
  /\ \A i, j \in Jobs :
       i # j /\ i[2] = j[2] /\ KeyOf[i[1]] # None /\ KeyOf[i[1]] = KeyOf[j[1]]
         => "none" \in {Fate(i), Fate(j)}

(* Every delivery is taken or dropped at once and ends at most once.        *)
Mailbox == INSTANCE AlertMailbox WITH fate <- [j \in Jobs |-> Fate(j)]
OneFate == Mailbox!Spec

(* A queued delivery ends unless the dispatcher is closed.                  *)
QueuedEnds == \A j \in Jobs : j \in Queued ~> (done[j] # None \/ Closed)

(* Close returns, whatever is queued, being sent or waiting for a retry.    *)
CloseTerminates == (shut = "closed") ~> (shut = "returned")

=============================================================================
