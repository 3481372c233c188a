------------------------- MODULE AlertDispatcherProofs -------------------------
(***************************************************************************)
(* Theorems about AlertDispatcher, for any number of alerts, destinations, *)
(* workers and retries and any size of the channel: a threshold is sent    *)
(* once, a drain is complete, and every delivery behaves as AlertMailbox   *)
(* says.                                                                   *)
(***************************************************************************)
EXTENDS AlertDispatcher, FiniteSetTheorems, SequenceTheorems, TLAPS

Calling == {"check", "announce", "put"}
Working == {"sending", "waiting"}

(* Lemmas about the channel and the jobs.                                   *)

LEMMA NoJobIsNone == NoJob \notin Jobs
BY DEF NoJob, Jobs

LEMMA QueuedPut ==
  ASSUME NEW S, queue \in Seq(S), NEW j \in S, queue' = Append(queue, j)
  PROVE  /\ queue' \in Seq(S) /\ Len(queue') = Len(queue) + 1
         /\ Queued' = Queued \cup {j}
<1>1. /\ Len(queue) \in Nat /\ queue' \in Seq(S) /\ Len(queue') = Len(queue) + 1
      /\ queue'[Len(queue) + 1] = j /\ \A i \in 1 .. Len(queue) : queue'[i] = queue[i]
  BY AppendProperties
<1>2. 1 .. Len(queue) + 1 = (1 .. Len(queue)) \cup {Len(queue) + 1}
  BY <1>1
<1> QED
  BY <1>1, <1>2 DEF Queued

(* The channel holds no job twice.                                          *)
Distinct == \A i, k \in 1 .. Len(queue) : queue[i] = queue[k] => i = k

LEMMA QueuedReceive ==
  ASSUME NEW S, queue \in Seq(S), queue # <<>>, queue' = Tail(queue), Distinct
  PROVE  /\ queue' \in Seq(S) /\ Len(queue') = Len(queue) - 1
         /\ Head(queue) \in Queued /\ Head(queue) \in S
         /\ Queued' = Queued \ {Head(queue)}
         /\ Distinct'
<1>1. /\ Len(queue) \in Nat \ {0} /\ Head(queue) = queue[1] /\ Head(queue) \in S
      /\ queue' \in Seq(S) /\ Len(queue') = Len(queue) - 1
      /\ \A i \in 1 .. Len(queue) - 1 : queue'[i] = queue[i + 1]
  BY HeadTailProperties, EmptySeq
<1>2. Distinct'
  <2> SUFFICES ASSUME NEW i \in 1 .. Len(queue'), NEW k \in 1 .. Len(queue'), queue'[i] = queue'[k]
               PROVE  i = k
    BY DEF Distinct
  <2>1. i + 1 \in 1 .. Len(queue) /\ k + 1 \in 1 .. Len(queue) /\ queue[i + 1] = queue[k + 1]
    BY <1>1
  <2> QED BY <2>1 DEF Distinct
<1>3. ASSUME NEW j \in Queued' PROVE j \in Queued \ {Head(queue)}
  <2>1. PICK i \in 1 .. Len(queue') : queue'[i] = j
    BY DEF Queued
  <2>2. i + 1 \in 1 .. Len(queue) /\ queue[i + 1] = j /\ i + 1 # 1 /\ 1 \in 1 .. Len(queue)
    BY <1>1, <2>1
  <2> QED BY <1>1, <2>2 DEF Queued, Distinct
<1>4. ASSUME NEW j \in Queued \ {Head(queue)} PROVE j \in Queued'
  <2>1. PICK i \in 1 .. Len(queue) : queue[i] = j
    BY DEF Queued
  <2>2. i # 1 /\ i - 1 \in 1 .. Len(queue') /\ queue'[i - 1] = j
    BY <1>1, <1>4, <2>1
  <2> QED BY <2>2 DEF Queued
<1>5. Head(queue) \in Queued
  BY <1>1 DEF Queued
<1> QED
  BY <1>1, <1>2, <1>3, <1>4, <1>5

-----------------------------------------------------------------------------
(* Types.                                                                   *)

(* TypeOK without the counter, whose type follows from what it counts, and  *)
(* with the destination a call will begin at.                               *)
Shape ==
  /\ pc \in [Events -> {"new", "done"} \cup Calling]
  /\ dest \in [Events -> Nat]
  /\ dedup \subseteq Keys
  /\ queue \in Seq(Jobs) /\ Len(queue) <= QueueSize
  /\ stage \in [Workers -> {"idle", "stopped"} \cup Working]
  /\ slot \in [Workers -> Jobs \cup {NoJob}]
  /\ attempt \in [Workers -> 0 .. MaxRetries]
  /\ shut \in {"serving", "draining", "drained", "overdue", "closed", "cancelled", "returned"}
  /\ done \in [Jobs -> {None, "delivered", "failed", "dropped"}]
  /\ \A w \in Workers : slot[w] \in Jobs <=> stage[w] \in Working
  /\ \A e \in Events : pc[e] \in Calling => dest[e] \in 1 .. Destinations
  /\ \A e \in Events : pc[e] = "new" => dest[e] = 1

LEMMA ShapeInit == Init => Shape
<1> SUFFICES ASSUME Init PROVE Shape
  OBVIOUS
<1>1. queue \in Seq(Jobs) /\ Len(queue) <= QueueSize
  BY ConstantsAssumption, EmptySeq DEF Init
<1>2. MaxRetries \in Nat
  BY ConstantsAssumption
<1> QED
  BY <1>1, <1>2, NoJobIsNone DEF Init, Shape, Calling, Working

LEMMA NextDestKeepsShape ==
  ASSUME Shape, NEW e \in Events, pc[e] \in Calling, NextDest(e)
  PROVE  /\ pc' \in [Events -> {"new", "done"} \cup Calling] /\ dest' \in [Events -> Nat]
         /\ \A f \in Events : pc'[f] \in Calling => dest'[f] \in 1 .. Destinations
         /\ \A f \in Events : pc'[f] = "new" => dest'[f] = 1
<1>1. Destinations \in Nat /\ dest[e] \in 1 .. Destinations
  BY ConstantsAssumption DEF Shape
<1>2. CASE dest[e] = Destinations
  BY <1>1, <1>2 DEF NextDest, Shape, Calling
<1>3. CASE dest[e] # Destinations
  <2>1. dest[e] + 1 \in 1 .. Destinations
    BY <1>1, <1>3
  <2>2. pc' = [pc EXCEPT ![e] = "check"] /\ dest' = [dest EXCEPT ![e] = dest[e] + 1]
    BY <1>3 DEF NextDest
  <2> QED BY <2>1, <2>2 DEF Shape, Calling
<1> QED
  BY <1>2, <1>3

LEMMA CallKeepsShape ==
  ASSUME Shape, NEW e \in Events, Dispatch(e)
  PROVE  Shape'
<1> USE DEF Shape, Calling
<1>1. Destinations \in Nat /\ KeyOf[e] \in Keys \cup {None} /\ QueueSize \in Nat
  BY ConstantsAssumption
<1>2. pc[e] \in Calling => Job(e) \in Jobs
  BY DEF Job, Jobs
<1>3. CASE Start(e)
  <2>1. dedup' \subseteq Keys
    BY <1>1, <1>3 DEF Start
  <2>2. pc' \in [Events -> {"new", "done"} \cup Calling]
    BY <1>3 DEF Start
  <2>3. \A f \in Events : pc'[f] \in Calling => dest[f] \in 1 .. Destinations
    BY <1>1, <1>3 DEF Start
  <2>4. \A f \in Events : pc'[f] = "new" => dest[f] = 1
    BY <1>3 DEF Start
  <2> QED BY <1>3, <2>1, <2>2, <2>3, <2>4 DEF Start, worker
<1>4. CASE CheckOpen(e)
  BY <1>4 DEF CheckOpen, worker
<1>5. CASE CheckClosed(e)
  <2>1. pc[e] \in Calling /\ NextDest(e) /\ done' = [done EXCEPT ![Job(e)] = "dropped"]
    BY <1>5 DEF CheckClosed, Dropped
  <2> QED BY <1>2, <1>5, <2>1, NextDestKeepsShape DEF CheckClosed, worker
<1>6. CASE Announce(e)
  BY <1>6 DEF Announce, worker
<1>7. CASE Put(e)
  <2>1. queue' = Append(queue, Job(e)) /\ Len(queue) < QueueSize /\ Job(e) \in Jobs
    BY <1>2, <1>7 DEF Put
  <2>2. queue' \in Seq(Jobs) /\ Len(queue') <= QueueSize
    BY <1>1, <2>1, QueuedPut
  <2> QED BY <1>7, <2>2, NextDestKeepsShape DEF Put, worker
<1>8. CASE PutFull(e)
  <2>1. pc[e] \in Calling /\ NextDest(e) /\ done' = [done EXCEPT ![Job(e)] = "dropped"]
    BY <1>8 DEF PutFull, Dropped
  <2> QED BY <1>2, <1>8, <2>1, NextDestKeepsShape DEF PutFull, worker
<1> QED
  BY <1>3, <1>4, <1>5, <1>6, <1>7, <1>8 DEF Dispatch

LEMMA WorkKeepsShape ==
  ASSUME Shape, Distinct, NEW w \in Workers, Work(w)
  PROVE  Shape'
<1> USE DEF Shape, Working
<1>1. CASE Receive(w)
  <2>1. /\ queue' \in Seq(Jobs) /\ Len(queue') <= QueueSize /\ Head(queue) \in Jobs
    BY <1>1, ConstantsAssumption, HeadTailProperties, EmptySeq DEF Receive
  <2>2. MaxRetries \in Nat
    BY ConstantsAssumption
  <2> QED BY <1>1, <2>1, <2>2, NoJobIsNone DEF Receive, caller
<1>2. CASE Stop(w)
  BY <1>2 DEF Stop, caller
<1>3. CASE Succeed(w)
  BY <1>3, NoJobIsNone DEF Succeed, Ends, caller
<1>4. CASE GiveUp(w)
  BY <1>4, NoJobIsNone DEF GiveUp, Ends, caller
<1>5. CASE Fail(w)
  <2>1. attempt' \in [Workers -> 0 .. MaxRetries]
    BY <1>5, ConstantsAssumption DEF Fail
  <2> QED BY <1>5, <2>1 DEF Fail, caller
<1>6. CASE Retry(w)
  BY <1>6 DEF Retry, caller
<1>7. CASE CancelRetry(w)
  BY <1>7, NoJobIsNone DEF CancelRetry, Ends, caller
<1> QED
  BY <1>1, <1>2, <1>3, <1>4, <1>5, <1>6, <1>7 DEF Work, Deliver

Halt == StartDrain \/ DrainDone \/ DrainTimeout \/ Close

LEMMA HaltKeepsShape ==
  ASSUME Shape, Halt
  PROVE  Shape' /\ UNCHANGED <<caller, queue, worker, pending, done>>
BY DEF Shape, Halt, StartDrain, DrainDone, DrainTimeout, Close, SetClosed, Cancel, CloseReturns, Shutdown,
       caller, worker

-----------------------------------------------------------------------------
(* Where a delivery stands.                                                 *)

(* The call of e has not come to its destination d yet, or has not done     *)
(* with it.                                                                 *)
Ahead(e, d) == pc[e] = "new" \/ (pc[e] \in Calling /\ d >= dest[e])

(* A delivery is at one place: ahead of its caller, once in the channel,    *)
(* with one worker, or ended.                                               *)
JobsInv ==
  /\ Distinct
  /\ \A w \in Workers : stage[w] \in Working => slot[w] \notin Queued /\ done[slot[w]] = None
  /\ \A v, w \in Workers : stage[v] \in Working /\ stage[w] \in Working /\ slot[v] = slot[w] => v = w
  /\ \A j \in Queued : done[j] = None
  /\ \A e \in Events, d \in 1 .. Destinations : Ahead(e, d) => Fate(<<e, d>>) = "none"

LEMMA UntouchedIsNone ==
  ASSUME Shape, NEW j \in Jobs
  PROVE  /\ Fate(j) = "none" <=> (done[j] = None /\ j \notin Queued /\ \A w \in Workers : slot[w] # j)
         /\ Fate(j) \in {"none", "queued", "delivered", "failed", "dropped"}
BY DEF Fate, Shape, None

Stay == \A i \in Jobs : Fate(i)' = Fate(i)
Moves(j, f) == \A i \in Jobs : Fate(i)' = IF i = j THEN f ELSE Fate(i)

LEMMA Unmoved == ASSUME UNCHANGED <<queue, slot, done>> PROVE Stay
BY DEF Stay, Fate, Queued

(* A call takes or drops the delivery it is at, or leaves all as they are.  *)
LEMMA CallMoves ==
  ASSUME Shape, JobsInv, NEW e \in Events, Dispatch(e)
  PROVE  \/ Stay /\ UNCHANGED <<queue, slot, done>> /\ (Start(e) \/ CheckOpen(e) \/ Announce(e))
         \/ /\ Job(e) \in Jobs /\ Fate(Job(e)) = "none" /\ pc[e] \in Calling /\ NextDest(e)
            /\ UNCHANGED <<slot, stage, dedup>>
            /\ \/ Moves(Job(e), "queued") /\ queue' = Append(queue, Job(e)) /\ UNCHANGED done
               \/ Moves(Job(e), "dropped") /\ done' = [done EXCEPT ![Job(e)] = "dropped"] /\ UNCHANGED queue
<1>1. CASE Start(e) \/ CheckOpen(e) \/ Announce(e)
  <2>1. UNCHANGED <<queue, slot, done>>
    BY <1>1 DEF Start, CheckOpen, Announce, worker
  <2> QED BY <1>1, <2>1, Unmoved
<1>2. ASSUME pc[e] \in Calling PROVE Job(e) \in Jobs /\ Fate(Job(e)) = "none"
  <2>1. dest[e] \in 1 .. Destinations
    BY <1>2 DEF Shape
  <2>2. Ahead(e, dest[e])
    BY <1>2, <2>1, ConstantsAssumption DEF Ahead
  <2> QED BY <2>1, <2>2 DEF JobsInv, Job, Jobs
<1>3. ASSUME Put(e) PROVE /\ pc[e] \in Calling /\ NextDest(e) /\ UNCHANGED <<slot, stage, dedup, done>>
                          /\ queue' = Append(queue, Job(e)) /\ Moves(Job(e), "queued")
  <2>1. /\ pc[e] \in Calling /\ NextDest(e) /\ UNCHANGED <<slot, stage, dedup, done>>
        /\ queue' = Append(queue, Job(e))
    BY <1>3 DEF Put, worker, Calling
  <2>2. Queued' = Queued \cup {Job(e)}
    BY <1>2, <2>1, QueuedPut DEF Shape
  <2>3. done[Job(e)] = None
    BY <1>2, <2>1, UntouchedIsNone
  <2> QED BY <1>2, <2>1, <2>2, <2>3 DEF Moves, Fate
<1>4. ASSUME CheckClosed(e) \/ PutFull(e)
      PROVE  /\ pc[e] \in Calling /\ NextDest(e) /\ UNCHANGED <<slot, stage, dedup, queue>>
             /\ done' = [done EXCEPT ![Job(e)] = "dropped"] /\ Moves(Job(e), "dropped")
  <2>1. /\ pc[e] \in Calling /\ NextDest(e) /\ UNCHANGED <<slot, stage, dedup, queue>>
        /\ done' = [done EXCEPT ![Job(e)] = "dropped"]
    BY <1>4 DEF CheckClosed, PutFull, Dropped, worker, Calling
  <2>2. Queued' = Queued
    BY <2>1 DEF Queued
  <2> QED BY <1>2, <2>1, <2>2 DEF Moves, Fate, Shape, None
<1> QED
  BY <1>1, <1>2, <1>3, <1>4 DEF Dispatch

(* A worker ends the delivery it has, or leaves all as they are.            *)
LEMMA WorkMoves ==
  ASSUME Shape, JobsInv, NEW w \in Workers, Work(w)
  PROVE  \/ Stay
         \/ /\ slot[w] \in Jobs /\ Fate(slot[w]) = "queued"
            /\ Moves(slot[w], "delivered") \/ Moves(slot[w], "failed")
<1>1. CASE Receive(w)
  <2>1. /\ queue \in Seq(Jobs) /\ queue # <<>> /\ queue' = Tail(queue) /\ UNCHANGED done
        /\ slot' = [slot EXCEPT ![w] = Head(queue)] /\ slot[w] \notin Jobs /\ slot \in [Workers -> Jobs \cup {NoJob}]
    BY <1>1, NoJobIsNone DEF Receive, Shape, Working
  <2>2. Queued' = Queued \ {Head(queue)} /\ Head(queue) \in Queued
    BY <2>1, QueuedReceive DEF JobsInv
  <2>3. \A i \in Jobs : (i \in Queued \/ \E v \in Workers : slot[v] = i)
                          <=> (i \in Queued' \/ \E v \in Workers : slot'[v] = i)
    BY <2>1, <2>2
  <2> QED BY <2>1, <2>3 DEF Stay, Fate
<1>2. CASE Stop(w) \/ Fail(w) \/ Retry(w)
  <2>1. UNCHANGED <<queue, slot, done>>
    BY <1>2 DEF Stop, Fail, Retry
  <2> QED BY <2>1, Unmoved
<1>3. ASSUME NEW how \in {"delivered", "failed"}, Ends(w, how), stage[w] \in Working
      PROVE  slot[w] \in Jobs /\ Fate(slot[w]) = "queued" /\ Moves(slot[w], how)
  <2>1. slot[w] \in Jobs /\ done[slot[w]] = None
    BY <1>3 DEF Shape, JobsInv
  <2>2. /\ done' = [done EXCEPT ![slot[w]] = how] /\ slot' = [slot EXCEPT ![w] = NoJob] /\ Queued' = Queued
    BY <1>3 DEF Ends, Queued
  <2>3. \A i \in Jobs : i = slot[w] => Fate(i)' = how
    BY <1>3, <2>1, <2>2 DEF Fate, Shape, None
  <2>4. \A i \in Jobs : i # slot[w] => Fate(i)' = Fate(i)
    <3> SUFFICES ASSUME NEW i \in Jobs, i # slot[w] PROVE Fate(i)' = Fate(i)
      OBVIOUS
    <3>1. done'[i] = done[i] /\ ((\E v \in Workers : slot'[v] = i) <=> (\E v \in Workers : slot[v] = i))
      BY <2>2, NoJobIsNone DEF Shape
    <3> QED BY <2>2, <3>1 DEF Fate
  <2> QED BY <2>1, <2>3, <2>4 DEF Fate, Moves
<1>4. CASE Succeed(w)
  BY <1>3, <1>4 DEF Succeed, Working
<1>5. CASE GiveUp(w)
  BY <1>3, <1>5 DEF GiveUp, Working
<1>6. CASE CancelRetry(w)
  BY <1>3, <1>6 DEF CancelRetry, Working
<1> QED
  BY <1>1, <1>2, <1>4, <1>5, <1>6 DEF Work, Deliver

LEMMA JobsInvInit == Init => JobsInv
<1> SUFFICES ASSUME Init PROVE JobsInv
  OBVIOUS
<1>1. queue = <<>> /\ Len(queue) = 0
  BY DEF Init
<1>2. Queued = {}
  BY <1>1 DEF Queued
<1>3. \A j \in Jobs : Fate(j) = "none"
  BY <1>2, NoJobIsNone DEF Init, Fate, None
<1> QED
  BY <1>1, <1>2, <1>3 DEF Init, JobsInv, Distinct, Working, Jobs

(* Once a call has left a destination it never comes back to it.            *)
LEMMA NextDestMovesOn ==
  ASSUME Shape, NEW e \in Events, pc[e] \in Calling, NextDest(e)
  PROVE  \A f \in Events, d \in 1 .. Destinations : Ahead(f, d)' => Ahead(f, d) /\ <<f, d>> # Job(e)
<1>1. Destinations \in Nat /\ dest[e] \in 1 .. Destinations
  BY ConstantsAssumption DEF Shape
<1>2. CASE dest[e] = Destinations
  BY <1>1, <1>2 DEF NextDest, Ahead, Shape, Calling, Job
<1>3. CASE dest[e] # Destinations
  <2>1. pc' = [pc EXCEPT ![e] = "check"] /\ dest' = [dest EXCEPT ![e] = dest[e] + 1]
    BY <1>3 DEF NextDest
  <2> QED BY <1>1, <2>1 DEF Ahead, Shape, Calling, Job
<1> QED
  BY <1>2, <1>3

LEMMA CallKeepsJobs ==
  ASSUME Shape, JobsInv, NEW e \in Events, Dispatch(e)
  PROVE  JobsInv'
<1>1. CASE Stay /\ UNCHANGED <<queue, slot, done>> /\ (Start(e) \/ CheckOpen(e) \/ Announce(e))
  <2>1. UNCHANGED <<queue, slot, stage, done, dest>> /\ \A f \in Events : pc'[f] \in Calling => pc[f] \in {"new"} \cup Calling
    BY <1>1 DEF Start, CheckOpen, Announce, worker, Shape, Calling
  <2>2. \A f \in Events, d \in 1 .. Destinations : Ahead(f, d)' => Ahead(f, d)
    BY <1>1, <2>1 DEF Ahead, Start, CheckOpen, Announce, Shape, Calling
  <2>3. Queued' = Queued /\ (Distinct => Distinct')
    BY <2>1 DEF Queued, Distinct
  <2> QED BY <1>1, <2>1, <2>2, <2>3 DEF JobsInv, Stay, Jobs
<1>2. CASE /\ Job(e) \in Jobs /\ Fate(Job(e)) = "none" /\ pc[e] \in Calling /\ NextDest(e)
           /\ UNCHANGED <<slot, stage, dedup>>
           /\ Moves(Job(e), "queued") /\ queue' = Append(queue, Job(e)) /\ UNCHANGED done
  <2>1. /\ Queued' = Queued \cup {Job(e)} /\ Len(queue') = Len(queue) + 1 /\ Len(queue) \in Nat
        /\ queue'[Len(queue) + 1] = Job(e) /\ \A i \in 1 .. Len(queue) : queue'[i] = queue[i]
    BY <1>2, QueuedPut, AppendProperties DEF Shape
  <2>2. done[Job(e)] = None /\ Job(e) \notin Queued /\ \A w \in Workers : slot[w] # Job(e)
    BY <1>2, UntouchedIsNone
  <2>3. Distinct'
    <3> SUFFICES ASSUME NEW i \in 1 .. Len(queue'), NEW k \in 1 .. Len(queue'), queue'[i] = queue'[k]
                 PROVE  i = k
      BY DEF Distinct
    <3>1. \A n \in 1 .. Len(queue) : queue[n] # Job(e)
      BY <2>2 DEF Queued
    <3> QED BY <2>1, <3>1 DEF JobsInv, Distinct
  <2>4. \A f \in Events, d \in 1 .. Destinations : Ahead(f, d)' => Fate(<<f, d>>)' = "none"
    BY <1>2, NextDestMovesOn DEF JobsInv, Moves, Jobs
  <2> QED BY <1>2, <2>1, <2>2, <2>3, <2>4 DEF JobsInv
<1>3. CASE /\ Job(e) \in Jobs /\ Fate(Job(e)) = "none" /\ pc[e] \in Calling /\ NextDest(e)
           /\ UNCHANGED <<slot, stage, dedup>>
           /\ Moves(Job(e), "dropped") /\ done' = [done EXCEPT ![Job(e)] = "dropped"] /\ UNCHANGED queue
  <2>1. Queued' = Queued /\ (Distinct => Distinct')
    BY <1>3 DEF Queued, Distinct
  <2>2. Job(e) \notin Queued /\ \A w \in Workers : slot[w] # Job(e)
    BY <1>3, UntouchedIsNone
  <2>3. \A j \in Jobs : j # Job(e) => done'[j] = done[j]
    BY <1>3 DEF Shape
  <2>4. \A f \in Events, d \in 1 .. Destinations : Ahead(f, d)' => Fate(<<f, d>>)' = "none"
    BY <1>3, NextDestMovesOn DEF JobsInv, Moves, Jobs
  <2>5. \A j \in Queued : j \in Jobs
    BY ElementOfSeq DEF Queued, Shape
  <2> QED BY <1>3, <2>1, <2>2, <2>3, <2>4, <2>5 DEF JobsInv, Shape
<1> QED
  BY <1>1, <1>2, <1>3, CallMoves

LEMMA WorkKeepsJobs ==
  ASSUME Shape, JobsInv, NEW w \in Workers, Work(w)
  PROVE  JobsInv'
<1>1. UNCHANGED <<pc, dest>>
  BY DEF Work, Deliver, Receive, Stop, Succeed, GiveUp, Fail, Retry, CancelRetry, Ends, caller
<1>2. \A e \in Events, d \in 1 .. Destinations : Ahead(e, d)' => Fate(<<e, d>>)' = "none"
  <2>1. \A e \in Events, d \in 1 .. Destinations : Ahead(e, d)' => Fate(<<e, d>>) = "none"
    BY <1>1 DEF Ahead, JobsInv
  <2> QED BY <2>1, WorkMoves DEF Stay, Moves, Jobs
<1>3. \A j \in Queued : j \in Jobs
  BY ElementOfSeq DEF Queued, Shape
<1>4. CASE Receive(w)
  <2>1. /\ queue \in Seq(Jobs) /\ queue # <<>> /\ queue' = Tail(queue) /\ UNCHANGED done /\ stage[w] = "idle"
        /\ slot' = [slot EXCEPT ![w] = Head(queue)] /\ stage' = [stage EXCEPT ![w] = "sending"]
    BY <1>4 DEF Receive, Shape
  <2>2. Queued' = Queued \ {Head(queue)} /\ Head(queue) \in Queued /\ Distinct'
    BY <2>1, QueuedReceive DEF JobsInv
  <2> QED BY <1>2, <2>1, <2>2 DEF JobsInv, Shape, Working
<1>5. CASE Stop(w) \/ Fail(w) \/ Retry(w)
  <2>1. /\ UNCHANGED <<queue, slot, done>> /\ \A v \in Workers : stage'[v] \in Working => stage[v] \in Working
    BY <1>5 DEF Stop, Fail, Retry, Shape, Working
  <2>2. Queued' = Queued /\ (Distinct => Distinct')
    BY <2>1 DEF Queued, Distinct
  <2> QED BY <1>2, <2>1, <2>2 DEF JobsInv
<1>6. ASSUME NEW how \in {"delivered", "failed"}, Ends(w, how), stage[w] \in Working PROVE JobsInv'
  <2>1. /\ UNCHANGED queue /\ slot[w] \in Jobs /\ slot[w] \notin Queued
        /\ done' = [done EXCEPT ![slot[w]] = how] /\ slot' = [slot EXCEPT ![w] = NoJob]
        /\ stage' = [stage EXCEPT ![w] = "idle"]
    BY <1>6 DEF Ends, Shape, JobsInv
  <2>2. Queued' = Queued /\ (Distinct => Distinct')
    BY <2>1 DEF Queued, Distinct
  <2>3. \A v \in Workers : stage'[v] \in Working => stage[v] \in Working /\ v # w /\ slot'[v] = slot[v] /\ slot[v] # slot[w]
    BY <1>6, <2>1 DEF JobsInv, Shape, Working
  <2>4. \A j \in Jobs : j # slot[w] => done'[j] = done[j]
    BY <2>1 DEF Shape
  <2> QED BY <1>2, <1>3, <2>1, <2>2, <2>3, <2>4 DEF JobsInv, Shape
<1>7. CASE Succeed(w)
  BY <1>6, <1>7 DEF Succeed, Working
<1>8. CASE GiveUp(w)
  BY <1>6, <1>8 DEF GiveUp, Working
<1>9. CASE CancelRetry(w)
  BY <1>6, <1>9 DEF CancelRetry, Working
<1> QED
  BY <1>4, <1>5, <1>7, <1>8, <1>9 DEF Work, Deliver

-----------------------------------------------------------------------------
(* Threshold keys.                                                          *)

(* The call of e has passed the lookup of its key.                          *)
Reports(e) == pc[e] \in Calling \/ \E d \in 1 .. Destinations : Fate(<<e, d>>) # "none"

(* Who reports a threshold has marked its key, and nobody else reports it.  *)
DedupInv ==
  /\ \A e \in Events : KeyOf[e] # None /\ Reports(e) => KeyOf[e] \in dedup
  /\ \A e, f \in Events : e # f /\ KeyOf[e] # None /\ KeyOf[e] = KeyOf[f] => ~(Reports(e) /\ Reports(f))

LEMMA DedupInvInit == Init => DedupInv
<1> SUFFICES ASSUME Init PROVE DedupInv
  OBVIOUS
<1>1. JobsInv /\ \A e \in Events : pc[e] = "new"
  BY JobsInvInit DEF Init
<1>2. \A e \in Events : ~Reports(e)
  BY <1>1 DEF Reports, JobsInv, Ahead, Calling
<1> QED
  BY <1>2 DEF DedupInv

LEMMA CallKeepsDedup ==
  ASSUME Shape, JobsInv, DedupInv, NEW e \in Events, Dispatch(e)
  PROVE  DedupInv'
<1>1. \A f \in Events : f # e /\ Reports(f)' => Reports(f)
  <2>1. \A f \in Events : f # e => pc'[f] = pc[f]
    BY DEF Dispatch, Start, CheckOpen, CheckClosed, Announce, Put, PutFull, Dropped, NextDest, Shape
  <2>2. \A f \in Events, d \in 1 .. Destinations : f # e => Fate(<<f, d>>)' = Fate(<<f, d>>)
    BY CallMoves DEF Stay, Moves, Jobs, Job
  <2> QED BY <2>1, <2>2 DEF Reports
<1>2. CASE ~Start(e)
  <2>1. Reports(e)
    BY <1>2 DEF Dispatch, CheckOpen, CheckClosed, Announce, Put, PutFull, Reports, Calling
  <2>2. dedup' = dedup
    BY <1>2 DEF Dispatch, CheckOpen, CheckClosed, Announce, Put, PutFull
  <2> QED BY <1>1, <2>1, <2>2 DEF DedupInv
<1>3. CASE Start(e)
  <2>1. pc[e] = "new" /\ Stay
    BY <1>3, Unmoved DEF Start, worker
  <2>2. \A d \in 1 .. Destinations : Fate(<<e, d>>)' = "none"
    BY <2>1 DEF JobsInv, Ahead, Stay, Jobs
  <2>3. CASE Destinations = 0 \/ Suppressed(e)
    <3>1. ~Reports(e)'
      BY <1>3, <2>2, <2>3 DEF Start, Reports, Calling, Shape
    <3>2. dedup \subseteq dedup'
      BY <1>3 DEF Start
    <3> QED BY <1>1, <3>1, <3>2 DEF DedupInv
  <2>4. CASE Destinations # 0 /\ KeyOf[e] \notin dedup
    <3>1. dedup' = IF KeyOf[e] = None THEN dedup ELSE dedup \cup {KeyOf[e]}
      BY <1>3, <2>4 DEF Start
    <3>2. \A f \in Events : f # e /\ KeyOf[e] # None /\ KeyOf[f] = KeyOf[e] => ~Reports(f)'
      BY <1>1, <2>4 DEF DedupInv
    <3> QED BY <1>1, <3>1, <3>2 DEF DedupInv
  <2> QED BY <2>3, <2>4 DEF Suppressed
<1> QED
  BY <1>2, <1>3

LEMMA WorkKeepsDedup ==
  ASSUME Shape, JobsInv, DedupInv, NEW w \in Workers, Work(w)
  PROVE  DedupInv'
<1>1. UNCHANGED <<pc, dedup>>
  BY DEF Work, Deliver, Receive, Stop, Succeed, GiveUp, Fail, Retry, CancelRetry, Ends, caller
<1>2. \A i \in Jobs : Fate(i)' # "none" => Fate(i) # "none"
  BY WorkMoves DEF Stay, Moves
<1>3. \A e \in Events : Reports(e)' => Reports(e)
  BY <1>1, <1>2 DEF Reports, Jobs
<1> QED
  BY <1>1, <1>3 DEF DedupInv

-----------------------------------------------------------------------------
(* The counter Drain polls.                                                 *)

Putting == {e \in Events : pc[e] = "put"}

(* It counts the calls about to write the channel, the jobs in it, and the  *)
(* workers with a job.                                                      *)
CountInv == pending = Cardinality(Putting) + Len(queue) + Cardinality(Busy)

LEMMA Counted ==
  /\ IsFiniteSet(Putting) /\ Cardinality(Putting) \in Nat
  /\ IsFiniteSet(Busy) /\ Cardinality(Busy) \in Nat
<1>1. IsFiniteSet(Events) /\ Putting \subseteq Events /\ IsFiniteSet(Workers) /\ Busy \subseteq Workers
  BY ConstantsAssumption DEF Putting, Busy
<1>2. IsFiniteSet(Putting) /\ IsFiniteSet(Busy)
  BY <1>1, FS_Subset
<1> QED
  BY <1>2, FS_CardinalityType

LEMMA CountInvInit == Init => CountInv
<1> SUFFICES ASSUME Init PROVE CountInv
  OBVIOUS
<1>1. Putting = {} /\ Busy = {} /\ Len(queue) = 0 /\ pending = 0
  BY DEF Init, Putting, Busy
<1> QED
  BY <1>1, FS_EmptySet DEF CountInv

LEMMA CallKeepsCount ==
  ASSUME Shape, CountInv, NEW e \in Events, Dispatch(e)
  PROVE  CountInv'
<1>1. Len(queue) \in Nat /\ Busy' = Busy
  BY LenProperties DEF Shape, Dispatch, Start, CheckOpen, CheckClosed, Announce, Put, PutFull, worker, Busy
<1>2. CASE Start(e) \/ CheckOpen(e) \/ CheckClosed(e)
  <2>1. pc[e] # "put" /\ pc'[e] # "put" /\ \A f \in Events : f # e => pc'[f] = pc[f]
    BY <1>2 DEF Start, CheckOpen, CheckClosed, Dropped, NextDest, Shape
  <2>2. Putting' = Putting /\ UNCHANGED <<queue, pending>>
    BY <1>2, <2>1 DEF Putting, Start, CheckOpen, CheckClosed
  <2> QED BY <1>1, <2>2 DEF CountInv
<1>3. CASE Announce(e)
  <2>1. e \notin Putting /\ Putting' = Putting \cup {e}
    BY <1>3 DEF Announce, Putting, Shape
  <2>2. Cardinality(Putting') = Cardinality(Putting) + 1
    BY <2>1, Counted, FS_AddElement
  <2> QED BY <1>1, <1>3, <2>2, Counted DEF Announce, CountInv
<1>4. CASE Put(e) \/ PutFull(e)
  <2>1. e \in Putting
    BY <1>4 DEF Put, PutFull, Putting
  <2>2. NextDest(e)
    BY <1>4 DEF Put, PutFull, Dropped
  <2>3. Putting' = Putting \ {e}
    BY <2>2 DEF NextDest, Putting, Shape
  <2>4. Cardinality(Putting') = Cardinality(Putting) - 1
    BY <2>1, <2>3, Counted, FS_RemoveElement
  <2>5. CASE Put(e)
    <3>1. Len(queue') = Len(queue) + 1
      <4>1. dest[e] \in 1 .. Destinations
        BY <1>4 DEF Put, PutFull, Shape, Calling
      <4> QED BY <2>5, <4>1, QueuedPut DEF Put, Job, Jobs, Shape
    <3> QED BY <1>1, <2>4, <2>5, <3>1, Counted DEF Put, CountInv
  <2>6. CASE PutFull(e)
    BY <1>1, <2>4, <2>6, Counted DEF PutFull, CountInv
  <2> QED BY <1>4, <2>5, <2>6
<1> QED
  BY <1>2, <1>3, <1>4 DEF Dispatch

LEMMA WorkKeepsCount ==
  ASSUME Shape, Distinct, CountInv, NEW w \in Workers, Work(w)
  PROVE  CountInv'
<1>1. Len(queue) \in Nat /\ Putting' = Putting
  BY LenProperties DEF Shape, Work, Deliver, Receive, Stop, Succeed, GiveUp, Fail, Retry, CancelRetry, Ends, caller, Putting
<1>2. CASE Receive(w)
  <2>1. w \notin Busy /\ Busy' = Busy \cup {w}
    BY <1>2 DEF Receive, Busy, Shape
  <2>2. Cardinality(Busy') = Cardinality(Busy) + 1
    BY <2>1, Counted, FS_AddElement
  <2>3. Len(queue') = Len(queue) - 1
    BY <1>2, QueuedReceive DEF Receive, Shape
  <2> QED BY <1>1, <1>2, <2>2, <2>3, Counted DEF Receive, CountInv
<1>3. CASE Stop(w) \/ Fail(w) \/ Retry(w)
  <2>1. Busy' = Busy /\ UNCHANGED <<queue, pending>>
    BY <1>3 DEF Stop, Fail, Retry, Busy, Shape
  <2> QED BY <1>1, <2>1 DEF CountInv
<1>4. ASSUME NEW how, Ends(w, how), stage[w] \in Working PROVE CountInv'
  <2>1. w \in Busy /\ Busy' = Busy \ {w}
    BY <1>4 DEF Ends, Busy, Working, Shape
  <2>2. Cardinality(Busy') = Cardinality(Busy) - 1
    BY <2>1, Counted, FS_RemoveElement
  <2> QED BY <1>1, <1>4, <2>2, Counted DEF Ends, CountInv
<1>5. CASE Succeed(w)
  BY <1>4, <1>5 DEF Succeed, Working
<1>6. CASE GiveUp(w)
  BY <1>4, <1>6 DEF GiveUp, Working
<1>7. CASE CancelRetry(w)
  BY <1>4, <1>7 DEF CancelRetry, Working
<1> QED
  BY <1>2, <1>3, <1>5, <1>6, <1>7 DEF Work, Deliver

-----------------------------------------------------------------------------
(* The invariant.                                                           *)

Inv == Shape /\ JobsInv /\ DedupInv /\ CountInv

LEMMA InvInit == Init => Inv
BY ShapeInit, JobsInvInit, DedupInvInit, CountInvInit DEF Inv

LEMMA UnchangedKeepsInv ==
  ASSUME Inv, UNCHANGED <<caller, queue, worker, pending, done>>, Shape'
  PROVE  Inv'
<1>1. /\ UNCHANGED <<pc, dest, dedup, stage, slot, attempt>> /\ Stay
  BY Unmoved DEF caller, worker
<1>2. Queued' = Queued /\ (Distinct => Distinct') /\ Putting' = Putting /\ Busy' = Busy
  BY <1>1 DEF Queued, Distinct, Putting, Busy
<1>3. JobsInv'
  BY <1>1, <1>2 DEF Inv, JobsInv, Stay, Jobs, Ahead
<1>4. \A e \in Events : Reports(e)' <=> Reports(e)
  BY <1>1 DEF Reports, Stay, Jobs
<1>5. DedupInv'
  BY <1>1, <1>4 DEF Inv, DedupInv
<1>6. CountInv'
  BY <1>2 DEF Inv, CountInv
<1> QED
  BY <1>3, <1>5, <1>6 DEF Inv

LEMMA InvStep ==
  ASSUME Inv, [Next]_vars
  PROVE  Inv'
<1>1. ASSUME NEW e \in Events, Dispatch(e) PROVE Inv'
  BY <1>1, CallKeepsShape, CallKeepsJobs, CallKeepsDedup, CallKeepsCount DEF Inv
<1>2. ASSUME NEW w \in Workers, Work(w) PROVE Inv'
  <2>1. Distinct
    BY DEF Inv, JobsInv
  <2> QED BY <1>2, <2>1, WorkKeepsShape, WorkKeepsJobs, WorkKeepsDedup, WorkKeepsCount DEF Inv
<1>3. CASE Halt
  BY <1>3, HaltKeepsShape, UnchangedKeepsInv DEF Inv
<1>4. CASE UNCHANGED vars
  <2>1. Shape'
    BY <1>4 DEF Inv, Shape, vars, caller, worker
  <2> QED BY <1>4, <2>1, UnchangedKeepsInv DEF vars
<1> QED
  BY <1>1, <1>2, <1>3, <1>4 DEF Next, Halt

LEMMA InvAlways == Spec => []Inv
BY InvInit, InvStep, PTL DEF Spec

LEMMA InvTypes == Inv => TypeOK
<1> SUFFICES ASSUME Inv PROVE TypeOK
  OBVIOUS
<1>1. pending \in Nat
  BY Counted, LenProperties DEF Inv, Shape, CountInv
<1>2. \A w \in Workers : slot[w] = NoJob <=> w \notin Busy
  BY NoJobIsNone DEF Inv, Shape, Busy, Working
<1> QED
  BY <1>1, <1>2 DEF Inv, Shape, TypeOK, Calling, Working

(* Dispatch, however many callers report the same crossing at once, sends   *)
(* at most one of their alerts to a destination in a period                 *)
(* (shouldSuppress), and every state is well typed.                         *)
THEOREM ThresholdsAreSentOnce == Spec => []ThresholdSentOnce
<1>1. Inv => ThresholdSentOnce
  <2> SUFFICES ASSUME Inv, NEW i \in Jobs, NEW j \in Jobs, i # j, i[2] = j[2], KeyOf[i[1]] # None,
                      KeyOf[i[1]] = KeyOf[j[1]], Fate(i) # "none", Fate(j) # "none"
               PROVE  FALSE
    BY InvTypes DEF ThresholdSentOnce
  <2>1. /\ i[1] \in Events /\ i[2] \in 1 .. Destinations /\ i = <<i[1], i[2]>>
        /\ j[1] \in Events /\ j[2] \in 1 .. Destinations /\ j = <<j[1], j[2]>>
    BY DEF Jobs
  <2>2. Reports(i[1]) /\ Reports(j[1]) /\ i[1] # j[1]
    BY <2>1 DEF Reports
  <2> QED BY <2>1, <2>2 DEF Inv, DedupInv
<1> QED
  BY <1>1, InvAlways, PTL

(* A Drain that returns without an error leaves nothing in the channel and  *)
(* nothing with a worker: the counter it polls is never behind them.        *)
THEOREM DrainsAreComplete == Spec => DrainIsComplete
<1>1. Inv /\ pending = 0 => queue = <<>> /\ Busy = {}
  <2> SUFFICES ASSUME Inv, pending = 0 PROVE queue = <<>> /\ Busy = {}
    OBVIOUS
  <2>1. Len(queue) = 0 /\ Cardinality(Busy) = 0
    BY Counted, LenProperties DEF Inv, Shape, CountInv
  <2> QED BY <2>1, Counted, FS_EmptySet, EmptySeq DEF Inv, Shape
<1>2. Inv /\ [Next]_vars => [shut' = "drained" /\ shut # "drained" => queue = <<>> /\ Busy = {}]_vars
  <2> SUFFICES ASSUME Inv, Next, shut' = "drained", shut # "drained" PROVE queue = <<>> /\ Busy = {}
    BY DEF vars
  <2>1. DrainDone
    <3>1. \A e \in Events : ~Dispatch(e)
      BY DEF Dispatch, Start, CheckOpen, CheckClosed, Announce, Put, PutFull
    <3>2. \A w \in Workers : ~Work(w)
      BY DEF Work, Deliver, Receive, Stop, Succeed, GiveUp, Fail, Retry, CancelRetry, Ends
    <3> QED BY <3>1, <3>2 DEF Next, StartDrain, DrainTimeout, Close, SetClosed, Cancel, CloseReturns, Shutdown
  <2> QED BY <1>1, <2>1 DEF DrainDone
<1> QED
  BY <1>2, InvAlways, PTL DEF Spec, DrainIsComplete

(* The dispatcher implements AlertMailbox: each delivery is taken or        *)
(* dropped when its caller comes to it, and one that was taken ends once.   *)
THEOREM DeliveriesHaveOneFate == Spec => OneFate
<1> DEFINE map == [j \in Jobs |-> Fate(j)]
<1>1. Init => Mailbox!Init
  <2> SUFFICES ASSUME Init PROVE \A j \in Jobs : Fate(j) = "none"
    BY DEF Mailbox!Init
  <2>1. Queued = {}
    BY DEF Init, Queued
  <2> QED BY <2>1, NoJobIsNone DEF Init, Fate, None
<1>2. ASSUME Inv, [Next]_vars PROVE [Mailbox!Next]_map
  <2>1. Stay => map' = map
    BY DEF Stay
  <2>2. ASSUME NEW j \in Jobs, NEW f, Moves(j, f) PROVE map' = [map EXCEPT ![j] = f]
    BY <2>2 DEF Moves
  <2>3. ASSUME NEW e \in Events, Dispatch(e) PROVE [Mailbox!Next]_map
    <3>1. CASE Stay
      BY <2>1, <3>1
    <3>2. CASE Job(e) \in Jobs /\ Fate(Job(e)) = "none" /\ Moves(Job(e), "queued")
      <4>1. Mailbox!Take(Job(e))
        BY <2>2, <3>2 DEF Mailbox!Take
      <4> QED BY <3>2, <4>1 DEF Mailbox!Next
    <3>3. CASE Job(e) \in Jobs /\ Fate(Job(e)) = "none" /\ Moves(Job(e), "dropped")
      <4>1. Mailbox!Drop(Job(e))
        BY <2>2, <3>3 DEF Mailbox!Drop
      <4> QED BY <3>3, <4>1 DEF Mailbox!Next
    <3> QED BY <1>2, <2>3, <3>1, <3>2, <3>3, CallMoves DEF Inv
  <2>4. ASSUME NEW w \in Workers, Work(w) PROVE [Mailbox!Next]_map
    <3>1. CASE Stay
      BY <2>1, <3>1
    <3>2. ASSUME NEW how \in {"delivered", "failed"}, slot[w] \in Jobs, Fate(slot[w]) = "queued", Moves(slot[w], how)
          PROVE  Mailbox!Next
      <4>1. Mailbox!End(slot[w])
        BY <2>2, <3>2 DEF Mailbox!End
      <4> QED BY <3>2, <4>1 DEF Mailbox!Next
    <3> QED BY <1>2, <2>4, <3>1, <3>2, WorkMoves DEF Inv
  <2>5. CASE Halt \/ UNCHANGED vars
    <3>1. UNCHANGED <<queue, slot, done>>
      BY <1>2, <2>5, HaltKeepsShape DEF Inv, vars, worker
    <3> QED BY <2>1, <3>1, Unmoved
  <2> QED BY <1>2, <2>3, <2>4, <2>5 DEF Next, Halt
<1> QED
  BY <1>1, <1>2, InvAlways, PTL DEF Spec, OneFate, Mailbox!Spec

=============================================================================
