----------------------------- MODULE DashboardProofs -----------------------------
(***************************************************************************)
(* Theorems about what the dashboard shows, which its two feeds bring it.  *)
(*                                                                         *)
(* ProviderStatus: probes never overlap, and a card shows what its         *)
(* provider would have answered, for any number of refreshers, health      *)
(* requests and providers, any time to live of the rows and any deadline   *)
(* of a probe.                                                             *)
(*                                                                         *)
(* EventStream: no publisher sends on a closed channel, and a client whose *)
(* channel never was full gets every event in order, for any number of     *)
(* publishers and clients and any size of the channels.                    *)
(***************************************************************************)
EXTENDS ProviderStatus, EventStream, FiniteSetTheorems, TLAPS

Busy(j) == job[j].phase \in {"probe", "store", "end"}

(* A refresher's record has these four fields; what its probes have found   *)
(* are statuses of cards, all of them when it stores them.                  *)
JobsOK ==
  /\ job = [j \in Refreshers |-> job[j]]
  /\ \A j \in Refreshers :
       /\ DOMAIN job[j] = {"phase", "elapsed", "result", "seen"}
       /\ job[j].phase \in {"idle", "begin", "probe", "store", "end"}
       /\ job[j].elapsed \in Nat
       /\ job[j].phase = "store" => job[j].elapsed <= StatusTTL /\ DOMAIN job[j].result = Cards
       /\ job[j].phase = "probe" => DOMAIN job[j].result \subseteq Cards
       /\ job[j].phase \in {"probe", "store"} =>
            \A p \in DOMAIN job[j].result : job[j].result[p] \in StatusValues

RowsOK ==
  /\ world \in [Providers -> Reply]
  /\ rows \in [Cards -> StatusValues]
  /\ observed \in BOOLEAN /\ age \in 0..StatusTTL /\ refreshing \in BOOLEAN
  /\ poll \in [Polls -> {"idle", "launch", "answer"}]

(* One refresher at most is busy, and it has the slot.                      *)
SlotInv ==
  /\ \A i, j \in Refreshers : Busy(i) /\ Busy(j) => i = j
  /\ refreshing <=> \E j \in Refreshers : Busy(j)

Inv == JobsOK /\ RowsOK /\ SlotInv

LEMMA StatusIsValue == \A p, w : StatusOf(p, w) \in StatusValues /\ Unverified(p) \in StatusValues
BY DEF StatusOf, OllamaStatus, FeedStatus, Unverified, StatusValues

LEMMA InvInit == Init => Inv
<1> SUFFICES ASSUME Init PROVE Inv
  OBVIOUS
<1>1. RowsOK
  <2>1. world \in [Providers -> Replies]
    BY DEF Init
  <2>2. rows \in [Cards -> StatusValues]
    BY StatusIsValue DEF Init
  <2>3. world \in [Providers -> Reply]
    BY <2>1, StatusAssumption
  <2>4. poll \in [Polls -> {"idle", "launch", "answer"}] /\ observed \in BOOLEAN /\ refreshing \in BOOLEAN
    BY DEF Init
  <2>5. age \in 0..StatusTTL
    BY StatusAssumption DEF Init
  <2> QED BY <2>2, <2>3, <2>4, <2>5 DEF RowsOK
<1>2. PICK first \in Refreshers :
        job = [j \in Refreshers |-> IF j = first THEN [NoJob EXCEPT !.phase = "begin"] ELSE NoJob]
  BY DEF Init
<1>3. \A j \in Refreshers : job[j].phase \in {"idle", "begin"}
  BY <1>2 DEF NoJob
<1>4. JobsOK
  BY <1>2, <1>3 DEF JobsOK, NoJob
<1>5. SlotInv
  BY <1>3 DEF SlotInv, Busy, Init
<1> QED BY <1>1, <1>4, <1>5 DEF Inv

(* A step that changes only the record of one refresher.                    *)
LEMMA Keep ==
  ASSUME Inv, NEW j \in Refreshers, NEW x, job' = [job EXCEPT ![j] = x]
  PROVE  /\ job'[j] = x /\ job' = [i \in Refreshers |-> job'[i]]
         /\ \A i \in Refreshers : i # j => job'[i] = job[i]
BY DEF Inv, JobsOK

LEMMA InvNext == Inv /\ [Next]_vars => Inv'
<1> SUFFICES ASSUME Inv, [Next]_vars PROVE Inv'
  OBVIOUS
<1>1. ASSUME NEW j \in Refreshers, Begin(j) PROVE Inv'
  <2>1. CASE refreshing
    <3>1. /\ job'[j] = NoJob /\ job' = [i \in Refreshers |-> job'[i]]
          /\ \A i \in Refreshers : i # j => job'[i] = job[i]
      BY <1>1, <2>1, Keep DEF Begin
    <3>2. JobsOK'
      BY <3>1 DEF JobsOK, NoJob, Inv
    <3>3. RowsOK' /\ refreshing' = refreshing
      BY <1>1, <2>1 DEF Begin, Inv, RowsOK
    <3>4. ~Busy(j) /\ ~Busy(j)' /\ \A i \in Refreshers : Busy(i)' = Busy(i)
      BY <1>1, <3>1 DEF Begin, Busy, NoJob
    <3> QED BY <3>2, <3>3, <3>4 DEF Inv, SlotInv
  <2>2. CASE ~refreshing
    <3>1. /\ job'[j] = Probing(j) /\ job' = [i \in Refreshers |-> job'[i]]
          /\ \A i \in Refreshers : i # j => job'[i] = job[i]
      BY <1>1, <2>2, Keep DEF Begin
    <3>2. DOMAIN Probing(j).result = {}
      BY DEF Probing
    <3>3. JobsOK'
      BY <3>1, <3>2 DEF JobsOK, Probing, Inv
    <3>4. RowsOK' /\ refreshing' = TRUE
      BY <1>1 DEF Begin, Inv, RowsOK
    <3>5. Busy(j)' /\ \A i \in Refreshers : ~Busy(i) /\ (i # j => ~Busy(i)')
      BY <2>2, <3>1 DEF Busy, Probing, Inv, SlotInv
    <3> QED BY <3>3, <3>4, <3>5 DEF Inv, SlotInv
  <2> QED BY <2>1, <2>2
<1>2. ASSUME NEW j \in Refreshers, NEW p \in Cards, ProbeEnds(j, p) PROVE Inv'
  <2> DEFINE x == [job[j] EXCEPT !.result = Extend(@, p, StatusOf(p, world[p]))]
  <2>1. job' = [job EXCEPT ![j] = x]
    BY <1>2 DEF ProbeEnds, Inv, JobsOK
  <2>2. /\ x.phase = job[j].phase /\ x.elapsed = job[j].elapsed /\ x.seen = job[j].seen
        /\ x.result = Extend(job[j].result, p, StatusOf(p, world[p]))
        /\ DOMAIN x = {"phase", "elapsed", "result", "seen"}
    BY DEF Inv, JobsOK
  <2>3. /\ job[j].phase = "probe"
        /\ DOMAIN x.result \subseteq Cards
        /\ \A q \in DOMAIN x.result : x.result[q] \in StatusValues
    BY <1>2, <2>2, StatusIsValue DEF ProbeEnds, Extend, Inv, JobsOK
  <2> HIDE DEF x
  <2>4. /\ job'[j] = x /\ job' = [i \in Refreshers |-> job'[i]]
        /\ \A i \in Refreshers : i # j => job'[i] = job[i]
    BY <2>1, Keep
  <2>5. JobsOK'
    BY <2>2, <2>3, <2>4 DEF JobsOK, Inv
  <2>6. RowsOK' /\ refreshing' = refreshing
    BY <1>2 DEF ProbeEnds, Inv, RowsOK
  <2>7. \A i \in Refreshers : Busy(i)' = Busy(i)
    BY <2>2, <2>4 DEF Busy
  <2> QED BY <2>5, <2>6, <2>7 DEF Inv, SlotInv
<1>3. ASSUME NEW j \in Refreshers, Stamp(j) PROVE Inv'
  <2> DEFINE x == [job[j] EXCEPT !.phase = "store", !.elapsed = 0]
  <2>1. job' = [job EXCEPT ![j] = x]
    BY <1>3 DEF Stamp, Inv, JobsOK
  <2>2. x.phase = "store" /\ x.elapsed = 0 /\ x.result = job[j].result /\ DOMAIN x = {"phase", "elapsed", "result", "seen"}
    BY DEF Inv, JobsOK
  <2> HIDE DEF x
  <2>3. /\ job'[j] = x /\ job' = [i \in Refreshers |-> job'[i]]
        /\ \A i \in Refreshers : i # j => job'[i] = job[i]
    BY <2>1, Keep
  <2>4. job[j].phase = "probe" /\ DOMAIN job[j].result = Cards
    BY <1>3 DEF Stamp, Outstanding, Inv, JobsOK
  <2>5. JobsOK'
    BY <2>2, <2>3, <2>4, StatusAssumption DEF JobsOK, Inv
  <2>6. RowsOK' /\ refreshing' = refreshing
    BY <1>3 DEF Stamp, Inv, RowsOK
  <2>7. \A i \in Refreshers : Busy(i)' = Busy(i)
    BY <2>2, <2>3, <2>4 DEF Busy
  <2> QED BY <2>5, <2>6, <2>7 DEF Inv, SlotInv
<1>4. ASSUME NEW j \in Refreshers, Store(j) PROVE Inv'
  <2>1. /\ job' = [job EXCEPT ![j] = [NoJob EXCEPT !.phase = "end"]] /\ job[j].phase = "store"
        /\ rows' = Kept(job[j].result) /\ observed' = TRUE /\ age' = job[j].elapsed
        /\ UNCHANGED <<world, refreshing, poll>>
    BY <1>4 DEF Store
  <2>2. /\ job'[j] = [NoJob EXCEPT !.phase = "end"] /\ job' = [i \in Refreshers |-> job'[i]]
        /\ \A i \in Refreshers : i # j => job'[i] = job[i]
    BY <2>1, Keep
  <2>3. JobsOK'
    BY <2>2 DEF JobsOK, Inv, NoJob
  <2>4. /\ job[j].elapsed \in 0..StatusTTL
        /\ \A p \in Cards : job[j].result[p] \in StatusValues
    BY <2>1, StatusAssumption DEF Inv, JobsOK
  <2>5. rows' \in [Cards -> StatusValues]
    BY <2>1, <2>4 DEF Kept
  <2>6. RowsOK'
    <3>1. UNCHANGED Cards /\ UNCHANGED Providers
      BY DEF Cards, Providers
    <3> QED BY <2>1, <2>4, <2>5 DEF Inv, RowsOK
  <2>7. \A i \in Refreshers : Busy(i)' = Busy(i)
    BY <2>1, <2>2 DEF Busy, NoJob
  <2> QED BY <2>1, <2>3, <2>6, <2>7 DEF Inv, SlotInv
<1>5. ASSUME NEW j \in Refreshers, End(j) PROVE Inv'
  <2>1. /\ job'[j] = NoJob /\ job' = [i \in Refreshers |-> job'[i]]
        /\ \A i \in Refreshers : i # j => job'[i] = job[i]
    BY <1>5, Keep DEF End
  <2>2. JobsOK'
    BY <2>1 DEF JobsOK, Inv, NoJob
  <2>3. RowsOK' /\ refreshing' = FALSE
    BY <1>5 DEF End, Inv, RowsOK
  <2>4. Busy(j) /\ ~Busy(j)' /\ \A i \in Refreshers : i # j => Busy(i)' = Busy(i)
    BY <1>5, <2>1 DEF End, Busy, NoJob
  <2> QED BY <2>2, <2>3, <2>4 DEF Inv, SlotInv
<1>6. ASSUME NEW h \in Polls, PollBegins(h) \/ Answer(h) PROVE Inv'
  <2>1. poll' \in [Polls -> {"idle", "launch", "answer"}] /\ UNCHANGED <<world, rows, observed, age, refreshing, job>>
    BY <1>6 DEF PollBegins, Answer, Inv, RowsOK
  <2> QED BY <2>1 DEF Inv, JobsOK, RowsOK, SlotInv, Busy
<1>7. ASSUME NEW h \in Polls, Launch(h) PROVE Inv'
  <2>1. PICK j \in Refreshers : job[j].phase = "idle" /\ job' = [job EXCEPT ![j].phase = "begin"]
    BY <1>7 DEF Launch
  <2> DEFINE x == [job[j] EXCEPT !.phase = "begin"]
  <2>2. job' = [job EXCEPT ![j] = x]
    BY <2>1 DEF Inv, JobsOK
  <2>3. x.phase = "begin" /\ x.elapsed = job[j].elapsed /\ DOMAIN x = {"phase", "elapsed", "result", "seen"}
    BY DEF Inv, JobsOK
  <2> HIDE DEF x
  <2>4. /\ job'[j] = x /\ job' = [i \in Refreshers |-> job'[i]]
        /\ \A i \in Refreshers : i # j => job'[i] = job[i]
    BY <2>2, Keep
  <2>5. JobsOK'
    BY <2>3, <2>4 DEF JobsOK, Inv
  <2>6. RowsOK' /\ refreshing' = refreshing
    BY <1>7 DEF Launch, Inv, RowsOK
  <2>7. \A i \in Refreshers : Busy(i)' = Busy(i)
    BY <2>1, <2>3, <2>4 DEF Busy
  <2> QED BY <2>5, <2>6, <2>7 DEF Inv, SlotInv
<1>8. ASSUME NEW p \in Providers, Change(p) PROVE Inv'
  <2>1. PICK w \in Answers(p) :
          /\ world' = [world EXCEPT ![p] = w]
          /\ job' = [j \in Refreshers |->
               IF job[j].phase = "probe" /\ p \in Cards
               THEN [job[j] EXCEPT !.seen[p] = @ \cup {w}] ELSE job[j]]
          /\ UNCHANGED <<rows, observed, age, refreshing, poll>>
    BY <1>8 DEF Change
  <2>2. world' \in [Providers -> Reply]
    <3>1. w \in Reply
      BY StatusAssumption DEF Answers
    <3> QED BY <2>1, <3>1 DEF Inv, RowsOK
  <2>3. \A j \in Refreshers :
          /\ job'[j].phase = job[j].phase /\ job'[j].elapsed = job[j].elapsed
          /\ job'[j].result = job[j].result /\ DOMAIN job'[j] = {"phase", "elapsed", "result", "seen"}
    BY <2>1 DEF Inv, JobsOK
  <2>4. job' = [j \in Refreshers |-> job'[j]]
    BY <2>1
  <2>5. JobsOK'
    BY <2>3, <2>4 DEF Inv, JobsOK
  <2>6. RowsOK' /\ refreshing' = refreshing
    BY <2>1, <2>2 DEF Inv, RowsOK
  <2>7. \A i \in Refreshers : Busy(i)' = Busy(i)
    BY <2>3 DEF Busy
  <2> QED BY <2>5, <2>6, <2>7 DEF Inv, SlotInv
<1>9. CASE Tick
  <2>1. /\ age' = IF age < StatusTTL THEN age + 1 ELSE age
        /\ job' = [j \in Refreshers |->
             IF job[j].phase \in {"probe", "store"} THEN [job[j] EXCEPT !.elapsed = @ + 1] ELSE job[j]]
        /\ UNCHANGED <<world, rows, observed, refreshing, poll>>
        /\ \A j \in Refreshers : job[j].phase = "store" => job[j].elapsed < StatusTTL
    BY <1>9 DEF Tick
  <2>2. \A j \in Refreshers :
          /\ job'[j].phase = job[j].phase /\ job'[j].result = job[j].result
          /\ job'[j].elapsed \in {job[j].elapsed, job[j].elapsed + 1}
          /\ DOMAIN job'[j] = {"phase", "elapsed", "result", "seen"}
    BY <2>1 DEF Inv, JobsOK
  <2>3. job' = [j \in Refreshers |-> job'[j]]
    BY <2>1
  <2>4. JobsOK'
    BY <2>1, <2>2, <2>3, StatusAssumption DEF Inv, JobsOK
  <2>5. RowsOK' /\ refreshing' = refreshing
    BY <2>1, StatusAssumption DEF Inv, RowsOK
  <2>6. \A i \in Refreshers : Busy(i)' = Busy(i)
    BY <2>2 DEF Busy
  <2> QED BY <2>4, <2>5, <2>6 DEF Inv, SlotInv
<1>10. CASE UNCHANGED vars
  BY <1>10 DEF vars, Inv, JobsOK, RowsOK, SlotInv, Busy
<1> QED
  BY <1>1, <1>2, <1>3, <1>4, <1>5, <1>6, <1>7, <1>8, <1>9, <1>10 DEF Next, RefreshStep, PollStep

(* "Probes never overlap" (refreshProviderStatus, server.go:238): whatever  *)
(* number of health requests finds the rows stale, one refresh at most is   *)
(* under way, and the slot is taken exactly while it is.                    *)
THEOREM OneRefresh == Spec => []ProbesNeverOverlap
<1>1. Inv => ProbesNeverOverlap
  <2> SUFFICES ASSUME Inv PROVE ProbesNeverOverlap
    OBVIOUS
  <2> DEFINE busy == {j \in Refreshers : job[j].phase \in {"probe", "store", "end"}}
  <2>1. TypeOK
    BY DEF Inv, JobsOK, RowsOK, TypeOK
  <2>2. refreshing <=> busy # {}
    BY DEF Inv, SlotInv, Busy
  <2>3. Cardinality(busy) <= 1
    <3>1. CASE busy = {}
      BY <3>1, FS_EmptySet
    <3>2. CASE busy # {}
      <4>1. PICK j \in busy : TRUE
        BY <3>2
      <4>2. busy = {j}
        BY <4>1 DEF Inv, SlotInv, Busy
      <4>3. Cardinality({j}) = 1
        BY FS_Singleton
      <4> QED BY <4>2, <4>3
    <3> QED BY <3>1, <3>2
  <2> QED BY <2>1, <2>2, <2>3 DEF ProbesNeverOverlap
<1> QED
  BY <1>1, InvInit, InvNext, PTL DEF Spec

----------------------------------------------------------------------------
(* What a probe found its provider would have answered since the refresh    *)
(* began, and what it would answer now is remembered while probes run.      *)
Found(r) ==
  r.phase \in {"probe", "store"} =>
    /\ DOMAIN r.seen = Cards
    /\ \A p \in DOMAIN r.result : \E w \in r.seen[p] : r.result[p] = StatusOf(p, w)

Remembers(r, now) == r.phase = "probe" => \A p \in Cards : now[p] \in r.seen[p]

SeenInv == \A j \in Refreshers : Found(job[j]) /\ Remembers(job[j], world)

LEMMA SeenInit == Init => SeenInv
BY DEF Init, SeenInv, Found, Remembers, NoJob

(* A step of one refresher while the providers stay as they are.            *)
LEMMA SeenKeep ==
  ASSUME Inv, SeenInv, NEW j \in Refreshers, NEW x, job' = [job EXCEPT ![j] = x], UNCHANGED world,
         Found(x), Remembers(x, world)
  PROVE  SeenInv'
<1>1. job'[j] = x /\ \A i \in Refreshers : i # j => job'[i] = job[i]
  BY Keep
<1> QED
  BY <1>1 DEF SeenInv

LEMMA SeenNext == Inv /\ SeenInv /\ [Next]_vars => SeenInv'
<1> SUFFICES ASSUME Inv, SeenInv, [Next]_vars PROVE SeenInv'
  OBVIOUS
<1>1. ASSUME NEW j \in Refreshers, Begin(j) PROVE SeenInv'
  <2>1. Found(NoJob) /\ Remembers(NoJob, world)
    BY DEF Found, Remembers, NoJob
  <2>2. Found(Probing(j)) /\ Remembers(Probing(j), world)
    BY DEF Found, Remembers, Probing
  <2>3. UNCHANGED world /\ \E x \in {NoJob, Probing(j)} : job' = [job EXCEPT ![j] = x]
    BY <1>1 DEF Begin
  <2> QED BY <2>1, <2>2, <2>3, SeenKeep
<1>2. ASSUME NEW j \in Refreshers, NEW p \in Cards, ProbeEnds(j, p) PROVE SeenInv'
  <2> DEFINE x == [job[j] EXCEPT !.result = Extend(@, p, StatusOf(p, world[p]))]
  <2>1. job' = [job EXCEPT ![j] = x] /\ UNCHANGED world /\ job[j].phase = "probe"
    BY <1>2 DEF ProbeEnds, Inv, JobsOK
  <2>2. /\ x.phase = "probe" /\ x.seen = job[j].seen
        /\ x.result = Extend(job[j].result, p, StatusOf(p, world[p]))
    BY <2>1 DEF Inv, JobsOK
  <2>3. /\ DOMAIN job[j].seen = Cards /\ \A q \in Cards : world[q] \in job[j].seen[q]
        /\ \A q \in DOMAIN job[j].result : \E w \in job[j].seen[q] : job[j].result[q] = StatusOf(q, w)
    BY <2>1 DEF SeenInv, Found, Remembers
  <2> HIDE DEF x
  <2>4. \A q \in DOMAIN x.result : \E w \in x.seen[q] : x.result[q] = StatusOf(q, w)
    <3> TAKE q \in DOMAIN x.result
    <3>1. CASE q = p
      BY <2>2, <2>3, <3>1 DEF Extend
    <3>2. CASE q # p
      BY <2>2, <2>3, <3>2 DEF Extend
    <3> QED BY <3>1, <3>2
  <2>5. Found(x) /\ Remembers(x, world)
    BY <2>2, <2>3, <2>4 DEF Found, Remembers
  <2> QED BY <2>1, <2>5, SeenKeep
<1>3. ASSUME NEW j \in Refreshers, Stamp(j) PROVE SeenInv'
  <2> DEFINE x == [job[j] EXCEPT !.phase = "store", !.elapsed = 0]
  <2>1. job' = [job EXCEPT ![j] = x] /\ UNCHANGED world /\ job[j].phase = "probe"
    BY <1>3 DEF Stamp, Inv, JobsOK
  <2>2. x.phase = "store" /\ x.seen = job[j].seen /\ x.result = job[j].result
    BY DEF Inv, JobsOK
  <2> HIDE DEF x
  <2>3. Found(x) /\ Remembers(x, world)
    BY <2>1, <2>2 DEF SeenInv, Found, Remembers
  <2> QED BY <2>1, <2>3, SeenKeep
<1>4. ASSUME NEW j \in Refreshers, Store(j) \/ End(j) PROVE SeenInv'
  <2>1. Found(NoJob) /\ Remembers(NoJob, world)
    BY DEF Found, Remembers, NoJob
  <2>2. Found([NoJob EXCEPT !.phase = "end"]) /\ Remembers([NoJob EXCEPT !.phase = "end"], world)
    BY DEF Found, Remembers, NoJob
  <2>3. UNCHANGED world /\ \E x \in {NoJob, [NoJob EXCEPT !.phase = "end"]} : job' = [job EXCEPT ![j] = x]
    BY <1>4 DEF Store, End
  <2> QED BY <2>1, <2>2, <2>3, SeenKeep
<1>5. ASSUME NEW h \in Polls, PollBegins(h) \/ Answer(h) PROVE SeenInv'
  BY <1>5 DEF PollBegins, Answer, SeenInv
<1>6. ASSUME NEW h \in Polls, Launch(h) PROVE SeenInv'
  <2>1. PICK j \in Refreshers : job[j].phase = "idle" /\ job' = [job EXCEPT ![j].phase = "begin"]
    BY <1>6 DEF Launch
  <2> DEFINE x == [job[j] EXCEPT !.phase = "begin"]
  <2>2. job' = [job EXCEPT ![j] = x] /\ x.phase = "begin" /\ UNCHANGED world
    BY <1>6, <2>1 DEF Launch, Inv, JobsOK
  <2> HIDE DEF x
  <2>3. Found(x) /\ Remembers(x, world)
    BY <2>2 DEF Found, Remembers
  <2> QED BY <2>2, <2>3, SeenKeep
<1>7. ASSUME NEW p \in Providers, Change(p) PROVE SeenInv'
  <2>1. PICK w \in Answers(p) :
          /\ world' = [world EXCEPT ![p] = w]
          /\ job' = [j \in Refreshers |->
               IF job[j].phase = "probe" /\ p \in Cards
               THEN [job[j] EXCEPT !.seen[p] = @ \cup {w}] ELSE job[j]]
    BY <1>7 DEF Change
  <2>2. world'[p] = w /\ \A q \in Cards : q # p => world'[q] = world[q]
    BY <2>1 DEF Inv, RowsOK, Cards, Providers
  <2> SUFFICES ASSUME NEW j \in Refreshers PROVE Found(job'[j]) /\ Remembers(job'[j], world')
    BY DEF SeenInv
  <2>3. Found(job[j]) /\ Remembers(job[j], world)
    BY DEF SeenInv
  <2>4. CASE job[j].phase = "probe" /\ p \in Cards
    <3> DEFINE x == [job[j] EXCEPT !.seen[p] = @ \cup {w}]
    <3>1. job'[j] = x
      BY <2>1, <2>4
    <3>2. /\ x.phase = "probe" /\ x.result = job[j].result /\ DOMAIN job[j].seen = Cards
          /\ x.seen = [job[j].seen EXCEPT ![p] = @ \cup {w}]
      BY <2>3, <2>4 DEF Inv, JobsOK, Found
    <3> HIDE DEF x
    <3>3. DOMAIN x.seen = Cards /\ w \in x.seen[p] /\ \A q \in Cards : job[j].seen[q] \subseteq x.seen[q]
      BY <2>4, <3>2
    <3>4. Remembers(x, world')
      BY <2>2, <2>3, <2>4, <3>3 DEF Remembers
    <3>5. DOMAIN x.result \subseteq Cards
      BY <2>4, <3>2 DEF Inv, JobsOK
    <3>6. Found(x)
      BY <2>3, <2>4, <3>2, <3>3, <3>5 DEF Found
    <3> QED BY <3>1, <3>4, <3>6
  <2>5. CASE job[j].phase = "probe" /\ p \notin Cards
    <3>1. \A q \in Cards : world'[q] = world[q]
      BY <2>2, <2>5
    <3> QED BY <2>1, <2>3, <2>5, <3>1 DEF Remembers
  <2>6. CASE job[j].phase # "probe"
    BY <2>1, <2>3, <2>6 DEF Remembers
  <2> QED BY <2>4, <2>5, <2>6
<1>8. CASE Tick
  <2>1. UNCHANGED world /\ job' = [j \in Refreshers |->
          IF job[j].phase \in {"probe", "store"} THEN [job[j] EXCEPT !.elapsed = @ + 1] ELSE job[j]]
    BY <1>8 DEF Tick
  <2>2. \A j \in Refreshers : /\ job'[j].phase = job[j].phase /\ job'[j].result = job[j].result
                              /\ job'[j].seen = job[j].seen
    BY <2>1 DEF Inv, JobsOK
  <2>3. \A j \in Refreshers : Found(job'[j]) /\ Remembers(job'[j], world)
    BY <2>2 DEF SeenInv, Found, Remembers
  <2> QED BY <2>1, <2>3 DEF SeenInv
<1>9. CASE UNCHANGED vars
  BY <1>9 DEF vars, SeenInv
<1> QED
  BY <1>1, <1>2, <1>3, <1>4, <1>5, <1>6, <1>7, <1>8, <1>9 DEF Next, RefreshStep, PollStep

(* Only what a probe of this refresh found replaces a card, and no card     *)
(* comes or goes (refreshProviderStatus, server.go:238).                    *)
THEOREM CardsShowAnswers == Spec => CardsAreTrue
<1>1. ASSUME Inv, SeenInv, Next, NEW j \in Refreshers, job[j].phase = "store", job'[j].phase = "end"
      PROVE  /\ DOMAIN rows' = Cards
             /\ \A p \in Cards : \E w \in job[j].seen[p] : rows'[p] = StatusOf(p, w)
  <2>1. ASSUME Store(j)
        PROVE  /\ DOMAIN rows' = Cards
               /\ \A p \in Cards : \E w \in job[j].seen[p] : rows'[p] = StatusOf(p, w)
    <3>1. rows' = [p \in Cards |-> job[j].result[p]]
      BY <2>1 DEF Store, Kept
    <3>2. DOMAIN job[j].result = Cards
      BY <1>1 DEF Inv, JobsOK
    <3>3. \A p \in Cards : \E w \in job[j].seen[p] : job[j].result[p] = StatusOf(p, w)
      BY <1>1, <3>2 DEF SeenInv, Found
    <3> QED BY <3>1, <3>3
  <2>2. ASSUME job'[j] = job[j] \/ job'[j].phase = job[j].phase PROVE FALSE
    BY <1>1, <2>2
  <2>3. ASSUME NEW i \in Refreshers, NEW x, job' = [job EXCEPT ![i] = x], i # j PROVE FALSE
    BY <1>1, <2>2, <2>3, Keep
  <2>4. ASSUME NEW i \in Refreshers, RefreshStep(i), ~Store(j) PROVE FALSE
    <3>1. CASE i = j
      <4>1. \E p \in Cards : ProbeEnds(j, p)
        BY <1>1, <2>4, <3>1 DEF RefreshStep, Begin, Stamp, End
      <4> QED BY <1>1, <4>1 DEF ProbeEnds
    <3>2. CASE i # j
      <4>1. \E x : job' = [job EXCEPT ![i] = x]
        BY <2>4 DEF RefreshStep, Begin, ProbeEnds, Stamp, Store, End
      <4> QED BY <2>3, <3>2, <4>1
    <3> QED BY <3>1, <3>2
  <2>5. ASSUME NEW h \in Polls, PollStep(h) PROVE FALSE
    <3>1. CASE PollBegins(h) \/ Answer(h)
      BY <2>2, <3>1 DEF PollBegins, Answer
    <3>2. CASE Launch(h)
      <4>1. PICK i \in Refreshers : job[i].phase = "idle" /\ job' = [job EXCEPT ![i].phase = "begin"]
        BY <3>2 DEF Launch
      <4>2. i # j
        BY <1>1, <4>1
      <4> QED BY <2>2, <4>1, <4>2 DEF Inv, JobsOK
    <3> QED BY <2>5, <3>1, <3>2 DEF PollStep
  <2>6. ASSUME NEW p \in Providers, Change(p) PROVE FALSE
    <3>1. PICK w : job' = [i \in Refreshers |->
               IF job[i].phase = "probe" /\ p \in Cards
               THEN [job[i] EXCEPT !.seen[p] = @ \cup {w}] ELSE job[i]]
      BY <2>6 DEF Change
    <3>2. job'[j] = job[j]
      BY <1>1, <3>1
    <3> QED BY <2>2, <3>2
  <2>7. ASSUME Tick PROVE FALSE
    <3>1. job'[j] = [job[j] EXCEPT !.elapsed = @ + 1]
      BY <1>1, <2>7 DEF Tick
    <3>2. job'[j].phase = job[j].phase
      BY <3>1 DEF Inv, JobsOK
    <3> QED BY <2>2, <3>2
  <2> QED
    BY <1>1, <2>1, <2>4, <2>5, <2>6, <2>7 DEF Next
<1>2. Inv /\ SeenInv /\ [Next]_vars
      => [\A j \in Refreshers : job[j].phase = "store" /\ job'[j].phase = "end" =>
            /\ DOMAIN rows' = Cards
            /\ \A p \in Cards : \E w \in job[j].seen[p] : rows'[p] = StatusOf(p, w)]_vars
  BY <1>1
<1>3. Spec => [](Inv /\ SeenInv)
  BY InvInit, InvNext, SeenInit, SeenNext, PTL DEF Spec
<1> QED
  BY <1>2, <1>3, PTL DEF Spec, CardsAreTrue

-----------------------------------------------------------------------------
(* The event stream.                                                        *)

(* The handlers that are subscribed are those in the broker's map, the      *)
(* closed channels are those of the handlers that are gone, and a publisher *)
(* has clients to serve only while it holds the lock, all of them in the    *)
(* map.                                                                     *)
BrokerInv ==
  /\ client \in [Clients -> {"new", "on", "writing", "leaving", "gone"}]
  /\ clients = {c \in Clients : client[c] \in {"on", "writing", "leaving"}}
  /\ closed = {c \in Clients : client[c] = "gone"}
  /\ targets \in [Publishers -> SUBSET Clients]
  /\ \A p \in Publishers : targets[p] \subseteq clients
  /\ \A p \in Publishers : p \notin reading => targets[p] = {}

LEMMA BrokerInvInit == StreamInit => BrokerInv
BY DEF StreamInit, BrokerInv

LEMMA BrokerInvNext == BrokerInv /\ [StreamNext]_stream => BrokerInv'
<1> SUFFICES ASSUME BrokerInv, [StreamNext]_stream PROVE BrokerInv'
  OBVIOUS
<1> USE DEF BrokerInv
<1>1. ASSUME NEW c \in Clients, Subscribe(c) PROVE BrokerInv'
  BY <1>1 DEF Subscribe
<1>2. ASSUME NEW c \in Clients, Take(c) \/ Written(c) \/ Disconnect(c) PROVE BrokerInv'
  <2>1. /\ client' = [client EXCEPT ![c] = client'[c]]
        /\ client[c] \in {"on", "writing"} /\ client'[c] \in {"on", "writing", "leaving"}
    BY <1>2 DEF Take, Written, Disconnect
  <2>2. UNCHANGED <<clients, closed, targets, reading>>
    BY <1>2 DEF Take, Written, Disconnect
  <2> QED BY <2>1, <2>2
<1>3. ASSUME NEW c \in Clients, Unsubscribe(c) PROVE BrokerInv'
  <2>1. \A p \in Publishers : targets[p] = {}
    BY <1>3 DEF Unsubscribe, ReadLocked
  <2> QED BY <1>3, <2>1 DEF Unsubscribe
<1>4. ASSUME NEW p \in Publishers, Publish(p) PROVE BrokerInv'
  BY <1>4 DEF Publish
<1>5. ASSUME NEW p \in Publishers, NEW c \in Clients, Offer(p, c) PROVE BrokerInv'
  BY <1>5 DEF Offer
<1>6. ASSUME NEW p \in Publishers, Published(p) PROVE BrokerInv'
  BY <1>6 DEF Published
<1>7. CASE UNCHANGED stream
  BY <1>7 DEF stream
<1> QED
  BY <1>1, <1>2, <1>3, <1>4, <1>5, <1>6, <1>7 DEF StreamNext, ClientStep, PublishStep

(* unsubscribe closes a client's channel under the write lock, and publish  *)
(* sends under the read lock (server.go:1137-1160): no publisher still has  *)
(* to serve a client whose channel is closed.                               *)
THEOREM ClosedIsNotServed == StreamSpec => []NoSendOnClosed
<1>1. BrokerInv => NoSendOnClosed
  BY DEF BrokerInv, NoSendOnClosed
<1> QED
  BY <1>1, BrokerInvInit, BrokerInvNext, PTL DEF StreamSpec

----------------------------------------------------------------------------
(* What a channel of events holds, as it is appended to and taken from.     *)

EventSeq == Seq(Event)

LEMMA NothingBuffered ==
  ASSUME NEW p, NEW n \in Nat
  PROVE  Buffers(<<>>, p, n + 1, n)
BY DEF Buffers, From

LEMMA AppendBuffers ==
  ASSUME NEW s \in EventSeq, NEW p \in Publishers, NEW first \in Nat, NEW n \in 1..MaxEvents,
         first <= n, Buffers(s, p, first, n - 1)
  PROVE  Buffers(Append(s, [by |-> p, n |-> n]), p, first, n)
<1> DEFINE e == [by |-> p, n |-> n]
<1> DEFINE t == Append(s, e)
<1>1. /\ Len(t) = Len(s) + 1 /\ Len(s) \in Nat /\ t[Len(s) + 1] = e
      /\ \A i \in 1..Len(s) : t[i] = s[i]
  BY EventStreamAssumption DEF EventSeq, Event
<1> HIDE DEF t
<1>2. e.by = p /\ e.n = n
  OBVIOUS
<1> HIDE DEF e
<1>3. From(t, p) = From(s, p) \cup {Len(s) + 1}
  BY <1>1, <1>2 DEF From
<1>4. /\ {s[i].n : i \in From(s, p)} = first..(n - 1)
      /\ \A i, j \in From(s, p) : i < j => s[i].n < s[j].n
  BY DEF Buffers
<1>5. \A i \in From(s, p) : i \in Nat /\ i < Len(s) + 1 /\ t[i] = s[i] /\ s[i].n \in first..(n - 1)
  BY <1>1, <1>4 DEF From
<1>6. {t[i].n : i \in From(t, p)} = first..n
  <2>1. \A i \in From(t, p) : t[i].n \in first..n
    BY <1>1, <1>2, <1>3, <1>5
  <2>2. \A m \in first..n : \E i \in From(t, p) : t[i].n = m
    <3> TAKE m \in first..n
    <3>1. CASE m = n
      BY <1>1, <1>2, <1>3, <3>1
    <3>2. CASE m # n
      <4>1. m \in first..(n - 1)
        BY <3>2
      <4>2. PICK i \in From(s, p) : s[i].n = m
        BY <1>4, <4>1
      <4> QED BY <1>3, <1>5, <4>2
    <3> QED BY <3>1, <3>2
  <2> QED BY <2>1, <2>2
<1>7. \A i, j \in From(t, p) : i < j => t[i].n < t[j].n
  <2> SUFFICES ASSUME NEW i \in From(t, p), NEW j \in From(t, p), i < j PROVE t[i].n < t[j].n
    OBVIOUS
  <2>1. i \in From(s, p)
    BY <1>1, <1>3, <1>5
  <2>2. CASE j \in From(s, p)
    BY <1>4, <1>5, <2>1, <2>2
  <2>3. CASE j = Len(s) + 1
    <3>1. t[j].n = n
      BY <1>1, <1>2, <2>3
    <3>2. t[i].n \in first..(n - 1)
      BY <1>5, <2>1
    <3> QED BY <3>1, <3>2
  <2> QED BY <1>3, <2>2, <2>3
<1> QED
  BY <1>6, <1>7 DEF Buffers, t, e

LEMMA AppendOther ==
  ASSUME NEW s \in EventSeq, NEW p, NEW first, NEW latest, Buffers(s, p, first, latest),
         NEW q \in Publishers \ {p}, NEW n \in 1..MaxEvents
  PROVE  Buffers(Append(s, [by |-> q, n |-> n]), p, first, latest)
<1> DEFINE e == [by |-> q, n |-> n]
<1> DEFINE t == Append(s, e)
<1>1. /\ Len(t) = Len(s) + 1 /\ Len(s) \in Nat /\ t[Len(s) + 1] = e
      /\ \A i \in 1..Len(s) : t[i] = s[i]
  BY EventStreamAssumption DEF EventSeq, Event
<1> HIDE DEF t
<1>2. e.by # p
  OBVIOUS
<1> HIDE DEF e
<1>3. From(t, p) = From(s, p) /\ \A i \in From(s, p) : t[i] = s[i]
  BY <1>1, <1>2 DEF From
<1>4. Buffers(t, p, first, latest)
  BY <1>3 DEF Buffers
<1> QED
  BY <1>4 DEF t, e

LEMMA TailIs ==
  ASSUME NEW s \in EventSeq, s # <<>>
  PROVE  /\ Head(s) = s[1] /\ Len(s) \in Nat \ {0} /\ Len(Tail(s)) = Len(s) - 1 /\ Tail(s) \in EventSeq
         /\ \A i \in 1..Len(Tail(s)) : i + 1 \in 1..Len(s) /\ Tail(s)[i] = s[i + 1]
         /\ \A i \in 1..Len(s) : s[i] \in Event
<1>1. Head(s) = s[1] /\ Len(s) \in Nat \ {0} /\ Tail(s) \in EventSeq
  BY DEF EventSeq
<1>2. Len(Tail(s)) = Len(s) - 1 /\ \A i \in 1..Len(Tail(s)) : Tail(s)[i] = s[i + 1]
  BY DEF EventSeq
<1>3. \A i \in 1..Len(s) : s[i] \in Event
  <2> DEFINE X == Event
  <2>1. s \in Seq(X)
    BY DEF EventSeq
  <2> HIDE DEF X
  <2>2. \A i \in 1..Len(s) : s[i] \in X
    BY <2>1
  <2> QED BY <2>2 DEF X
<1> QED
  BY <1>1, <1>2, <1>3

(* The oldest event of a publisher is the one after the last taken.         *)
LEMMA TakeBuffers ==
  ASSUME NEW s \in EventSeq, s # <<>>, NEW p, s[1].by = p, NEW first \in Nat, NEW latest \in Nat,
         Buffers(s, p, first, latest)
  PROVE  s[1].n = first /\ first <= latest /\ Buffers(Tail(s), p, first + 1, latest)
<1> DEFINE t == Tail(s)
<1>1. /\ Len(s) \in Nat \ {0} /\ Len(t) = Len(s) - 1
      /\ \A i \in 1..Len(t) : i + 1 \in 1..Len(s) /\ t[i] = s[i + 1]
      /\ \A i \in 1..Len(s) : s[i].n \in Nat
  BY TailIs, EventStreamAssumption DEF Event
<1> HIDE DEF t
<1>2. /\ {s[i].n : i \in From(s, p)} = first..latest
      /\ \A i, j \in From(s, p) : i < j => s[i].n < s[j].n
  BY DEF Buffers
<1>3. 1 \in From(s, p) /\ \A i \in From(s, p) : i \in 1..Len(s) /\ s[i].n \in first..latest
  BY <1>1, <1>2 DEF From
<1>4. s[1].n = first /\ first <= latest
  <2>1. PICK i \in From(s, p) : s[i].n = first
    BY <1>2, <1>3
  <2>2. CASE i = 1
    BY <1>3, <2>1, <2>2
  <2>3. CASE i # 1
    BY <1>1, <1>2, <1>3, <2>1, <2>3
  <2> QED BY <2>2, <2>3
<1>5. \A i \in From(t, p) : i \in Nat /\ i + 1 \in From(s, p) /\ t[i] = s[i + 1]
  BY <1>1 DEF From
<1>6. \A i \in From(s, p) : i # 1 => i - 1 \in From(t, p) /\ t[i - 1] = s[i]
  <2> SUFFICES ASSUME NEW i \in From(s, p), i # 1 PROVE i - 1 \in From(t, p) /\ t[i - 1] = s[i]
    OBVIOUS
  <2>1. i - 1 \in 1..Len(t) /\ (i - 1) + 1 = i
    BY <1>1, <1>3
  <2>2. t[i - 1] = s[i]
    BY <1>1, <2>1
  <2> QED BY <2>1, <2>2 DEF From
<1>7. {t[i].n : i \in From(t, p)} = (first + 1)..latest
  <2>1. ASSUME NEW i \in From(t, p) PROVE t[i].n \in (first + 1)..latest
    <3>1. i \in Nat /\ i > 0 /\ i + 1 \in From(s, p) /\ t[i] = s[i + 1]
      BY <1>5 DEF From
    <3>2. s[1].n < s[i + 1].n /\ s[i + 1].n \in first..latest
      BY <1>2, <1>3, <3>1
    <3> QED BY <1>4, <3>1, <3>2
  <2>2. \A m \in (first + 1)..latest : \E i \in From(t, p) : t[i].n = m
    <3> TAKE m \in (first + 1)..latest
    <3>1. m \in first..latest /\ m # first
      OBVIOUS
    <3>2. PICK i \in From(s, p) : s[i].n = m
      BY <1>2, <3>1
    <3>3. i # 1
      BY <1>4, <3>1, <3>2
    <3> QED BY <1>6, <3>2, <3>3
  <2> QED BY <2>1, <2>2
<1>8. \A i, j \in From(t, p) : i < j => t[i].n < t[j].n
  BY <1>2, <1>5
<1> QED
  BY <1>4, <1>7, <1>8 DEF Buffers, t

LEMMA TakeOther ==
  ASSUME NEW s \in EventSeq, s # <<>>, NEW p, s[1].by # p, NEW first, NEW latest, Buffers(s, p, first, latest)
  PROVE  Buffers(Tail(s), p, first, latest)
<1> DEFINE t == Tail(s)
<1>1. /\ Len(s) \in Nat \ {0} /\ Len(t) = Len(s) - 1
      /\ \A i \in 1..Len(t) : i + 1 \in 1..Len(s) /\ t[i] = s[i + 1]
      /\ \A i \in 1..Len(s) : s[i].n \in Nat
  BY TailIs, EventStreamAssumption DEF Event
<1> HIDE DEF t
<1>2. \A i \in From(t, p) : i \in Nat /\ i + 1 \in From(s, p) /\ t[i] = s[i + 1]
  BY <1>1 DEF From
<1>3. \A i \in From(s, p) : i - 1 \in From(t, p) /\ t[i - 1] = s[i]
  <2> SUFFICES ASSUME NEW i \in From(s, p) PROVE i - 1 \in From(t, p) /\ t[i - 1] = s[i]
    OBVIOUS
  <2>1. i \in 1..Len(s) /\ i # 1 /\ s[i].by = p
    BY DEF From
  <2>2. i - 1 \in 1..Len(t) /\ (i - 1) + 1 = i
    BY <1>1, <2>1
  <2>3. t[i - 1] = s[i]
    BY <1>1, <2>2
  <2> QED BY <2>1, <2>2, <2>3 DEF From
<1>4. {t[i].n : i \in From(t, p)} = {s[i].n : i \in From(s, p)}
  <2>1. \A i \in From(t, p) : \E j \in From(s, p) : s[j].n = t[i].n
    BY <1>2
  <2>2. \A j \in From(s, p) : \E i \in From(t, p) : s[j].n = t[i].n
    BY <1>3
  <2> QED BY <2>1, <2>2
<1>5. \A i, j \in From(t, p) : i < j => t[i].n < t[j].n
  <2>1. \A i, j \in From(s, p) : i < j => s[i].n < s[j].n
    BY DEF Buffers
  <2> QED BY <1>2, <2>1
<1> QED
  BY <1>4, <1>5 DEF Buffers, t

----------------------------------------------------------------------------
(* A client that missed nothing has in its channel what comes after the     *)
(* last event it took, up to the latest one it was served.                  *)

Latest(c, p) == IF c \in targets[p] THEN event[p] - 1 ELSE event[p]

UpToDate(s, p, taken, latest) == taken <= latest /\ Buffers(s, p, taken + 1, latest)

TypeInv ==
  /\ StreamTypeOK
  /\ channel \in [Clients -> EventSeq]
  /\ \A p \in reading : event[p] > 0
  /\ \A c \in Clients : client[c] = "new" => channel[c] = <<>>

ServedInv == \A c \in clients \ missed, p \in Publishers : UpToDate(channel[c], p, last[c][p], Latest(c, p))

EventInv == BrokerInv /\ TypeInv /\ ServedInv

LEMMA EventInvInit == StreamInit => EventInv
<1> SUFFICES ASSUME StreamInit PROVE EventInv
  OBVIOUS
<1>1. TypeInv
  BY EventStreamAssumption DEF StreamInit, TypeInv, StreamTypeOK, EventSeq
<1>2. ServedInv
  BY DEF StreamInit, ServedInv
<1> QED BY <1>1, <1>2, BrokerInvInit DEF EventInv

LEMMA LatestIs ==
  ASSUME EventInv, NEW c \in Clients, NEW p \in Publishers
  PROVE  Latest(c, p) \in 0..MaxEvents /\ event[p] \in 0..MaxEvents /\ last[c][p] \in 0..MaxEvents
         /\ (c \in targets[p] => event[p] > 0 /\ p \in reading /\ c \in clients)
<1>1. c \in targets[p] => p \in reading /\ c \in clients
  BY DEF EventInv, BrokerInv
<1>2. event[p] \in 0..MaxEvents /\ last[c][p] \in 0..MaxEvents /\ MaxEvents \in Nat
  BY EventStreamAssumption DEF EventInv, TypeInv, StreamTypeOK
<1>3. p \in reading => event[p] > 0
  BY DEF EventInv, TypeInv
<1> QED
  BY <1>1, <1>2, <1>3 DEF Latest

LEMMA TypeInvNext == EventInv /\ [StreamNext]_stream => TypeInv'
<1> SUFFICES ASSUME EventInv, [StreamNext]_stream PROVE TypeInv'
  OBVIOUS
<1> USE DEF EventInv, TypeInv, StreamTypeOK
<1>0. MaxEvents \in Nat /\ ChannelSize \in Nat \ {0}
  BY EventStreamAssumption
<1>1. ASSUME NEW c \in Clients, Subscribe(c) PROVE TypeInv'
  BY <1>1 DEF Subscribe
<1>2. ASSUME NEW c \in Clients, Take(c) PROVE TypeInv'
  <2> DEFINE e == Head(channel[c])
  <2>1. /\ channel[c] \in EventSeq /\ channel[c] # <<>> /\ client[c] = "on"
        /\ client' = [client EXCEPT ![c] = "writing"]
        /\ channel' = [channel EXCEPT ![c] = Tail(channel[c])]
        /\ last' = [last EXCEPT ![c] = [last[c] EXCEPT ![e.by] = e.n]]
        /\ UNCHANGED <<clients, closed, event, reading, targets, missed>>
    BY <1>2 DEF Take
  <2>2. e \in Event /\ Tail(channel[c]) \in EventSeq /\ Len(Tail(channel[c])) <= ChannelSize
    BY <1>0, <2>1, TailIs
  <2> HIDE DEF e
  <2>3. [last[c] EXCEPT ![e.by] = e.n] \in [Publishers -> 0..MaxEvents]
    BY <1>0, <2>2 DEF Event
  <2>4. channel' \in [Clients -> EventSeq] /\ \A d \in Clients : channel'[d] \in Seq(Event) /\ Len(channel'[d]) <= ChannelSize
    BY <2>1, <2>2 DEF EventSeq
  <2>5. \A d \in Clients : client'[d] = "new" => channel'[d] = <<>>
    BY <2>1
  <2>6. last' \in [Clients -> [Publishers -> 0..MaxEvents]]
    BY <2>1, <2>3
  <2>7. client' \in [Clients -> {"new", "on", "writing", "leaving", "gone"}]
    BY <2>1
  <2> QED BY <2>1, <2>4, <2>5, <2>6, <2>7
<1>3. ASSUME NEW c \in Clients, Written(c) \/ Disconnect(c) \/ Unsubscribe(c) PROVE TypeInv'
  <2>1. \E x \in {"on", "leaving", "gone"} : client' = [client EXCEPT ![c] = x]
    BY <1>3 DEF Written, Disconnect, Unsubscribe
  <2>2. closed' \subseteq Clients /\ clients' \subseteq Clients
        /\ UNCHANGED <<channel, event, reading, targets, last, missed>>
    BY <1>3 DEF Written, Disconnect, Unsubscribe
  <2> QED BY <2>1, <2>2
<1>4. ASSUME NEW p \in Publishers, Publish(p) PROVE TypeInv'
  <2>1. event[p] + 1 \in 0..MaxEvents /\ event[p] + 1 > 0
    BY <1>0, <1>4 DEF Publish
  <2> QED BY <1>4, <2>1 DEF Publish
<1>5. ASSUME NEW p \in Publishers, NEW c \in Clients, Offer(p, c) PROVE TypeInv'
  <2> DEFINE e == [by |-> p, n |-> event[p]]
  <2>1. c \in targets[p] /\ client[c] # "new" /\ event[p] \in 1..MaxEvents
    <3>1. event[p] \in 0..MaxEvents /\ event[p] > 0 /\ c \in clients /\ c \in targets[p]
      BY <1>5, LatestIs DEF Offer
    <3> QED BY <1>0, <3>1 DEF BrokerInv
  <2>2. e \in Event
    BY <2>1 DEF Event
  <2>3. /\ targets' = [targets EXCEPT ![p] = @ \ {c}]
        /\ UNCHANGED <<client, clients, closed, event, reading, last>>
    BY <1>5 DEF Offer
  <2>4. CASE Len(channel[c]) < ChannelSize
    <3>1. channel' = [channel EXCEPT ![c] = Append(channel[c], e)] /\ UNCHANGED missed
      BY <1>5, <2>4 DEF Offer
    <3> HIDE DEF e
    <3>2. Append(channel[c], e) \in EventSeq /\ Len(Append(channel[c], e)) <= ChannelSize
      BY <1>0, <2>2, <2>4 DEF EventSeq
    <3>3. channel' \in [Clients -> EventSeq] /\ \A d \in Clients : channel'[d] \in Seq(Event) /\ Len(channel'[d]) <= ChannelSize
      BY <3>1, <3>2 DEF EventSeq
    <3>4. \A d \in Clients : client'[d] = "new" => channel'[d] = <<>>
      BY <2>1, <2>3, <3>1
    <3> QED BY <2>3, <3>1, <3>3, <3>4
  <2>5. CASE ~(Len(channel[c]) < ChannelSize)
    BY <1>5, <2>3, <2>5 DEF Offer
  <2> QED BY <2>4, <2>5
<1>6. ASSUME NEW p \in Publishers, Published(p) PROVE TypeInv'
  BY <1>6 DEF Published
<1>7. CASE UNCHANGED stream
  BY <1>7 DEF stream
<1> QED
  BY <1>1, <1>2, <1>3, <1>4, <1>5, <1>6, <1>7 DEF StreamNext, ClientStep, PublishStep

LEMMA ServedInvNext == EventInv /\ [StreamNext]_stream => ServedInv'
<1> SUFFICES ASSUME EventInv, [StreamNext]_stream PROVE ServedInv'
  OBVIOUS
<1>0. MaxEvents \in Nat /\ ChannelSize \in Nat \ {0}
  BY EventStreamAssumption
<1>1. ASSUME NEW c \in Clients, Subscribe(c) PROVE ServedInv'
  <2>1. /\ clients' = clients \cup {c} /\ reading = {} /\ client[c] = "new"
        /\ last' = [last EXCEPT ![c] = event]
        /\ UNCHANGED <<channel, closed, event, reading, targets, missed>>
    BY <1>1 DEF Subscribe, ReadLocked
  <2>2. channel[c] = <<>> /\ \A p \in Publishers : targets[p] = {}
    BY <2>1 DEF EventInv, TypeInv, BrokerInv
  <2> SUFFICES ASSUME NEW d \in clients' \ missed', NEW p \in Publishers
               PROVE  UpToDate(channel'[d], p, last'[d][p], Latest(d, p)')
    BY DEF ServedInv
  <2>3. event[p] \in Nat /\ Latest(d, p)' = event[p]
    BY <1>0, <2>1, <2>2 DEF Latest, EventInv, TypeInv, StreamTypeOK
  <2>4. CASE d = c
    <3>1. last'[d][p] = event[p] /\ channel'[d] = <<>>
      BY <2>1, <2>2, <2>4 DEF EventInv, TypeInv, StreamTypeOK
    <3> QED BY <2>3, <3>1, NothingBuffered DEF UpToDate
  <2>5. CASE d # c
    <3>1. d \in clients \ missed /\ last'[d] = last[d] /\ channel'[d] = channel[d]
      BY <2>1, <2>5 DEF EventInv, TypeInv, StreamTypeOK
    <3>2. Latest(d, p) = event[p]
      BY <2>2 DEF Latest
    <3> QED BY <2>3, <3>1, <3>2 DEF EventInv, ServedInv
  <2> QED BY <2>4, <2>5
<1>2. ASSUME NEW c \in Clients, Take(c) PROVE ServedInv'
  <2> DEFINE s == channel[c]
  <2> DEFINE e == s[1]
  <2>1. /\ s \in EventSeq /\ s # <<>> /\ Head(s) = e
        /\ channel' = [channel EXCEPT ![c] = Tail(s)]
        /\ last' = [last EXCEPT ![c] = [last[c] EXCEPT ![e.by] = e.n]]
        /\ UNCHANGED <<clients, closed, event, reading, targets, missed>>
    BY <1>2, TailIs DEF Take, EventInv, TypeInv
  <2> SUFFICES ASSUME NEW d \in clients \ missed, NEW p \in Publishers
               PROVE  UpToDate(channel'[d], p, last'[d][p], Latest(d, p))
    BY <2>1 DEF ServedInv, Latest
  <2>2. d \in Clients /\ UpToDate(channel[d], p, last[d][p], Latest(d, p))
    BY DEF EventInv, ServedInv, BrokerInv
  <2>3. Latest(d, p) \in Nat /\ last[d][p] \in Nat /\ last[d][p] + 1 \in Nat
    BY <1>0, <2>2, LatestIs
  <2>4. CASE d # c
    <3>1. channel'[d] = channel[d] /\ last'[d] = last[d]
      BY <2>1, <2>2, <2>4 DEF EventInv, TypeInv, StreamTypeOK
    <3> QED BY <2>2, <3>1
  <2>5. CASE d = c /\ e.by = p
    <3>1. channel'[d] = Tail(s) /\ last'[d][p] = e.n
      BY <2>1, <2>2, <2>5 DEF EventInv, TypeInv, StreamTypeOK
    <3>2. e.n = last[c][p] + 1 /\ last[c][p] + 1 <= Latest(c, p)
          /\ Buffers(Tail(s), p, (last[c][p] + 1) + 1, Latest(c, p))
      <4> DEFINE first == last[c][p] + 1
      <4> DEFINE latest == Latest(c, p)
      <4>1. first \in Nat /\ latest \in Nat /\ Buffers(s, p, first, latest)
        BY <2>2, <2>3, <2>5 DEF UpToDate
      <4>2. s \in EventSeq /\ s # <<>> /\ s[1].by = p
        BY <2>1, <2>5
      <4> HIDE DEF first, latest, s
      <4>3. s[1].n = first /\ first <= latest /\ Buffers(Tail(s), p, first + 1, latest)
        BY <4>1, <4>2, TakeBuffers
      <4> QED BY <4>3 DEF first, latest
    <3> QED BY <2>5, <3>1, <3>2 DEF UpToDate
  <2>6. CASE d = c /\ e.by # p
    <3>1. channel'[d] = Tail(s) /\ last'[d][p] = last[d][p]
      BY <2>1, <2>2, <2>6 DEF EventInv, TypeInv, StreamTypeOK
    <3>2. Buffers(Tail(s), p, last[c][p] + 1, Latest(c, p))
      BY <2>1, <2>2, <2>6, TakeOther DEF UpToDate
    <3> QED BY <2>2, <2>6, <3>1, <3>2 DEF UpToDate
  <2> QED BY <2>4, <2>5, <2>6
<1>3. ASSUME NEW c \in Clients, Written(c) \/ Disconnect(c) \/ Unsubscribe(c) PROVE ServedInv'
  <2>1. clients' \subseteq clients /\ UNCHANGED <<channel, event, reading, targets, last, missed>>
    BY <1>3 DEF Written, Disconnect, Unsubscribe
  <2> QED BY <2>1 DEF ServedInv, Latest, EventInv
<1>4. ASSUME NEW p \in Publishers, Publish(p) PROVE ServedInv'
  <2>1. /\ p \notin reading /\ targets' = [targets EXCEPT ![p] = clients]
        /\ event' = [event EXCEPT ![p] = event[p] + 1]
        /\ UNCHANGED <<clients, channel, last, missed>>
    BY <1>4 DEF Publish
  <2> SUFFICES ASSUME NEW d \in clients \ missed, NEW q \in Publishers
               PROVE  Latest(d, q)' = Latest(d, q)
    BY <2>1 DEF ServedInv, EventInv
  <2>2. targets[p] = {} /\ event[p] \in Nat
    BY <1>0, <2>1 DEF EventInv, BrokerInv, TypeInv, StreamTypeOK
  <2>3. CASE q = p
    <3>1. targets'[q] = clients /\ event'[q] = event[p] + 1
      BY <2>1, <2>3 DEF EventInv, TypeInv, StreamTypeOK
    <3> QED BY <2>2, <2>3, <3>1 DEF Latest
  <2>4. CASE q # p
    BY <2>1, <2>4 DEF Latest, EventInv, TypeInv, StreamTypeOK
  <2> QED BY <2>3, <2>4
<1>5. ASSUME NEW p \in Publishers, NEW c \in Clients, Offer(p, c) PROVE ServedInv'
  <2> DEFINE s == channel[c]
  <2> DEFINE e == [by |-> p, n |-> event[p]]
  <2>1. /\ targets' = [targets EXCEPT ![p] = @ \ {c}]
        /\ UNCHANGED <<client, clients, closed, event, reading, last>>
        /\ c \in targets[p] /\ missed \subseteq missed'
    BY <1>5 DEF Offer
  <2>2. s \in EventSeq /\ event[p] \in 1..MaxEvents
    BY <1>0, <2>1, LatestIs DEF EventInv, TypeInv
  <2> SUFFICES ASSUME NEW d \in clients \ missed', NEW q \in Publishers
               PROVE  UpToDate(channel'[d], q, last[d][q], Latest(d, q)')
    BY <2>1 DEF ServedInv
  <2>3. d \in Clients /\ UpToDate(channel[d], q, last[d][q], Latest(d, q))
    BY <2>1 DEF EventInv, ServedInv, BrokerInv
  <2>4. CASE d # c
    <3>1. channel'[d] = channel[d]
      BY <1>5, <2>3, <2>4 DEF Offer, EventInv, TypeInv
    <3>2. Latest(d, q)' = Latest(d, q)
      BY <2>1, <2>4 DEF Latest, EventInv, BrokerInv
    <3> QED BY <2>3, <3>1, <3>2
  <2>5. CASE d = c
    <3>1. Len(s) < ChannelSize /\ channel' = [channel EXCEPT ![c] = Append(s, e)]
      BY <1>5, <2>5 DEF Offer
    <3>2. channel'[d] = Append(s, e)
      BY <2>3, <2>5, <3>1 DEF EventInv, TypeInv
    <3>3. CASE q = p
      <4>1. Latest(d, q) = event[p] - 1 /\ Latest(d, q)' = event[p]
        BY <2>1, <2>5, <3>3 DEF Latest, EventInv, BrokerInv
      <4> DEFINE first == last[d][q] + 1
      <4>2. last[d][q] \in Nat /\ first \in Nat /\ first <= event[p] /\ last[d][q] <= event[p]
        BY <1>0, <2>2, <2>3, <4>1, LatestIs DEF UpToDate
      <4>3. Buffers(s, p, first, event[p] - 1)
        BY <2>3, <2>5, <3>3, <4>1 DEF UpToDate
      <4> HIDE DEF first
      <4>4. Buffers(Append(s, e), p, first, event[p])
        BY <2>2, <4>2, <4>3, AppendBuffers
      <4> QED BY <3>2, <3>3, <4>1, <4>2, <4>4 DEF UpToDate, first
    <3>4. CASE q # p
      <4>1. Latest(d, q)' = Latest(d, q)
        BY <2>1, <3>4 DEF Latest, EventInv, BrokerInv
      <4>2. Buffers(Append(s, e), q, last[d][q] + 1, Latest(d, q))
        BY <2>2, <2>3, <2>5, <3>4, AppendOther DEF UpToDate
      <4> QED BY <2>3, <3>2, <4>1, <4>2 DEF UpToDate
    <3> QED BY <3>3, <3>4
  <2> QED BY <2>4, <2>5
<1>6. ASSUME NEW p \in Publishers, Published(p) PROVE ServedInv'
  BY <1>6 DEF Published, ServedInv, Latest, EventInv
<1>7. CASE UNCHANGED stream
  BY <1>7 DEF stream, ServedInv, Latest, EventInv
<1> QED
  BY <1>1, <1>2, <1>3, <1>4, <1>5, <1>6, <1>7 DEF StreamNext, ClientStep, PublishStep

(* Every event reaches a client that keeps up, once and in order, whatever  *)
(* the other clients do (publish, handleStream).                            *)
THEOREM ServedInOrder == StreamSpec => []NothingMissed
<1>1. EventInv => NothingMissed
  <2> SUFFICES ASSUME EventInv PROVE NothingMissed
    OBVIOUS
  <2> QED BY DEF EventInv, TypeInv, ServedInv, UpToDate, Latest, NothingMissed
<1>2. EventInv /\ [StreamNext]_stream => EventInv'
  BY BrokerInvNext, TypeInvNext, ServedInvNext DEF EventInv
<1> QED
  BY <1>1, <1>2, EventInvInit, PTL DEF StreamSpec

=============================================================================
