----------------------------- MODULE ProviderStatus -----------------------------
(***************************************************************************)
(* The provider cards of the dashboard: the cached rows, the background    *)
(* refresh that probes every provider under one deadline, and the health   *)
(* requests that start it (src/internal/api/server.go), with what a probe  *)
(* concludes from a reply (src/internal/provider/status.go).               *)
(*                                                                         *)
(* Time is relative: the age of the rows and of each refresh, counted up   *)
(* to the point where the code stops telling ages apart, so that a         *)
(* behaviour may go on forever.                                            *)
(***************************************************************************)
EXTENDS Naturals, FiniteSets

CONSTANTS
  Feeds,        \* providers with a public status feed
  Ollama,       \* the local server
  OllamaSet,    \* is a loopback base URL configured for it?
  Replies,      \* what a feed may answer, see Reply
  Refreshers,   \* the goroutines of refreshProviderStatus, a bound on them
  Polls,        \* health requests under way, a bound on them
  StatusTTL,    \* providerStatusTTL
  ProbeTimeout  \* provider.ProbeTimeout

(* A reply is an indicator of the feed, "bad" (another status code, or a    *)
(* body that is not a status document), "ok" of Ollama, "down" (no          *)
(* connection) or "slow" (none within any deadline).                        *)
Reply == {"none", "minor", "major", "critical", "ok", "bad", "down", "slow"}

Providers == Feeds \cup {Ollama}

Answers(p) == {w \in Replies : IF p = Ollama THEN w \in {"ok", "bad", "down", "slow"} ELSE w # "ok"}

ASSUME StatusAssumption ==
  /\ Ollama \notin Feeds /\ OllamaSet \in BOOLEAN
  /\ Replies \subseteq Reply
  /\ StatusTTL \in Nat \ {0} /\ ProbeTimeout \in Nat \ {0}

VARIABLES
  world,       \* what each provider would answer now
  rows,        \* Server.providerRows: the status of each card shown
  observed,    \* is providerObservedAt set?
  age,         \* time since providerObservedAt, up to StatusTTL
  refreshing,  \* Server.providerRefreshing
  job,         \* each refresher: its phase, time in it, the results of its
               \* probes and, as history, all each provider would have
               \* answered since it began
  poll         \* where each health request stands

vars == <<world, rows, observed, age, refreshing, job, poll>>

----------------------------------------------------------------------------
(* The cards there are is a matter of configuration.                        *)
Cards == IF OllamaSet THEN Providers ELSE Feeds

(* What has not been verified is never claimed.                             *)
Unverified(p) == IF p = Ollama THEN "unreachable" ELSE "status_unavailable"

(* What a probe makes of a reply: fetchStatuspage, CheckOllama.             *)
FeedStatus(w) ==
  CASE w = "none"                  -> "operational"
    [] w = "minor"                 -> "degraded"
    [] w \in {"major", "critical"} -> "outage"
    [] OTHER                       -> "status_unavailable"

OllamaStatus(w) == IF w = "ok" THEN "operational" ELSE "unreachable"

StatusOf(p, w) == IF p = Ollama THEN OllamaStatus(w) ELSE FeedStatus(w)

StatusValues == {"operational", "degraded", "outage", "status_unavailable", "unreachable"}

NoJob == [phase |-> "idle", elapsed |-> 0, result |-> <<>>, seen |-> <<>>]

Init ==
  /\ world \in {f \in [Providers -> Replies] : \A p \in Providers : f[p] \in Answers(p)}
  /\ rows = [p \in Cards |-> Unverified(p)]
  /\ observed = FALSE /\ age = StatusTTL
  /\ refreshing = FALSE
  /\ \E first \in Refreshers :
       job = [j \in Refreshers |-> IF j = first THEN [NoJob EXCEPT !.phase = "begin"] ELSE NoJob]
  /\ poll = [h \in Polls |-> "idle"]

----------------------------------------------------------------------------
(* beginProviderRefresh: a refresher takes the slot or gives up.            *)
Probing(j) == [phase |-> "probe", elapsed |-> 0, result |-> <<>>,
               seen |-> [p \in Cards |-> {world[p]}]]

(* A mutant: the slot is released by every refresher that leaves.           *)
BeginReleasing(j) ==
  /\ job[j].phase = "begin"
  /\ refreshing' = ~refreshing
  /\ job' = [job EXCEPT ![j] = IF refreshing THEN NoJob ELSE Probing(j)]
  /\ UNCHANGED <<world, rows, observed, age, poll>>

Begin(j) ==
  /\ job[j].phase = "begin"
  /\ refreshing' = TRUE
  /\ job' = [job EXCEPT ![j] = IF refreshing THEN NoJob ELSE Probing(j)]
  /\ UNCHANGED <<world, rows, observed, age, poll>>

(* The probes run in parallel; one ends with its reply, or at the deadline. *)
Outstanding(j) == Cards \ DOMAIN job[j].result

Extend(f, p, v) == [q \in DOMAIN f \cup {p} |-> IF q = p THEN v ELSE f[q]]

ProbeEnds(j, p) ==
  /\ job[j].phase = "probe" /\ p \in Outstanding(j)
  /\ world[p] # "slow" \/ job[j].elapsed = ProbeTimeout
  /\ job' = [job EXCEPT ![j].result = Extend(@, p, StatusOf(p, world[p]))]
  /\ UNCHANGED <<world, rows, observed, age, refreshing, poll>>

(* waitGroup.Wait returns and the clock is read ...                         *)
Stamp(j) ==
  /\ job[j].phase = "probe" /\ Outstanding(j) = {}
  /\ job' = [job EXCEPT ![j].phase = "store", ![j].elapsed = 0]
  /\ UNCHANGED <<world, rows, observed, age, refreshing, poll>>

(* A mutant: a card whose probe failed keeps its status.                    *)
KeptLast(result) == [p \in Cards |-> IF result[p] = Unverified(p) THEN rows[p] ELSE result[p]]

(* ... the rows are replaced under the lock ...                             *)
Kept(result) == [p \in Cards |-> result[p]]

Store(j) ==
  /\ job[j].phase = "store"
  /\ rows' = Kept(job[j].result)
  /\ observed' = TRUE
  /\ age' = job[j].elapsed
  /\ job' = [job EXCEPT ![j] = [NoJob EXCEPT !.phase = "end"]]
  /\ UNCHANGED <<world, refreshing, poll>>

(* A mutant: the slot is not released when every provider was down.         *)
EndUnlessDown(j) ==
  /\ job[j].phase = "end"
  /\ refreshing' = \A p \in Feeds : rows[p] = "status_unavailable"
  /\ job' = [job EXCEPT ![j] = NoJob]
  /\ UNCHANGED <<world, rows, observed, age, poll>>

(* ... and the slot is released by the deferred endProviderRefresh.         *)
End(j) ==
  /\ job[j].phase = "end"
  /\ refreshing' = FALSE
  /\ job' = [job EXCEPT ![j] = NoJob]
  /\ UNCHANGED <<world, rows, observed, age, poll>>

----------------------------------------------------------------------------
(* handleHealth.  ensureFreshProviderStatus looks at the age, starts a      *)
(* refresher, and the request answers with the rows as they are.            *)
Stale == ~observed \/ age = StatusTTL

PollBegins(h) ==
  /\ poll[h] = "idle"
  /\ poll' = [poll EXCEPT ![h] = IF Stale THEN "launch" ELSE "answer"]
  /\ UNCHANGED <<world, rows, observed, age, refreshing, job>>

Launch(h) ==
  /\ poll[h] = "launch"
  /\ poll' = [poll EXCEPT ![h] = "answer"]
  /\ \E j \in Refreshers :
       /\ job[j].phase = "idle"
       /\ job' = [job EXCEPT ![j].phase = "begin"]
  /\ UNCHANGED <<world, rows, observed, age, refreshing>>

Answer(h) ==
  /\ poll[h] = "answer"
  /\ poll' = [poll EXCEPT ![h] = "idle"]
  /\ UNCHANGED <<world, rows, observed, age, refreshing, job>>

----------------------------------------------------------------------------
(* A provider changes.                                                      *)
Change(p) ==
  \E w \in Answers(p) \ {world[p]} :
    /\ world' = [world EXCEPT ![p] = w]
    /\ job' = [j \in Refreshers |->
         IF job[j].phase = "probe" /\ p \in Cards THEN [job[j] EXCEPT !.seen[p] = @ \cup {w}] ELSE job[j]]
    /\ UNCHANGED <<rows, observed, age, refreshing, poll>>

(* Time passes, but not beyond the deadline of a probe that is under way    *)
(* (it ends there), and a refresher that has stamped its rows is not so     *)
(* slow that they are already stale when it stores them.                    *)
Tick ==
  /\ \A j \in Refreshers :
       CASE job[j].phase = "probe" -> job[j].elapsed < ProbeTimeout
         [] job[j].phase = "store" -> job[j].elapsed < StatusTTL
         [] OTHER -> TRUE
  /\ age' = IF age < StatusTTL THEN age + 1 ELSE age
  /\ job' = [j \in Refreshers |->
       IF job[j].phase \in {"probe", "store"}
       THEN [job[j] EXCEPT !.elapsed = @ + 1] ELSE job[j]]
  /\ UNCHANGED <<world, rows, observed, refreshing, poll>>

RefreshStep(j) == Begin(j) \/ (\E p \in Cards : ProbeEnds(j, p)) \/ Stamp(j) \/ Store(j) \/ End(j)
PollStep(h)    == PollBegins(h) \/ Launch(h) \/ Answer(h)

Next ==
  \/ \E j \in Refreshers : RefreshStep(j)
  \/ \E h \in Polls : PollStep(h)
  \/ \E p \in Providers : Change(p)
  \/ Tick

Spec == Init /\ [][Next]_vars

(* Goroutines run, time passes, and the Settings page, while it is open,    *)
(* asks again every fifteen seconds.                                        *)
Fairness ==
  /\ \A j \in Refreshers : WF_vars(RefreshStep(j))
  /\ \A h \in Polls : WF_vars(PollStep(h))
  /\ WF_vars(Tick)

LiveSpec == Spec /\ Fairness

----------------------------------------------------------------------------
TypeOK ==
  /\ world \in [Providers -> Reply]
  /\ rows \in [Cards -> StatusValues]
  /\ observed \in BOOLEAN /\ age \in 0..StatusTTL /\ refreshing \in BOOLEAN
  /\ \A j \in Refreshers : job[j].phase \in {"idle", "begin", "probe", "store", "end"}
  /\ poll \in [Polls -> {"idle", "launch", "answer"}]

(* Whatever the order in which refreshers take and give back the slot, at   *)
(* most one of them is probing (refreshProviderStatus: "probes never        *)
(* overlap"), and the slot is taken exactly then.                           *)
ProbesNeverOverlap ==
  LET busy == {j \in Refreshers : job[j].phase \in {"probe", "store", "end"}} IN
  /\ TypeOK
  /\ Cardinality(busy) <= 1
  /\ refreshing <=> busy # {}

(* A status is never made up: each time the cards are replaced, each shows  *)
(* what its provider really answered, or would have, at some moment of the  *)
(* refresh that is replacing them, and they are the same cards as before    *)
(* ("a card never appears or disappears while a session is open; only its   *)
(* status changes", initialProviderRows).                                   *)
CardsAreTrue ==
  [][\A j \in Refreshers :
       job[j].phase = "store" /\ job'[j].phase = "end" =>
         /\ DOMAIN rows' = Cards
         /\ \A p \in Cards : \E w \in job[j].seen[p] : rows'[p] = StatusOf(p, w)]_vars

(* While the page is open, every card ends up with the status its provider  *)
(* stays at: a failure shows, and so does a recovery.                       *)
CardsCatchUp ==
  \A p \in Cards : \A w \in Answers(p) :
    <>[](world[p] = w) => <>[](rows[p] = StatusOf(p, w))

=============================================================================
