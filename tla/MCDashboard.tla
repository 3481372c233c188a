------------------------------ MODULE MCDashboard -----------------------------
(***************************************************************************)
(* Instances of ProviderStatus and EventStream for TLC: the two feeds of   *)
(* the dashboard.                                                          *)
(***************************************************************************)
EXTENDS ProviderStatus, EventStream

(* They share no variable and run one at a time: beside the cards nobody    *)
(* subscribes or publishes, and beside the events no provider answers, so   *)
(* that the cards may stay as they begin.                                   *)
NoEvents == reading = {} /\ (\A c \in Clients : client[c] = "new") /\ \A p \in Publishers : event[p] = 0

AsLaunched == /\ \A p \in Providers : world[p] = "slow"
              /\ \A h \in Polls : poll[h] = "idle"
              /\ \E j \in Refreshers : job = [k \in Refreshers |->
                   IF k = j THEN [NoJob EXCEPT !.phase = "begin"] ELSE NoJob]
              /\ ~observed /\ ~refreshing

MCNext ==
  \/ NoEvents /\ Next /\ UNCHANGED stream
  \/ AsLaunched /\ StreamNext /\ UNCHANGED vars

(* The fairness of both, each while its part runs.                          *)
MCFairness ==
  /\ \A j \in Refreshers : WF_vars(NoEvents /\ RefreshStep(j))
  /\ \A h \in Polls : WF_vars(NoEvents /\ PollStep(h))
  /\ WF_vars(NoEvents /\ Tick)
  /\ StreamFairness

MCInit == Init /\ StreamInit

MCLiveSpec == MCInit /\ [][MCNext]_<<vars, stream>> /\ MCFairness

=============================================================================
