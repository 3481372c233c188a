------------------------------ MODULE EventStream ------------------------------
(***************************************************************************)
(* The live events of the dashboard (src/internal/api/server.go): requests *)
(* and the budget manager publish cost updates and alerts, and every       *)
(* connected client has a bounded channel that its handler empties into    *)
(* the connection.                                                         *)
(*                                                                         *)
(* The broker's map is guarded by a sync.RWMutex: publishers share it,     *)
(* and a subscription or its end excludes them.  An event is its publisher *)
(* and its number, and is delivered when the handler has written it.       *)
(*                                                                         *)
(* The specification is named StreamSpec, and its parts likewise, so that  *)
(* a module can extend this one and another.                               *)
(***************************************************************************)
EXTENDS Naturals, Sequences

CONSTANTS
  Publishers,  \* goroutines that publish
  Clients,     \* connections to /stream
  ChannelSize, \* capacity of a client's channel, 16 in the code
  MaxEvents    \* bound on the events of each publisher

ASSUME EventStreamAssumption == ChannelSize \in Nat \ {0} /\ MaxEvents \in Nat

VARIABLES
  client,    \* where each handler stands: "new", "on", "writing" "leaving" or "gone"
  clients,   \* broker.clients
  channel,   \* the events buffered for each client
  closed,    \* closed channels
  event,     \* number of the last event of each publisher
  reading,   \* publishers that hold the lock for reading
  targets,   \* clients each of them has yet to serve
  last,      \* history: the last event of each publisher that a client's
             \* handler took, or that was published before it came
  missed     \* history: clients for which the channel was once full

stream == <<client, clients, channel, closed, event, reading, targets, last, missed>>

StreamInit ==
  /\ client = [c \in Clients |-> "new"]
  /\ clients = {} /\ closed = {} /\ missed = {}
  /\ channel = [c \in Clients |-> <<>>]
  /\ event = [p \in Publishers |-> 0]
  /\ reading = {} /\ targets = [p \in Publishers |-> {}]
  /\ last = [c \in Clients |-> event]

----------------------------------------------------------------------------
(* The lock of the broker, held for reading from the first client of a      *)
(* publish to its last, for writing within one step.                        *)
ReadLocked == reading # {}

Subscribe(c) ==
  /\ client[c] = "new" /\ ~ReadLocked
  /\ client' = [client EXCEPT ![c] = "on"]
  /\ clients' = clients \cup {c}
  /\ last' = [last EXCEPT ![c] = event]
  /\ UNCHANGED <<channel, closed, event, reading, targets, missed>>

(* A mutant: the channel is closed without the lock.                        *)
UnsubscribeAnyTime(c) ==
  /\ client[c] = "leaving"
  /\ client' = [client EXCEPT ![c] = "gone"]
  /\ clients' = clients \ {c}
  /\ closed' = closed \cup {c}
  /\ UNCHANGED <<channel, event, reading, targets, last, missed>>

(* The deferred unsubscribe, after the client has gone or a write failed.   *)
Unsubscribe(c) ==
  /\ client[c] = "leaving" /\ ~ReadLocked
  /\ client' = [client EXCEPT ![c] = "gone"]
  /\ clients' = clients \ {c}
  /\ closed' = closed \cup {c}
  /\ UNCHANGED <<channel, event, reading, targets, last, missed>>

(* The loop of handleStream: take an event, write it, or leave when the     *)
(* connection's context is done or the write fails.  A client that does not *)
(* read may keep its handler in the write forever.                          *)
Take(c) ==
  /\ client[c] = "on" /\ channel[c] # <<>>
  /\ client' = [client EXCEPT ![c] = "writing"]
  /\ channel' = [channel EXCEPT ![c] = Tail(@)]
  /\ last' = [last EXCEPT ![c][Head(channel[c]).by] = Head(channel[c]).n]
  /\ UNCHANGED <<clients, closed, event, reading, targets, missed>>

Written(c) ==
  /\ client[c] = "writing"
  /\ \E after \in {"on", "leaving"} : client' = [client EXCEPT ![c] = after]
  /\ UNCHANGED <<clients, channel, closed, event, reading, targets, last, missed>>

Disconnect(c) ==
  /\ client[c] = "on"
  /\ client' = [client EXCEPT ![c] = "leaving"]
  /\ UNCHANGED <<clients, channel, closed, event, reading, targets, last, missed>>

----------------------------------------------------------------------------
(* publish takes the lock for reading and goes through the map.             *)
Publish(p) ==
  /\ p \notin reading /\ event[p] < MaxEvents
  /\ reading' = reading \cup {p}
  /\ targets' = [targets EXCEPT ![p] = clients]
  /\ event' = [event EXCEPT ![p] = @ + 1]
  /\ UNCHANGED <<client, clients, channel, closed, last, missed>>

(* A mutant: the loop ends at the first full channel.                       *)
OfferOrStop(p, c) ==
  /\ c \in targets[p]
  /\ IF Len(channel[c]) < ChannelSize
     THEN /\ channel' = [channel EXCEPT ![c] = Append(@, [by |-> p, n |-> event[p]])]
          /\ targets' = [targets EXCEPT ![p] = @ \ {c}]
          /\ UNCHANGED missed
     ELSE /\ missed' = missed \cup {c}
          /\ targets' = [targets EXCEPT ![p] = {}]
          /\ UNCHANGED channel
  /\ UNCHANGED <<client, clients, closed, event, reading, last>>

(* A mutant: it waits for a full channel.                                   *)
OfferWaiting(p, c) ==
  /\ c \in targets[p]
  /\ Len(channel[c]) < ChannelSize
  /\ channel' = [channel EXCEPT ![c] = Append(@, [by |-> p, n |-> event[p]])]
  /\ targets' = [targets EXCEPT ![p] = @ \ {c}]
  /\ UNCHANGED <<client, clients, closed, event, reading, last, missed>>

(* The select with a default: an event for a full channel is dropped.       *)
Offer(p, c) ==
  /\ c \in targets[p]
  /\ IF Len(channel[c]) < ChannelSize
     THEN channel' = [channel EXCEPT ![c] = Append(@, [by |-> p, n |-> event[p]])] /\ UNCHANGED missed
     ELSE missed' = missed \cup {c} /\ UNCHANGED channel
  /\ targets' = [targets EXCEPT ![p] = @ \ {c}]
  /\ UNCHANGED <<client, clients, closed, event, reading, last>>

Published(p) ==
  /\ p \in reading /\ targets[p] = {}
  /\ reading' = reading \ {p}
  /\ UNCHANGED <<client, clients, channel, closed, event, targets, last, missed>>

ClientStep(c) == Take(c) \/ Unsubscribe(c)
PublishStep(p) == (\E c \in Clients : Offer(p, c)) \/ Published(p)

StreamNext ==
  \/ \E c \in Clients : Subscribe(c) \/ ClientStep(c) \/ Written(c) \/ Disconnect(c)
  \/ \E p \in Publishers : Publish(p) \/ PublishStep(p)

StreamSpec == StreamInit /\ [][StreamNext]_stream

(* The goroutines run.  What a client does, and when, is up to it: a write  *)
(* to its connection may never end.                                         *)
StreamFairness ==
  /\ \A p \in Publishers : WF_stream(PublishStep(p))
  /\ \A c \in Clients : WF_stream(ClientStep(c))

LiveStream == StreamSpec /\ StreamFairness

----------------------------------------------------------------------------
Event == [by : Publishers, n : 1..MaxEvents]

(* The events of a publisher in a channel.                                  *)
From(s, p) == {i \in 1..Len(s) : s[i].by = p}

Buffers(s, p, first, latest) ==
  /\ {s[i].n : i \in From(s, p)} = first..latest
  /\ \A i, j \in From(s, p) : i < j => s[i].n < s[j].n

StreamTypeOK ==
  /\ client \in [Clients -> {"new", "on", "writing", "leaving", "gone"}]
  /\ clients \subseteq Clients /\ closed \subseteq Clients /\ missed \subseteq Clients
  /\ \A c \in Clients : channel[c] \in Seq(Event) /\ Len(channel[c]) <= ChannelSize
  /\ event \in [Publishers -> 0..MaxEvents]
  /\ reading \subseteq Publishers /\ targets \in [Publishers -> SUBSET Clients]
  /\ last \in [Clients -> [Publishers -> 0..MaxEvents]]

(* unsubscribe closes a channel that publishers send to: a send on a closed *)
(* channel would panic, so no publisher still has a closed one to serve,    *)
(* whenever clients come and go.                                            *)
NoSendOnClosed == \A p \in Publishers : targets[p] \cap closed = {}

(* A client that never let its channel fill up gets every event from its    *)
(* subscription on, exactly once and in the order of its publisher, however *)
(* slow or stuck the other clients are.                                     *)
NothingMissed ==
  /\ StreamTypeOK
  /\ \A c \in clients \ missed : \A p \in Publishers :
       LET latest == IF c \in targets[p] THEN event[p] - 1 ELSE event[p] IN
       last[c][p] <= latest /\ Buffers(channel[c], p, last[c][p] + 1, latest)

(* Publishing happens on the path of a request: it ends although a client   *)
(* has stopped reading.                                                     *)
PublishEnds == \A p \in Publishers : p \in reading ~> p \notin reading

=============================================================================
