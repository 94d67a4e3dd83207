---------------------------- MODULE PackageEvents ----------------------------
(***************************************************************************)
(* One package-event holder of WebrtcDaemonTransport: subscribe, restore   *)
(* on a new peer, the reserved channel, and resubscription when an         *)
(* admitted channel closes.  Events are not replayed: what the Hub emits   *)
(* while no channel is admitted is not told.                               *)
(*                                                                         *)
(* As in EntitySubscription the transport is one record and each method an *)
(* operator on it.  Unlike there, a resubscription makes a new ready       *)
(* promise, and ready settles when the channel is admitted.                *)
(***************************************************************************)
EXTENDS Integers, Sequences, FiniteSets

CONSTANTS MaxGen,     \* bound of the model: peer generations
          MaxId,      \* bound of the model: subscription ids; the last one meets no fault
          MaxEvents,  \* bound of the model: events the package emits
          FaultSets   \* the environments of this instance, each the faults it may bring

AllFaults == {"peer", "channel", "refusal", "unsubscribe"}
HealingFaults == {"peer", "channel"}

VARIABLES
  faults,   \* the environment this behaviour meets; it never changes
  client,   \* the transport and its one holder
  wire,     \* events on each subscription's channel, by subscription id
  emitted,  \* events the package has emitted
  heard     \* history: the events the holder's listener was told, in order

vars == <<faults, client, wire, emitted, heard>>

Undefined == 0
Gens == 0 .. MaxGen
Ids == 1 .. MaxId
Flights == [gen : Gens, via : Gens, at : {"unsubscribe", "ready"}]

TypeOK ==
  /\ faults \in FaultSets
  /\ client \in
       [gen : Gens, link : {"down", "connecting", "open"},
        generation : Gens,                 \* holder.generation
        id : 0 .. MaxId,                   \* holder.subscriptionId
        resubscribing : BOOLEAN,
        channel : 0 .. MaxId,              \* holder.channel
        ready : {"none", "pending", "resolved", "rejected"},
        closed : BOOLEAN,
        nextId : 1 .. MaxId + 1,
        asked : 0 .. MaxId,                \* the subscribe request in flight
        flights : SUBSET Flights,          \* resubscribePackageEvent at an await
        open : SUBSET Ids, admitted : SUBSET Ids]
  /\ wire \in [Ids -> Seq(1 .. MaxEvents)]
  /\ emitted \in 0 .. MaxEvents
  /\ heard \in Seq(1 .. MaxEvents)

Init ==
  /\ faults \in FaultSets
  /\ client =
       [gen |-> 1, link |-> "connecting", generation |-> Undefined, id |-> Undefined,
        resubscribing |-> FALSE, channel |-> Undefined, ready |-> "none", closed |-> FALSE,
        nextId |-> 1, asked |-> Undefined, flights |-> {}, open |-> {}, admitted |-> {}]
  /\ wire = [b \in Ids |-> <<>>]
  /\ emitted = 0
  /\ heard = <<>>

-----------------------------------------------------------------------------
(* The client's methods.                                                   *)

\* closeSubscriptionChannel without its resubscription
CloseChannel(c, b) ==
  [c EXCEPT !.open = @ \ {b}, !.channel = IF @ = b THEN Undefined ELSE @]

\* isCurrentSubscriptionBinding and the identity check of receivePackageEvent
AnyBinding(c, b) == ~c.closed /\ c.generation = c.gen   \* mutant: the channel is not compared
IsCurrentBinding(c, b) ==
  /\ b \in c.open /\ ~c.closed
  /\ c.channel = b /\ c.id = b /\ c.generation = c.gen

\* resetPeerState, as far as the holder sees it
ResetPeer(c) ==
  [c EXCEPT !.generation = Undefined, !.id = Undefined, !.channel = Undefined,
            !.resubscribing = FALSE, !.open = {}, !.asked = Undefined]

StartAttempt(c) == [ResetPeer(c) EXCEPT !.gen = @ + 1, !.link = "connecting"]
Connected(c) == IF c.link = "down" THEN StartAttempt(c) ELSE c

\* startPackageEventSubscription up to its request
Start(c, g) ==
  IF c.closed \/ g # c.gen \/ (c.generation = g /\ c.ready # "none") THEN c
  ELSE Connected([c EXCEPT !.generation = g, !.id = c.nextId, !.nextId = @ + 1,
         !.asked = c.nextId, !.ready = IF @ = "none" THEN "pending" ELSE @])

\* resubscribePackageEvent up to its await of the unsubscribe request
Resubscribe(c, g) ==
  IF c.resubscribing \/ c.closed \/ g # c.gen THEN c
  ELSE LET sent == Connected([CloseChannel(c, c.channel) EXCEPT !.resubscribing = TRUE])
       IN [sent EXCEPT !.flights = @ \cup {[gen |-> g, via |-> sent.gen, at |-> "unsubscribe"]}]

\* and after it: identity and ready are cleared, and the call waits for the new ready.
ResumeKeepsIdentity(c, f) ==   \* mutant: the old identity stays
  LET freed == [c EXCEPT !.flights = @ \ {f}, !.ready = "pending"]
      done == Start(freed, f.gen)
  IN IF f.gen = c.gen /\ ~c.closed
     THEN [done EXCEPT !.flights = @ \cup {[f EXCEPT !.at = "ready"]}]
     ELSE [done EXCEPT !.resubscribing = FALSE]
Resume(c, f) ==
  LET freed == [c EXCEPT !.flights = @ \ {f}, !.generation = Undefined,
                         !.id = Undefined, !.ready = "none"]
      done == Start(freed, f.gen)
  IN IF f.gen = c.gen /\ ~c.closed
     THEN [done EXCEPT !.flights = @ \cup {[f EXCEPT !.at = "ready"]}]
     ELSE [done EXCEPT !.resubscribing = FALSE]

\* rejectReady and resolveReady: only the first settlement counts.
Settle(c, outcome) == [c EXCEPT !.ready = IF @ = "pending" THEN outcome ELSE @]

\* A settled promise is acted on before anything else arrives from the network: no
\* flight is still at an unsubscribe sent to an earlier peer, or at a settled ready.
Prompt ==
  \A f \in client.flights :
    IF f.at = "unsubscribe" THEN f.via = client.gen
    ELSE client.ready \notin {"resolved", "rejected"}

-----------------------------------------------------------------------------
Becomes(c) ==
  /\ c.gen <= MaxGen /\ c.nextId <= MaxId + 1
  /\ client' = c

Fault(kind) ==
  /\ kind \in faults /\ Prompt
  /\ client.gen < MaxGen /\ client.nextId < MaxId

Others == UNCHANGED <<faults, wire, emitted, heard>>

\* The tail of open: held subscriptions start on the new peer.
PeerConnects ==
  /\ client.link = "connecting" /\ Prompt
  /\ Becomes(Start([client EXCEPT !.link = "open"], client.gen))
  /\ Others

PeerLost ==
  /\ Fault("peer")
  /\ client.link # "down"
  /\ Becomes([ResetPeer(client) EXCEPT !.link = "down"])
  /\ Others

Recover ==
  /\ client.link = "down" /\ ~client.closed
  /\ Becomes(StartAttempt(client))
  /\ Others

\* The subscribe request is answered with a reservation and its channel opened,
\* if the holder still has that identity.
SubscribeAnswered ==
  /\ client.link = "open" /\ Prompt /\ client.asked # Undefined
  /\ LET b == client.asked
         answered == [client EXCEPT !.asked = Undefined]
     IN Becomes(IF client.closed \/ client.id # b THEN answered
                ELSE [answered EXCEPT !.open = @ \cup {b}, !.channel = b])
  /\ Others

\* The subscribe request fails, is refused or is answered without a reservation.
SubscribeFails ==
  /\ Fault("refusal")
  /\ client.link = "open" /\ client.asked # Undefined
  /\ LET failed == [client EXCEPT !.asked = Undefined]
     IN Becomes(IF client.id = client.asked THEN Settle(failed, "rejected") ELSE failed)
  /\ Others

\* The Hub's hello_ack on the channel of subscription b: the holder is ready.
ChannelAdmitted(b) ==
  /\ client.link = "open" /\ Prompt /\ b \in client.open \ client.admitted
  /\ LET acked == [client EXCEPT !.admitted = @ \cup {b}]
     IN Becomes(IF IsCurrentBinding(client, b) THEN Settle(acked, "resolved") ELSE acked)
  /\ Others

\* rejectReservedChannel, or the channel closes before it is admitted.
ChannelRefused(b) ==
  /\ Fault("refusal")
  /\ b \in client.open \ client.admitted
  /\ LET refused == CloseChannel(client, b)
     IN Becomes(IF client.id = b THEN Settle(refused, "rejected") ELSE refused)
  /\ Others

\* The close event of an admitted channel, or a delivery that closes it.
ChannelLost(b) ==
  /\ Fault("channel")
  /\ b \in client.open \cap client.admitted
  /\ LET lost == CloseChannel(client, b)
     IN Becomes(IF IsCurrentBinding(client, b) THEN Resubscribe(lost, client.gen) ELSE lost)
  /\ Others

\* External: the package emits an event, and the Hub sends it on admitted channels.
Emit ==
  /\ emitted < MaxEvents
  /\ emitted' = emitted + 1
  /\ wire' = [b \in Ids |-> IF b \in client.open \cap client.admitted
                            THEN Append(wire[b], emitted + 1) ELSE wire[b]]
  /\ UNCHANGED <<faults, client, heard>>

\* handleSubscriptionChannelMessage and receivePackageEvent for the next event
Receive(b) ==
  /\ wire[b] # <<>>
  /\ wire' = [wire EXCEPT ![b] = Tail(@)]
  /\ heard' = IF IsCurrentBinding(client, b) THEN Append(heard, Head(wire[b])) ELSE heard
  /\ UNCHANGED <<faults, client, emitted>>

UnsubscribeSettles(f) ==
  /\ f \in client.flights /\ f.at = "unsubscribe"
  /\ ~(f.via = client.gen /\ client.link = "connecting")
  /\ Becomes(Resume(client, f))
  /\ Others

\* The await of ready ends, normally or with a rejection nobody handles.
ReadySettles(f) ==
  /\ f \in client.flights /\ f.at = "ready"
  /\ client.ready \in {"resolved", "rejected"}
  /\ Becomes([client EXCEPT !.flights = @ \ {f}, !.resubscribing = FALSE])
  /\ Others

\* unsubscribe
Unsubscribe ==
  /\ "unsubscribe" \in faults
  /\ ~client.closed
  /\ Becomes(IF client.channel = Undefined THEN [client EXCEPT !.closed = TRUE]
             ELSE CloseChannel([client EXCEPT !.closed = TRUE], client.channel))
  /\ Others

Next ==
  \/ PeerConnects \/ PeerLost \/ Recover \/ SubscribeAnswered \/ SubscribeFails
  \/ Emit \/ Unsubscribe
  \/ \E b \in Ids :
       ChannelAdmitted(b) \/ ChannelRefused(b) \/ ChannelLost(b) \/ Receive(b)
  \/ \E f \in Flights : UnsubscribeSettles(f) \/ ReadySettles(f)

Spec == Init /\ [][Next]_vars

\* Whatever is asked is answered, a wanted peer is eventually there, and events in
\* line are processed; faults need not happen.
Fairness ==
  /\ WF_vars(PeerConnects) /\ WF_vars(Recover) /\ WF_vars(SubscribeAnswered)
  /\ WF_vars(\E b \in Ids : ChannelAdmitted(b))
  /\ WF_vars(\E f \in Flights : UnsubscribeSettles(f) \/ ReadySettles(f))

FairSpec == Spec /\ Fairness

-----------------------------------------------------------------------------
(* Properties.                                                             *)

\* receivePackageEvent: over replaced channels and peers, an event is told at most
\* once, and never after a later one.
HeardOnceInOrder ==
  \A i, j \in DOMAIN heard : i < j => heard[i] < heard[j]

\* resubscribePackageEvent and the restore of open: a holder that has subscribed gets
\* a live channel, and another one after a lost channel or peer, without a new call.
Held == faults \subseteq HealingFaults /\ client.nextId > 1
Listening == client.channel # Undefined /\ client.channel \in client.admitted
HolderHeals == Held ~> Listening
=============================================================================
