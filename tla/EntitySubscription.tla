-------------------------- MODULE EntitySubscription --------------------------
(***************************************************************************)
(* One held entity subscription of WebrtcDaemonTransport: subscribe,       *)
(* restore on a new peer, the reserved channel, snapshot and deltas, and   *)
(* resubscription after a gap or a lost channel.                           *)
(*                                                                         *)
(* The handlers run to completion and call each other, so the client side  *)
(* is one record and each method an operator on it; what is suspended at   *)
(* an await is in asked or flights.  The Hub is external: it admits a      *)
(* channel, sends one snapshot on it and then a delta per change.          *)
(***************************************************************************)
EXTENDS Integers, Sequences, FiniteSets

CONSTANTS
  MaxGen,     \* bound of the model: peer generations
  MaxId,      \* bound of the model: subscription ids; the last one meets no fault
  MaxSeq,     \* bound of the model: changes of the entity family
  FaultSets   \* the environments of this instance, each the faults it may bring

ASSUME EntityBoundsAssumption ==
  MaxGen \in Nat \ {0} /\ MaxId \in Nat \ {0} /\ MaxSeq \in Nat

AllFaults == {"peer", "closing", "channel", "gap", "early", "refusal", "unsubscribe"}
HealingFaults == {"peer", "channel", "gap"}

VARIABLES
  faults,   \* the environment this behaviour meets; it never changes
  client,   \* the transport and its one entity subscription
  wire,     \* frames accepted on each subscription's channel, by subscription id
  hubSeq,   \* the Hub's count of changes to the family
  served,   \* subscriptions the Hub has sent their snapshot
  view      \* history: the changes the listener has been told of

vars == <<faults, client, wire, hubSeq, served, view>>

Undefined == 0
Gens == 0 .. MaxGen
Ids == 1 .. MaxId
Flights == [gen : Gens, via : Gens, at : {"unsubscribe", "ready"}]
Frames == [type : {"snapshot", "delta"}, seq : 0 .. MaxSeq]

Clients ==
  [gen : Gens, link : {"down", "connecting", "open", "closing"},
   generation : Gens,            \* subscription.generation
   id : 0 .. MaxId,              \* subscription.subscriptionId
   seq : {-1} \cup 0 .. MaxSeq,  \* subscription.snapshotSeq, -1 undefined
   resubscribing : BOOLEAN,
   channel : 0 .. MaxId,         \* subscription.channel
   ready : {"none", "pending", "resolved", "rejected"},
   closed : BOOLEAN,
   nextId : 1 .. MaxId + 1,
   asked : 0 .. MaxId,           \* the subscribe request in flight
   flights : SUBSET Flights,     \* resubscribeEntity calls at an await
   open : SUBSET Ids,            \* channels whose binding is not closed
   admitted : SUBSET Ids]

-----------------------------------------------------------------------------
(* The client's methods.                                                   *)

\* closeSubscriptionChannel without its resubscription.
CloseOnly(c, b) == [c EXCEPT !.open = @ \ {b}]   \* mutant: the owner keeps it
CloseChannel(c, b) ==
  [c EXCEPT !.open = @ \ {b}, !.channel = IF @ = b THEN Undefined ELSE @]

\* isCurrentSubscriptionBinding: b's channel serves the current subscription.
AnyBinding(c, b) == ~c.closed /\ c.generation = c.gen   \* mutant: the id is not compared
IsCurrentBinding(c, b) ==
  /\ b \in c.open
  /\ ~c.closed
  /\ c.channel = b /\ c.id = b /\ c.generation = c.gen

\* resetPeerState, as far as the subscription sees it; its requests fail with
\* the peer, and the identity check of their handlers ignores that.
ResetPeer(c) ==
  [c EXCEPT !.generation = Undefined, !.id = Undefined, !.seq = -1,
            !.resubscribing = FALSE, !.channel = Undefined, !.open = {},
            !.asked = Undefined]

\* connect: a channel that is not open any more is replaced at once.
StartAttempt(c) == [ResetPeer(c) EXCEPT !.gen = @ + 1, !.link = "connecting"]
Connected(c) == IF c.link \in {"down", "closing"} THEN StartAttempt(c) ELSE c

\* startEntitySubscription: the fields are set before the request connects,
\* which may reset them again.
StartKeepsSeq(c, g) ==   \* mutant: the sequence of the old subscription stays
  IF c.closed \/ g # c.gen \/ (c.generation = g /\ c.ready # "none") THEN c
  ELSE Connected([c EXCEPT !.generation = g, !.id = c.nextId, !.seq = 0,
         !.nextId = @ + 1, !.asked = c.nextId,
         !.ready = IF @ = "none" THEN "pending" ELSE @])
Start(c, g) ==
  IF c.closed \/ g # c.gen \/ (c.generation = g /\ c.ready # "none") THEN c
  ELSE Connected([c EXCEPT !.generation = g, !.id = c.nextId, !.seq = -1,
         !.nextId = @ + 1, !.asked = c.nextId,
         !.ready = IF @ = "none" THEN "pending" ELSE @])

\* resubscribeEntity up to its await of the unsubscribe request.
ResubscribeBeside(c, g) ==   \* mutant: the old channel is left open
  IF c.resubscribing \/ c.closed \/ g # c.gen THEN c
  ELSE LET sent == Connected([c EXCEPT !.resubscribing = TRUE])
       IN [sent EXCEPT !.flights = @ \cup {[gen |-> g, via |-> sent.gen, at |-> "unsubscribe"]}]
Resubscribe(c, g) ==
  IF c.resubscribing \/ c.closed \/ g # c.gen THEN c
  ELSE LET sent == Connected([CloseChannel(c, c.channel) EXCEPT !.resubscribing = TRUE])
       IN [sent EXCEPT !.flights = @ \cup {[gen |-> g, via |-> sent.gen, at |-> "unsubscribe"]}]

\* resubscribeEntity after that await: the fields are cleared whatever peer is
\* current now, and the call then waits for ready.
ResumeHolding(c, f) ==   \* mutant: resubscribing is never cleared again
  LET freed == [c EXCEPT !.flights = @ \ {f}, !.generation = Undefined,
                         !.id = Undefined, !.seq = -1]
  IN Start(freed, f.gen)
Resume(c, f) ==
  LET freed == [c EXCEPT !.flights = @ \ {f}, !.generation = Undefined,
                         !.id = Undefined, !.seq = -1]
      done == Start(freed, f.gen)
  IN IF f.gen = c.gen /\ ~c.closed /\ done.ready = "pending"
     THEN [done EXCEPT !.flights = @ \cup {[f EXCEPT !.at = "ready"]}]
     ELSE [done EXCEPT !.resubscribing = FALSE]

\* rejectReady and resolveReady: only the first settlement counts.
Settle(c, outcome) == [c EXCEPT !.ready = IF @ = "pending" THEN outcome ELSE @]

\* A request that was rejected goes on before anything else arrives from the
\* network: no flight is still at an unsubscribe sent to an earlier peer.
Prompt == \A f \in client.flights : f.at = "unsubscribe" => f.via = client.gen

-----------------------------------------------------------------------------
Init ==
  /\ faults \in FaultSets
  /\ client =
       [gen |-> 1, link |-> "connecting", generation |-> Undefined, id |-> Undefined,
        seq |-> -1, resubscribing |-> FALSE, channel |-> Undefined, ready |-> "none",
        closed |-> FALSE, nextId |-> 1, asked |-> Undefined, flights |-> {},
        open |-> {}, admitted |-> {}]
  /\ wire = [b \in Ids |-> <<>>]
  /\ hubSeq = 0
  /\ served = {}
  /\ view = {}

\* The client moves to c, within the bounds of the model.
Becomes(c) ==
  /\ c.gen <= MaxGen /\ c.nextId <= MaxId + 1
  /\ client' = c

\* A fault the environment brings, while a peer and an id are left to heal it.
Fault(kind) == kind \in faults /\ client.gen < MaxGen /\ client.nextId < MaxId

Others == UNCHANGED <<faults, wire, hubSeq, served, view>>

\* The tail of open: the peer is authenticated and held subscriptions start on
\* it (subscribeEntityFrames starts the first one at the same point).
PeerConnects ==
  /\ client.link = "connecting" /\ Prompt
  /\ Becomes(Start([client EXCEPT !.link = "open"], client.gen))
  /\ Others

\* handleTransportClosed, or failAttempt while connecting.
PeerLost ==
  /\ Fault("peer")
  /\ client.link # "down"
  /\ Becomes([ResetPeer(client) EXCEPT !.link = "down"])
  /\ Others

\* recoverConnection or the retry timer.
Recover ==
  /\ client.link = "down" /\ ~client.closed
  /\ Becomes(StartAttempt(client))
  /\ Others

\* The control channel begins to close; its close event is still to come.
ChannelCloses ==
  /\ Fault("closing")
  /\ client.link = "open"
  /\ Becomes([client EXCEPT !.link = "closing"])
  /\ Others

\* The subscribe request is answered with a reservation and its channel opened,
\* if the subscription still has that identity.
SubscribeAnswered ==
  /\ client.link = "open" /\ Prompt /\ client.asked # Undefined
  /\ LET b == client.asked
         answered == [client EXCEPT !.asked = Undefined]
     IN Becomes(IF client.closed \/ client.id # b THEN answered
                ELSE [answered EXCEPT !.open = @ \cup {b}, !.channel = b])
  /\ Others

\* The subscribe request fails or is refused.
SubscribeFails ==
  /\ Fault("refusal")
  /\ client.link = "open" /\ client.asked # Undefined
  /\ LET failed == [client EXCEPT !.asked = Undefined]
     IN Becomes(IF client.id = client.asked THEN Settle(failed, "rejected") ELSE failed)
  /\ Others

\* The Hub's hello_ack on the channel of subscription b.
ChannelAdmitted(b) ==
  /\ client.link = "open" /\ b \in client.open \ client.admitted
  /\ Becomes([client EXCEPT !.admitted = @ \cup {b}])
  /\ Others

\* rejectReservedChannel, or the channel closes before it is admitted.
ChannelRefused(b) ==
  /\ Fault("refusal")
  /\ b \in client.open \ client.admitted
  /\ LET refused == CloseChannel(client, b)
     IN Becomes(IF client.id = b THEN Settle(refused, "rejected") ELSE refused)
  /\ Others

\* The close event of an admitted channel, or a delivery that closes it.
ChannelLost(b) ==
  /\ Fault("channel")
  /\ b \in client.open \cap client.admitted
  /\ LET lost == CloseChannel(client, b)
     IN Becomes(IF IsCurrentBinding(client, b) THEN Resubscribe(lost, client.gen) ELSE lost)
  /\ Others

\* The Hub's frames on an admitted channel: the snapshot once, deltas after it.
HubSends(b, type, seq) == wire' = [wire EXCEPT ![b] = Append(@, [type |-> type, seq |-> seq])]

HubSnapshot(b) ==
  /\ client.link = "open" /\ b \in (client.open \cap client.admitted) \ served
  /\ HubSends(b, "snapshot", hubSeq)
  /\ served' = served \cup {b}
  /\ UNCHANGED <<faults, client, hubSeq, view>>

HubChange ==
  /\ hubSeq < MaxSeq
  /\ hubSeq' = hubSeq + 1
  /\ wire' = [b \in Ids |->
       IF b \in served \cap client.open
       THEN Append(wire[b], [type |-> "delta", seq |-> hubSeq + 1]) ELSE wire[b]]
  /\ UNCHANGED <<faults, client, served, view>>

\* A change whose delta is lost on the way (the gap the next delta shows).
HubSkips ==
  /\ Fault("gap")
  /\ hubSeq < MaxSeq
  /\ hubSeq' = hubSeq + 1
  /\ UNCHANGED <<faults, client, wire, served, view>>

\* A delta ahead of its snapshot.
HubEarlyDelta(b) ==
  /\ Fault("early")
  /\ client.link = "open" /\ b \in (client.open \cap client.admitted) \ served
  /\ hubSeq < MaxSeq
  /\ hubSeq' = hubSeq + 1
  /\ HubSends(b, "delta", hubSeq + 1)
  /\ UNCHANGED <<faults, client, served, view>>

\* receiveEntityFrame: what makes a frame acceptable after the identity check.
AnyLaterDelta(c, f) == f.type = "snapshot" \/ c.seq # -1   \* mutant: gaps are not seen
Accepts(c, f) == f.type = "snapshot" \/ (c.seq # -1 /\ f.seq = c.seq + 1)

\* handleSubscriptionChannelMessage for the next frame in line; one of a closed
\* or replaced binding is discarded.
Receive(b) ==
  /\ wire[b] # <<>>
  /\ LET f == Head(wire[b])
     IN IF ~IsCurrentBinding(client, b)
        THEN UNCHANGED <<client, view>>
        ELSE IF Accepts(client, f)
        THEN /\ Becomes(IF f.type = "snapshot"
                        THEN Settle([client EXCEPT !.seq = f.seq], "resolved")
                        ELSE [client EXCEPT !.seq = f.seq])
             /\ view' = IF f.type = "snapshot" THEN 1 .. f.seq ELSE view \cup {f.seq}
        ELSE Becomes(Resubscribe(client, client.gen)) /\ UNCHANGED view
  /\ wire' = [wire EXCEPT ![b] = Tail(@)]
  /\ UNCHANGED <<faults, hubSeq, served>>

\* The unsubscribe request of a resubscription is answered or rejected; one
\* that waits for a connecting peer is not.
UnsubscribeSettles(f) ==
  /\ f \in client.flights /\ f.at = "unsubscribe"
  /\ ~(f.via = client.gen /\ client.link = "connecting")
  /\ Becomes(Resume(client, f))
  /\ Others

\* The resubscription's await of ready ends, normally or with its rejection.
ReadySettles(f) ==
  /\ f \in client.flights /\ f.at = "ready"
  /\ client.ready \in {"resolved", "rejected"}
  /\ Becomes([client EXCEPT !.flights = @ \ {f}, !.resubscribing = FALSE])
  /\ Others

\* unsubscribe: the subscription leaves the set of held ones.
Unsubscribe ==
  /\ "unsubscribe" \in faults
  /\ ~client.closed
  /\ Becomes(IF client.channel = Undefined THEN [client EXCEPT !.closed = TRUE]
             ELSE CloseChannel([client EXCEPT !.closed = TRUE], client.channel))
  /\ Others

Next ==
  \/ PeerConnects \/ PeerLost \/ Recover \/ ChannelCloses
  \/ SubscribeAnswered \/ SubscribeFails
  \/ HubChange \/ HubSkips \/ Unsubscribe
  \/ \E b \in Ids :
       \/ ChannelAdmitted(b) \/ ChannelRefused(b) \/ ChannelLost(b)
       \/ HubSnapshot(b) \/ HubEarlyDelta(b) \/ Receive(b)
  \/ \E f \in Flights : UnsubscribeSettles(f) \/ ReadySettles(f)

Spec == Init /\ [][Next]_vars

\* Whatever is asked is answered, frames in line are processed and a peer that
\* is wanted is eventually there; faults and changes need not happen.
Fairness ==
  /\ WF_vars(PeerConnects) /\ WF_vars(Recover) /\ WF_vars(SubscribeAnswered)
  /\ WF_vars(\E b \in Ids : ChannelAdmitted(b))
  /\ WF_vars(\E b \in Ids : HubSnapshot(b))
  /\ WF_vars(\E b \in Ids : Receive(b))
  /\ WF_vars(\E f \in Flights : UnsubscribeSettles(f) \/ ReadySettles(f))

FairSpec == Spec /\ Fairness

-----------------------------------------------------------------------------
(* Properties.                                                             *)

\* Every variable keeps the shape the code gives it; a channel the subscription
\* refers to is one whose binding is not closed.
TypeOK ==
  /\ faults \in FaultSets
  /\ client \in Clients
  /\ client.channel \in client.open \cup {Undefined}
  /\ wire \in [Ids -> Seq(Frames)]
  /\ hubSeq \in 0 .. MaxSeq
  /\ served \subseteq Ids
  /\ view \subseteq 1 .. MaxSeq

\* What receiveEntityFrame passes on has no holes: the listener knows every change
\* up to the last one it was told of, and the sequence a delta is compared with is
\* the one it has reached, whatever was reset and restarted in between.
ViewIsPrefix ==
  /\ \E n \in 0 .. MaxSeq : view = 1 .. n
  /\ client.seq # -1 => view = 1 .. client.seq

\* isCurrentSubscriptionBinding keeps frames of a replaced channel, still in
\* line behind it, from taking the listener back to an older snapshot.
ViewNeverGoesBack == [][view \subseteq view']_vars

\* A subscription never has two channels open: resubscribeEntity closes the old
\* one, and a late answer to an earlier request opens none.
OneChannel == Cardinality(client.open) <= 1

\* A held subscription that has been established gets its snapshot again after
\* a gap, a lost channel or a lost peer, without a new call.
Unhealed == faults \subseteq HealingFaults /\ client.ready = "resolved" /\ client.seq = -1
Heals == Unhealed ~> client.seq # -1

\* docs/architecture.md: a delta before its snapshot or a sequence gap forces
\* resubscription, so the channel that carried it does not stay open.
GapForcesResubscription ==
  [][\A b \in Ids :
       (/\ Receive(b) /\ IsCurrentBinding(client, b) /\ ~Accepts(client, Head(wire[b])))
       => b \notin client'.open]_vars

=============================================================================
