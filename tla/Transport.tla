------------------------------- MODULE Transport -------------------------------
(***************************************************************************)
(* The components of WebrtcDaemonTransport but its request window: a held  *)
(* entity subscription (the module this one extends), the peer, a          *)
(* package-event holder, inbound control messages and the chunks of one    *)
(* channel.  A behaviour belongs to one of them, the part, and the others  *)
(* keep their first state.                                                 *)
(***************************************************************************)
EXTENDS EntitySubscription

CONSTANTS
  MaxEvents, EventFaultSets,             \* PackageEvents
  Short, Long, Closing, MaxAssemblies, MaxBytes, MaxCompleted, MaxQueued,
  MaxPeers, MaxSent,                     \* ControlAssembly
  MaxMessages, LongMessages, MaxMessagesQueued, MaxMessagesCompleted,
  MaxFaults                              \* ChannelChunks

ASSUME TransportBoundsAssumption ==
  /\ MaxEvents \in Nat
  /\ MaxPeers \in Nat /\ MaxSent \in Nat /\ MaxBytes \in Nat
  /\ MaxCompleted \in Nat \ {0} /\ Short \cup Long # {}
  /\ MaxMessages \in Nat /\ MaxMessagesCompleted \in Nat \ {0}

\* Hub goes back over no more messages than a subscription channel remembers: an older
\* one that comes again is a new message to it.
ASSUME RepeatsAssumption == MaxFaults \in Nat /\ MaxFaults <= MaxMessagesCompleted

VARIABLES part,
          peer,                                              \* PeerLifecycle
          pFaults, pClient, pWire, emitted, heard,           \* PackageEvents
          control, cQueue, opening, sent, cDelivered,        \* ControlAssembly
          class, binding, queue, busy, hub, delivered        \* ChannelChunks

eventVars == <<pFaults, pClient, pWire, emitted, heard>>
controlVars == <<control, cQueue, opening, sent, cDelivered>>
chunkVars == <<class, binding, queue, busy, hub, delivered>>
transportVars == <<part, vars, peer, eventVars, controlVars, chunkVars>>

Peer == INSTANCE PeerLifecycle WITH transport <- peer
Events == INSTANCE PackageEvents WITH
  FaultSets <- EventFaultSets, faults <- pFaults, client <- pClient, wire <- pWire
Control == INSTANCE ControlAssembly WITH
  MaxGen <- MaxPeers, transport <- control, queue <- cQueue, delivered <- cDelivered
Chunks == INSTANCE ChannelChunks WITH
  Long <- LongMessages, MaxQueued <- MaxMessagesQueued, MaxCompleted <- MaxMessagesCompleted

\* A part that does not run has one first state.
TransportInit ==
  /\ part \in {"entity", "peer", "events", "control", "chunks"}
  /\ Init /\ Peer!Init /\ Events!Init /\ Control!Init /\ Chunks!Init
  /\ part # "entity" => faults = CHOOSE f \in FaultSets : TRUE
  /\ part # "events" => pFaults = CHOOSE f \in EventFaultSets : TRUE
  /\ part # "chunks" => class = "terminal"

\* A step of one part leaves the others alone.
EntityOnly == part = "entity" /\ UNCHANGED <<part, peer, eventVars, controlVars, chunkVars>>
PeerOnly == part = "peer" /\ UNCHANGED <<part, vars, eventVars, controlVars, chunkVars>>
EventsOnly == part = "events" /\ UNCHANGED <<part, vars, peer, controlVars, chunkVars>>
ControlOnly == part = "control" /\ UNCHANGED <<part, vars, peer, eventVars, chunkVars>>
ChunksOnly == part = "chunks" /\ UNCHANGED <<part, vars, peer, eventVars, controlVars>>

TransportNext ==
  \/ EntityOnly /\ Next
  \/ PeerOnly /\ Peer!Next
  \/ EventsOnly /\ Events!Next
  \/ ControlOnly /\ Control!Next
  \/ ChunksOnly /\ Chunks!Next

\* The fairness of each component, as its own module states it.
EntityFairness ==
  /\ WF_transportVars(EntityOnly /\ PeerConnects)
  /\ WF_transportVars(EntityOnly /\ Recover)
  /\ WF_transportVars(EntityOnly /\ SubscribeAnswered)
  /\ WF_transportVars(EntityOnly /\ \E b \in Ids : ChannelAdmitted(b))
  /\ WF_transportVars(EntityOnly /\ \E b \in Ids : HubSnapshot(b))
  /\ WF_transportVars(EntityOnly /\ \E b \in Ids : Receive(b))
  /\ WF_transportVars(EntityOnly /\ \E f \in Flights : UnsubscribeSettles(f) \/ ReadySettles(f))

PeerFairness ==
  /\ WF_transportVars(PeerOnly /\ Peer!RetryTimerFires)
  /\ WF_transportVars(PeerOnly /\ Peer!RecoverConnection)
  /\ WF_transportVars(PeerOnly /\ \E g \in 1 .. MaxGen : Peer!OpenAdvances(g))
  /\ WF_transportVars(PeerOnly /\ \E g \in 1 .. MaxGen : peer.chan[g] = "closing" /\ Peer!ChannelCloses(g))
  /\ WF_transportVars(PeerOnly /\ \E g \in 1 .. MaxGen : Peer!AttemptTimesOut(g))

EventFairness ==
  /\ WF_transportVars(EventsOnly /\ Events!PeerConnects)
  /\ WF_transportVars(EventsOnly /\ Events!Recover)
  /\ WF_transportVars(EventsOnly /\ Events!SubscribeAnswered)
  /\ WF_transportVars(EventsOnly /\ \E b \in Events!Ids : Events!ChannelAdmitted(b))
  /\ WF_transportVars(EventsOnly /\ \E f \in Events!Flights :
                        Events!UnsubscribeSettles(f) \/ Events!ReadySettles(f))

TimerFairness ==
  /\ WF_transportVars(ControlOnly /\ \E id \in Control!Ids : Control!Timeout(id))
  /\ WF_transportVars(ChunksOnly /\ Chunks!Timeout)

TransportSpec ==
  /\ TransportInit /\ [][TransportNext]_transportVars
  /\ EntityFairness /\ PeerFairness /\ EventFairness /\ TimerFairness

-----------------------------------------------------------------------------
(* The properties of the instances, stated where they are defined.  The   *)
(* entity subscription's are those of the module extended.                 *)

\* Every variable of the transport's components keeps the shape the code gives it.
TypesOK ==
  TypeOK /\ Peer!TypeOK /\ Events!TypeOK /\ Control!TypeOK /\ Chunks!TypeOK

\* startAttempt, failAttempt, captureReconnectDemand: an unsettled attempt owns the
\* client, is the one callers join and has an armed deadline; and a captured demand is
\* served by a live channel, an attempt, a retry timer or a queued recovery.  The
\* published channel is of the current attempt, and after a disconnect nothing runs.
PeerIsServed ==
  /\ Peer!AttemptOwnsClient /\ Peer!DemandIsServed
  /\ Peer!PublishedIsCurrent /\ Peer!QuietAfterDisconnect

\* receivePackageEvent: an event is told at most once, and never after a later one.
HeardOnceInOrder == Events!HeardOnceInOrder

\* handleMessage: the retained-byte budget of inbound control messages counts exactly
\* what is held, and no message is handed on twice while its id is kept.
ControlIsAccounted == Control!BudgetIsHeld /\ Control!DeliveredOnce

\* handleTerminalChannelMessage, handleSubscriptionChannelMessage: a listener gets Hub's
\* messages from the first on, whole, in order and once, and the deadline runs on an
\* open channel exactly while a message is incomplete.
ChunksAreWhole == Chunks!DeliveredIsPrefix /\ Chunks!DeadlineIsOfOpenMessage

\* isCurrentSubscriptionBinding, resetPeerState: no frame of a replaced channel takes a
\* listener back, and a reconnect demand is dropped only by a ready stream or a disconnect.
NothingIsForgotten == ViewNeverGoesBack /\ Peer!DemandIsSticky

\* What a part waits for, and what ends the wait.
Waits ==
  \/ part = "entity" /\ Unhealed
  \/ part = "peer" /\ peer.demand
  \/ part = "events" /\ Events!Held
  \/ part = "control" /\ Control!HalfReceived
  \/ part = "chunks" /\ Chunks!Incomplete
Served ==
  \/ part = "entity" /\ client.seq # -1
  \/ part = "peer" /\ Peer!DemandMet
  \/ part = "events" /\ Events!Listening
  \/ part = "control" /\ ~Control!HalfReceived
  \/ part = "chunks" /\ ~Chunks!Incomplete

\* Heals, DemandEnds, HolderHeals, AssemblyEnds and MessageEnds: a held subscription
\* gets its snapshot again, a reconnect demand a ready stream or a disconnect, a holder
\* of package events a live channel, and a half-received message is completed or costs
\* its peer or channel.
WaitsEnd == Waits ~> Served
=============================================================================
