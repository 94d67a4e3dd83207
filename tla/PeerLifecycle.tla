---------------------------- MODULE PeerLifecycle ----------------------------
(***************************************************************************)
(* The life of the control peer in WebrtcDaemonTransport: connect,         *)
(* startAttempt, open, completeAttempt, failAttempt, the loss path and the *)
(* retry with its sticky demand.                                           *)
(*                                                                         *)
(* The handlers call each other and call back into their listeners before  *)
(* they return, so the transport is one record and each method an operator *)
(* from a transport to the transports it can leave behind.  A lifecycle    *)
(* callback may do nothing, disconnect, or make a request, which connects. *)
(***************************************************************************)
EXTENDS Integers, FiniteSets

CONSTANT MaxGen  \* bound of the model: peer generations; the last one meets no fault

VARIABLE transport  \* the transport object

vars == transport

Gens == 0 .. MaxGen
None == 0    \* no generation: an undefined currentAttempt, connectPromise or channel
Holders == {"entity", "terminal"}   \* what hasReconnectDemand counts

Transports ==
  [gen : Gens,                \* peerGeneration
   current : Gens,            \* currentAttempt, by generation
   promise : Gens,            \* connectPromise, by the attempt that settles it
   channel : Gens,            \* the published dataChannel, by generation
   ready : BOOLEAN,           \* encryptedStreamReady
   peerFailed : BOOLEAN,
   retryTimer : BOOLEAN,      \* a retry timer is armed
   retries : Nat,             \* retryAttempt
   demand : BOOLEAN,          \* reconnectDemand
   recovering : BOOLEAN,      \* a recoverConnection microtask is queued
   disconnected : BOOLEAN,
   holders : SUBSET Holders,  \* subscriptions and terminal listeners
   settled : SUBSET Gens,     \* attempts that resolved or rejected
   deadline : SUBSET Gens,    \* attempts whose deadline timer is armed
   stage : [Gens -> {"none", "preparing", "negotiating", "greeting"}],
   chan : [Gens -> {"absent", "connecting", "open", "closing", "closed"}]]

-----------------------------------------------------------------------------
(* Methods of the transport.                                               *)

\* ownsAttempt
Owns(t, g) == t.current = g /\ g = t.gen /\ ~t.disconnected

\* isCurrentPeer
IsCurrentPeer(t, g) == t.gen = g /\ t.channel = g

\* hasReconnectDemand
HasReconnectDemand(t) == t.holders # {}

\* resetPeerState: the published channel is dropped and closed.
ResetPeerForgets(t) ==   \* mutant: the reset drops the demand too
  [t EXCEPT !.channel = None, !.ready = FALSE, !.demand = FALSE,
            !.chan = [g \in Gens |-> IF g = t.channel /\ g # None THEN "closed" ELSE @[g]]]
ResetPeer(t) ==
  [t EXCEPT !.channel = None, !.ready = FALSE,
            !.chan = [g \in Gens |-> IF g = t.channel /\ g # None THEN "closed" ELSE @[g]]]

\* closeAttemptResources
CloseResources(t, g) ==
  [t EXCEPT !.channel = IF @ = g THEN None ELSE @,
            !.chan[g] = IF @ = "absent" THEN @ ELSE "closed"]

\* The attempt settles and its deadline is cleared.
Settled(t, g) == [t EXCEPT !.settled = @ \cup {g}, !.deadline = @ \ {g}]

\* disconnect
Disconnected(t) ==
  LET g == t.current
      cancelled == IF g # None /\ g \notin t.settled
                   THEN CloseResources(Settled(t, g), g) ELSE t
  IN [ResetPeer(cancelled) EXCEPT !.disconnected = TRUE, !.current = None,
        !.retryTimer = FALSE, !.demand = FALSE, !.promise = None]

\* startAttempt: the new attempt owns the client before listeners hear of it;
\* one that disconnects in the reconnect-attempt callback stops it before open.
StartAttempt(t) ==
  LET g == t.gen + 1
      started == [ResetPeer(t) EXCEPT !.gen = g, !.current = g, !.promise = g,
                    !.peerFailed = FALSE, !.deadline = @ \cup {g}]
      opened == [started EXCEPT !.stage[g] = "preparing"]
  IN {opened} \cup (IF t.demand THEN {Disconnected(started)} ELSE {})

\* connect, as far as it changes the transport.
Usable(t) == t.channel # None /\ t.chan[t.channel] = "open" /\ t.ready
ConnectAgain(t) ==   \* mutant: a running attempt is not joined
  IF t.disconnected \/ Usable(t) \/ t.gen = MaxGen THEN {t}
  ELSE StartAttempt([t EXCEPT !.retryTimer = FALSE])
Connect(t) ==
  IF t.disconnected \/ Usable(t) \/ t.promise # None \/ t.gen = MaxGen THEN {t}
  ELSE StartAttempt([t EXCEPT !.retryTimer = FALSE])

\* What a lifecycle callback may leave behind.
Callback(t) == {t, Disconnected(t)} \cup Connect(t)

\* scheduleRetry
ScheduleRetry(t) ==
  IF t.retryTimer \/ t.disconnected THEN {t}
  ELSE Callback([t EXCEPT !.retries = @ + 1, !.retryTimer = TRUE])

\* failAttempt, the owner's part: demand is what the loss captured, or what the
\* transport demands now.
RetryOnlyHolders(t, demand) ==   \* mutant: re-evaluates the holders after the loss
  IF HasReconnectDemand(t) /\ ~t.disconnected
  THEN ScheduleRetry([t EXCEPT !.demand = TRUE]) ELSE {t}
AfterFailure(t, demand) ==
  IF demand /\ ~t.disconnected THEN ScheduleRetry([t EXCEPT !.demand = TRUE]) ELSE {t}

FailAttempt(t, g, demand) ==
  IF g \in t.settled THEN {t}
  ELSE IF Owns(t, g)
  THEN LET freed == [Settled(t, g) EXCEPT !.current = None,
                       !.promise = IF @ = g THEN None ELSE @]
       IN AfterFailure(CloseResources(ResetPeer(freed), g), demand)
  ELSE {CloseResources(Settled(t, g), g)}

\* The demand failAttempt falls back to.
OnlyCaptured(t) == t.demand   \* mutant: the holders are not asked
OwnDemand(t) == t.demand \/ HasReconnectDemand(t)

\* captureReconnectDemand
CaptureAlways(t) == [t EXCEPT !.demand = @ \/ HasReconnectDemand(t)]   \* mutant
CaptureDemand(t) == [t EXCEPT !.demand = @ \/ (HasReconnectDemand(t) /\ ~t.disconnected)]

\* The end of handleTransportClosed: the recovery is queued as a microtask.
RecoverNever(t, shouldReconnect) ==   \* mutant: recovery is left to the next caller
  [t EXCEPT !.demand = @ \/ (shouldReconnect /\ ~t.disconnected)]
Recover(t, shouldReconnect) ==
  IF ~t.disconnected /\ (shouldReconnect \/ t.demand)
  THEN [t EXCEPT !.demand = TRUE, !.recovering = TRUE] ELSE t

\* handleTransportClosed for the lost generation g.
HandleTransportClosed(t, shouldReconnect, g) ==
  IF g # t.gen THEN {t}
  ELSE IF t.current # None /\ t.current \notin t.settled
  THEN FailAttempt(t, t.current, shouldReconnect \/ t.demand)
  ELSE {Recover(ResetPeer(t), shouldReconnect)}

\* The loss of generation g: the demand is captured before the listeners hear
\* of the loss, because the terminal listeners detach themselves then.
Lose(t, g) ==
  UNION {HandleTransportClosed(s, OwnDemand(t), g) :
           s \in Callback([CaptureDemand(t) EXCEPT !.holders = @ \ {"terminal"}])}

-----------------------------------------------------------------------------
Init ==
  /\ transport =
       [gen |-> 0, current |-> None, promise |-> None, channel |-> None, ready |-> FALSE,
        peerFailed |-> FALSE, retryTimer |-> FALSE, retries |-> 0, demand |-> FALSE,
        recovering |-> FALSE, disconnected |-> FALSE, holders |-> {}, settled |-> {},
        deadline |-> {}, stage |-> [g \in Gens |-> "none"],
        chan |-> [g \in Gens |-> "absent"]]

-----------------------------------------------------------------------------
(* The steps of open(attempt).  Each await is followed by ownsAttempt; an  *)
(* attempt that lost ownership fails as a stale one.                       *)

OwnsLoosely(t, g) == TRUE   \* mutant: publishes without the ownership check
OwnsAfterAwait(t, g) == Owns(t, g)

\* The bootstrap and the key arrived: the peer and its channel are published.
Publish(g) ==
  /\ transport.stage[g] = "preparing"
  /\ IF OwnsAfterAwait(transport, g)
     THEN transport' = [transport EXCEPT !.stage[g] = "negotiating", !.channel = g,
                          !.chan[g] = "connecting"]
     ELSE transport' \in FailAttempt([transport EXCEPT !.stage[g] = "none"], g,
                                     OwnDemand(transport))

\* The data channel opens; the open event only emits its lifecycle event.
ChannelOpens(g) ==
  /\ transport.stage[g] = "negotiating"
  /\ transport.chan[g] = "connecting"
  /\ transport' \in Callback([transport EXCEPT !.chan[g] = "open"])

\* Signaling succeeded and the channel is open: the Hello is sent.
SendHello(g) ==
  /\ transport.stage[g] = "negotiating"
  /\ transport.chan[g] = "open"
  /\ Owns(transport, g)
  /\ transport' = [transport EXCEPT !.stage[g] = "greeting"]

\* completeAttempt
CompleteDecays(t, g) ==   \* mutant: the backoff decays instead of being reset
  [Settled(t, g) EXCEPT !.promise = IF @ = g THEN None ELSE @,
     !.retries = @ - 1, !.demand = FALSE, !.retryTimer = FALSE]
Complete(t, g) ==
  [Settled(t, g) EXCEPT !.promise = IF @ = g THEN None ELSE @,
     !.retries = 0, !.demand = FALSE, !.retryTimer = FALSE]

\* The Hello ack: listeners hear of it twice, ownership is checked again after
\* each callback, and the attempt completes in the microtasks that follow.
HelloAcked(g) ==
  /\ transport.stage[g] = "greeting"
  /\ transport.chan[g] = "open"
  /\ Owns(transport, g)
  /\ \E s \in Callback([transport EXCEPT !.stage[g] = "none"]) :
       IF ~Owns(s, g)
       THEN transport' \in FailAttempt(s, g, OwnDemand(s))
       ELSE \E u \in Callback([s EXCEPT !.ready = TRUE]) :
              transport' \in IF Owns(u, g) THEN {Complete(u, g)}
                             ELSE FailAttempt(u, g, OwnDemand(u))

\* open throws: a step of it failed, or it found that it lost ownership.
OpenFails(g) ==
  /\ transport.stage[g] \in {"preparing", "negotiating", "greeting"}
  /\ g < MaxGen \/ ~Owns(transport, g)
  /\ transport' \in FailAttempt([transport EXCEPT !.stage[g] = "none"], g,
                                OwnDemand(transport))

\* The attempt's deadline timer.
AttemptTimesOut(g) ==
  /\ g \in transport.deadline /\ g < MaxGen
  /\ transport' \in FailAttempt([transport EXCEPT !.deadline = @ \ {g}], g,
                                OwnDemand(transport))

-----------------------------------------------------------------------------
(* Losses, timers and callers.                                             *)

\* The remote side starts to close the channel; its close event comes later.
ChannelStartsClosing(g) ==
  /\ transport.chan[g] = "open" /\ g < MaxGen
  /\ transport' = [transport EXCEPT !.chan[g] = "closing"]

\* The close or error event of generation g's channel (isCurrentPeer guards it).
ChannelCloses(g) ==
  /\ transport.chan[g] \in {"connecting", "open", "closing"} /\ g < MaxGen
  /\ LET t == [transport EXCEPT !.chan[g] = "closed"]
     IN IF IsCurrentPeer(transport, g)
        THEN transport' \in Lose(t, g)
        ELSE transport' = t

\* failPeerGeneration: a malformed delivery, an assembly or Hello timeout, or an
\* inbound overflow on generation g, once per generation.
FailPeerGeneration(g) ==
  /\ transport.chan[g] # "absent" /\ g < MaxGen
  /\ g = transport.gen /\ ~transport.peerFailed
  /\ transport' \in Lose([transport EXCEPT !.peerFailed = TRUE], g)

\* The retry timer's callback.
RetryTimerFires ==
  /\ transport.retryTimer /\ transport.gen < MaxGen
  /\ LET t == [transport EXCEPT !.retryTimer = FALSE]
     IN transport' \in IF t.disconnected \/ ~t.demand THEN {t} ELSE Connect(t)

\* recoverConnection, the microtask the loss path queued.
RecoverConnection ==
  /\ transport.recovering /\ transport.gen < MaxGen
  /\ LET t == [transport EXCEPT !.recovering = FALSE]
     IN transport' \in IF t.disconnected \/ ~t.demand THEN {t} ELSE Connect(t)

\* A request, or a subscriber that holds a claim on the connection.
Request ==
  /\ transport' \in Connect(transport) /\ transport' # transport

Subscribe(h) ==
  /\ h \notin transport.holders /\ ~transport.disconnected
  /\ transport.gen < MaxGen \/ Usable(transport) \/ transport.promise # None
  /\ transport' \in Connect([transport EXCEPT !.holders = @ \cup {h}])

Unsubscribe(h) ==
  /\ h \in transport.holders
  /\ transport' = [transport EXCEPT !.holders = @ \ {h}]

Disconnect ==
  /\ ~transport.disconnected
  /\ transport' = Disconnected(transport)

-----------------------------------------------------------------------------
OpenAdvances(g) ==
  Publish(g) \/ ChannelOpens(g) \/ SendHello(g) \/ HelloAcked(g)

Next ==
  \/ \E g \in Gens \ {None} :
       OpenAdvances(g) \/ OpenFails(g) \/ AttemptTimesOut(g)
         \/ ChannelStartsClosing(g) \/ ChannelCloses(g) \/ FailPeerGeneration(g)
  \/ RetryTimerFires \/ RecoverConnection \/ Request \/ Disconnect
  \/ \E h \in Holders : Subscribe(h) \/ Unsubscribe(h)

\* Timers fire, microtasks run, a channel that started closing closes, and an
\* attempt that meets no fault goes through.
Fairness ==
  /\ WF_vars(RetryTimerFires)
  /\ WF_vars(RecoverConnection)
  /\ WF_vars(\E g \in Gens \ {None} : OpenAdvances(g))
  /\ WF_vars(\E g \in Gens \ {None} : transport.chan[g] = "closing" /\ ChannelCloses(g))
  /\ WF_vars(\E g \in Gens \ {None} : AttemptTimesOut(g))

Spec == Init /\ [][Next]_vars
FairSpec == Spec /\ Fairness

-----------------------------------------------------------------------------
(* Properties.                                                             *)

\* The transport object keeps its types.
TypeOK == transport \in Transports

Running == {g \in 1 .. transport.gen : g \notin transport.settled}

\* An unsettled attempt owns the client, is the one callers join, and has an
\* armed deadline: no order of losses, retries and callbacks runs two attempts
\* or leaves one that nothing can end (startAttempt, ownsAttempt).
AttemptOwnsClient ==
  \A g \in Running :
    Owns(transport, g) /\ transport.promise = g /\ transport.deadline = {g}

\* No attempt publishes its channel over a newer one, and a channel is published
\* only while its generation is the current one.
PublishedIsCurrent == transport.channel \in {None, transport.gen}

\* Something will serve the connection: a live channel, a running attempt, an
\* armed retry timer or a queued recovery.
Served ==
  \/ transport.channel # None /\ transport.chan[transport.channel] # "closed"
  \/ Running # {}
  \/ transport.retryTimer
  \/ transport.recovering

\* A captured reconnect demand and a held entity subscription are always served:
\* they never wait for a caller, also after failures that came when no demand had
\* been captured (failAttempt, handleTransportClosed, scheduleRetry).
DemandIsServed ==
  /\ transport.demand \/ "entity" \in transport.holders
  /\ ~transport.disconnected
  => Served

\* After disconnect nothing of the connection is left to act: no timer, no
\* attempt, no channel, no demand, whatever event arrives late.
QuietAfterDisconnect ==
  transport.disconnected =>
    /\ ~transport.retryTimer /\ ~transport.demand /\ ~transport.ready
    /\ Running = {} /\ transport.channel = None /\ transport.deadline = {}

\* The demand captured at a loss survives failed attempts: only a completed
\* attempt or disconnect drops it.
DemandIsSticky ==
  [][transport.demand /\ ~transport'.demand
       => transport'.disconnected \/ transport'.ready]_vars

\* Once the faults stop, a demand ends in a ready stream or a disconnect.
DemandMet == transport.ready \/ transport.disconnected
DemandEnds == transport.demand ~> DemandMet

=============================================================================
