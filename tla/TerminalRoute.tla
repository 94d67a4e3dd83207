----------------------------- MODULE TerminalRoute -----------------------------
(***************************************************************************)
(* The attachment of one terminal: how HubTerminalDataPlane attaches,      *)
(* loses its transport, recovers with a fresh subscription id and          *)
(* detaches, over the streamTerminal handle of createWebrtcDaemonClient.   *)
(*                                                                         *)
(* Attachments are numbered; a number is an attachmentGeneration and, once *)
(* it is acquired, its stream.  The handlers run to completion, so each is *)
(* an operator from a plane to the plane it leaves.  The frames of a route *)
(* are TerminalHydration's; here the screen is restored or it is not.      *)
(***************************************************************************)
EXTENDS Integers, Sequences, FiniteSets, SequencesExt

CONSTANTS
  MaxPeers,         \* bound of the model: control peers
  MaxAttach,        \* bound of the model: attachments
  Environments      \* the environments of this instance, each what it may bring:
                    \* "busy": the view acts, or a loss comes, before a recovery attached
                    \* "unmounted": a peer comes back to a plane without a listener

ASSUME ConstantsAssumption ==
  /\ MaxPeers \in Nat \ {0} /\ MaxAttach \in Nat \ {0}
  /\ Environments \subseteq SUBSET {"busy", "unmounted"}

VARIABLES
  environment,  \* what this behaviour may meet; it never changes
  peer,    \* the control peer: its number and whether its channel is open
  plane,   \* the data plane, its streams and the requests they wait with
  hub,     \* subscription ids whose route the Hub holds on this peer
  usedOn   \* history: the first peer on which an id was attached

vars == <<environment, peer, plane, hub, usedOn>>

None == 0
Attachments == 1 .. MaxAttach
Ids == 1 .. MaxPeers + MaxAttach
Phases == {"none", "acquiring", "queued", "written", "reserved", "open", "failed", "gone"}
NoLoss == [id |-> None, att |-> None, sent |-> FALSE]

\* visible: a rejection of the attachment reaches the status listeners.
NoStream == [id |-> None, phase |-> "none", live |-> FALSE, visible |-> FALSE,
             sentOn |-> None, restored |-> FALSE]

-----------------------------------------------------------------------------
(* The methods of the plane.                                               *)

AnyAttachment(p, a) == ~p.detached   \* mutant: the generation is not compared
\* isCurrentAttachment
IsCurrent(p, a) == ~p.detached /\ p.att = a

\* stream.abandon: delivery stops, and an open or reserved channel is closed.
Abandoned(p) ==
  IF p.stream = None THEN p
  ELSE [p EXCEPT !.streams[p.stream].live = FALSE,
                 !.streams[p.stream].phase = IF @ \in {"reserved", "open"} THEN "gone" ELSE @]

\* resetAttachmentState
Reset(p) == [p EXCEPT !.stream = None, !.promise = None, !.att = None]

\* sendDetachRequestOnce
HasSentDetachFor(p, id, a) ==
  /\ p.detachSentFor.id = id
  /\ p.detached \/ p.detachSentFor.att = a
SendDetach(p, id, a) ==
  IF HasSentDetachFor(p, id, a) THEN p
  ELSE [p EXCEPT !.detachSentFor = [id |-> id, att |-> a],
                 !.outbox = Append(@, [op |-> "detach", n |-> id])]

\* closeStream
CloseStream(p) ==
  Reset(IF p.stream = None THEN p ELSE SendDetach(Abandoned(p), p.id, p.att))

\* handleTransportLost
LoseKeepingStream(p) ==   \* mutant: the stream is not abandoned
  IF p.detached \/ p.lost THEN p
  ELSE [p EXCEPT !.lost = TRUE, !.status = "attaching"]
LoseTransport(p) ==
  IF p.detached \/ p.lost THEN p
  ELSE Reset(Abandoned(
    [p EXCEPT !.lost = TRUE, !.status = "attaching",
       !.abandoned = [id |-> p.id, att |-> p.att,
         sent |-> p.stream # None /\ p.streams[p.stream].sentOn # None]]))

\* ensureAttached: join the attach under way, or begin one up to its first await.
EnsureAttached(p, visible) ==
  IF p.promise # None
  THEN [p EXCEPT !.streams[p.promise].visible = @ \/ visible]
  ELSE IF p.stream # None \/ ~p.listening THEN p
  ELSE [p EXCEPT !.last = @ + 1, !.att = p.last + 1, !.promise = p.last + 1,
         !.streams[p.last + 1] = [NoStream EXCEPT !.phase = "acquiring", !.visible = visible]]

SameId(p) == p   \* mutant: the id survives the transport
FreshId(p) == [p EXCEPT !.id = p.minted + 1, !.minted = @ + 1]

\* handleTransportRecovered: a sent Attach is detached before the new one begins.
RecoverTransport(p) ==
  IF p.detached \/ ~p.lost \/ ~p.listening THEN p
  ELSE LET q == [FreshId(p) EXCEPT !.lost = FALSE, !.recoveries = 0,
                   !.status = "attaching", !.abandoned = NoLoss]
       IN IF p.abandoned.sent /\ q.id # p.id
          THEN [SendDetach(q, p.abandoned.id, p.abandoned.att) EXCEPT !.resuming = @ + 1]
          ELSE EnsureAttached(q, TRUE)

RecoverForever(p) ==   \* mutant: every timeout attaches again
  EnsureAttached([FreshId(CloseStream(p)) EXCEPT !.recoveries = @ + 1,
                                                  !.status = "attaching"], TRUE)
RecoverKeepingStream(p) ==   \* mutant: the stream is not closed first
  IF p.recoveries >= 1 THEN [CloseStream(p) EXCEPT !.status = "failed"]
  ELSE EnsureAttached([FreshId(p) EXCEPT !.recoveries = @ + 1, !.status = "attaching"], TRUE)
\* recoverRoute: one fresh attach, then a visible failure.
RecoverRoute(p) ==
  IF p.recoveries >= 1 THEN [CloseStream(p) EXCEPT !.status = "failed"]
  ELSE EnsureAttached([FreshId(CloseStream(p)) EXCEPT !.recoveries = @ + 1,
                                                      !.status = "attaching"], TRUE)

RejectedSilently(p, a) ==   \* mutant: no listener is told
  [p EXCEPT !.streams[a].phase = "failed", !.streams[a].live = FALSE,
            !.promise = IF @ = a THEN None ELSE @]
\* The promise of attachment a rejects: whoever waits for it may show it.  The
\* stream stays the plane's stream.
Rejected(p, a) ==
  [p EXCEPT !.streams[a].phase = "failed", !.streams[a].live = FALSE,
            !.promise = IF @ = a THEN None ELSE @,
            !.status = IF p.streams[a].visible THEN "failed" ELSE @]

-----------------------------------------------------------------------------
Init ==
  /\ environment \in Environments
  /\ peer = [n |-> 1, up |-> TRUE]
  /\ hub = {}
  /\ usedOn = [id \in Ids |-> None]
  /\ plane = [id |-> 1, minted |-> 1, att |-> None, last |-> 0, stream |-> None,
              promise |-> None, lost |-> FALSE, abandoned |-> NoLoss, recoveries |-> 0,
              resuming |-> 0, listening |-> FALSE, detached |-> FALSE, status |-> "attaching",
              detachSentFor |-> [id |-> None, att |-> None], outbox |-> <<>>,
              streams |-> [a \in Attachments |-> NoStream]]

\* What the peers still to come and one more route failure can need.
Spare == plane.last + plane.resuming + 2 * (MaxPeers - peer.n) + 2 <= MaxAttach
Bounded == plane'.last <= MaxAttach

PeerRests == UNCHANGED <<environment, peer, hub, usedOn>>

Recovering == ~peer.up \/ plane.resuming > 0

-----------------------------------------------------------------------------
(* The view.                                                               *)

\* subscribeOutput
Subscribe ==
  /\ ~plane.listening /\ ~plane.detached /\ Spare
  /\ Recovering => "busy" \in environment
  /\ plane' = EnsureAttached([plane EXCEPT !.listening = TRUE, !.status = "attaching"], TRUE)
  /\ Bounded /\ PeerRests

\* The last listener unsubscribes.
Unsubscribe ==
  /\ plane.listening
  /\ plane' = CloseStream([plane EXCEPT !.listening = FALSE])
  /\ PeerRests

\* sendInput, writePaste and resize ask for an attachment and show no rejection.
Input ==
  /\ plane.listening /\ ~plane.detached /\ Spare
  /\ Recovering => "busy" \in environment
  /\ plane' = EnsureAttached(plane, FALSE)
  /\ Bounded /\ PeerRests

\* detach
DetachLeavesStream(p) ==   \* mutant: the stream is only forgotten
  SendDetach(Reset([p EXCEPT !.detached = TRUE, !.lost = FALSE, !.listening = FALSE]), p.id, p.att)
DetachedIfOpen(p) ==   \* mutant: a stream that is not open yet is not detached
  LET q == Reset(Abandoned([p EXCEPT !.detached = TRUE, !.lost = FALSE, !.listening = FALSE]))
  IN IF p.stream # None /\ p.streams[p.stream].phase # "open" THEN q
     ELSE SendDetach(q, p.id, p.att)
Detached(p) ==
  SendDetach(Reset(Abandoned([p EXCEPT !.detached = TRUE, !.lost = FALSE, !.listening = FALSE])),
             p.id, p.att)

Detach ==
  /\ ~plane.detached
  /\ plane' = Detached(plane)
  /\ PeerRests

-----------------------------------------------------------------------------
(* An attachment and its requests.                                         *)

\* attachToAuthoritativeSession after its first await, up to the await of ready.
Acquire(a) ==
  /\ plane.streams[a].phase = "acquiring"
  /\ plane' =
       IF IsCurrent(plane, a) /\ plane.listening
       THEN [plane EXCEPT !.stream = a, !.detachSentFor = [id |-> None, att |-> None],
              !.streams[a].phase = "queued", !.streams[a].live = TRUE, !.streams[a].id = plane.id,
              !.outbox = Append(@, [op |-> "attach", n |-> a])]
       ELSE [plane EXCEPT !.streams[a].phase = "gone", !.promise = IF @ = a THEN None ELSE @]
  /\ PeerRests

\* The next request is written, unless it was cancelled before.  The control
\* channel is ordered and the Hub serves it in order.
Write ==
  /\ peer.up /\ plane.outbox # <<>>
  /\ LET r == Head(plane.outbox)
         p == [plane EXCEPT !.outbox = Tail(@)]
     IN \/ /\ r.op = "detach"
           /\ plane' = p /\ hub' = hub \ {r.n} /\ UNCHANGED usedOn
        \/ /\ r.op = "attach" /\ plane.streams[r.n].live
           /\ LET id == plane.streams[r.n].id
              IN /\ hub' = hub \cup {id}
                 /\ usedOn' = [usedOn EXCEPT ![id] = IF @ = None THEN peer.n ELSE @]
           /\ plane' = [p EXCEPT !.streams[r.n].phase = "written", !.streams[r.n].sentOn = peer.n]
        \/ /\ r.op = "attach" /\ ~plane.streams[r.n].live
           /\ plane' = Rejected(p, r.n) /\ UNCHANGED <<hub, usedOn>>
  /\ UNCHANGED <<environment, peer>>

\* The reservation arrives and its channel is created, or nobody waits for it.
AttachAnswered(a) ==
  /\ plane.streams[a].phase = "written"
  /\ plane' = [plane EXCEPT !.streams[a].phase = IF plane.streams[a].live THEN "reserved" ELSE "gone"]
  /\ PeerRests

\* openTerminalChannel: the Hello of the channel is acknowledged; ready resolves.
ChannelAdmitted(a) ==
  /\ plane.streams[a].phase = "reserved"
  /\ plane' = [plane EXCEPT !.streams[a].phase = "open", !.promise = IF @ = a THEN None ELSE @]
  /\ PeerRests

\* The Hub refuses the Attach, or its channel fails: the Hub drops the route.
AttachFails(a) ==
  /\ plane.streams[a].phase \in {"written", "reserved"}
  /\ plane' = Rejected(plane, a)
  /\ hub' = hub \ {plane.streams[a].id}
  /\ UNCHANGED <<environment, peer, usedOn>>

\* handleTransportRecovered after its Detach was answered, failed or timed out.
Resume ==
  /\ plane.resuming > 0
  /\ plane' = EnsureAttached([plane EXCEPT !.resuming = @ - 1], TRUE)
  /\ Bounded /\ PeerRests

-----------------------------------------------------------------------------
(* The route.                                                              *)

\* A frame's route has to be the plane's subscription id.
Served(a) ==
  /\ plane.stream = a /\ plane.streams[a].phase = "open"
  /\ plane.streams[a].id = plane.id /\ plane.id \in hub

\* SNAPSHOT_FINISH (TerminalHydration)
ScreenRestored(a) ==
  /\ Served(a) /\ ~plane.streams[a].restored
  /\ plane' = [plane EXCEPT !.status = "attached", !.streams[a].restored = TRUE]
  /\ PeerRests

\* The progress bound, armed when ready resolved.
ProgressTimesOut(a) ==
  /\ plane.stream = a /\ plane.streams[a].phase = "open" /\ ~plane.streams[a].restored
  /\ plane' = RecoverRoute(plane)
  /\ Bounded /\ PeerRests

\* terminal_subscription_closed: the Hub ended the route; only a close by the
\* Core adapter is answered with a Detach.
HubClosesRoute(a) ==
  /\ Served(a)
  /\ LET p == [plane EXCEPT !.status = "failed"]
     IN plane' \in {CloseStream(p), Reset(Abandoned(p))}
  /\ hub' = hub \ {plane.id}
  /\ UNCHANGED <<environment, peer, usedOn>>

\* terminal-data-channel-closed: a loss of this route, recovered in a microtask.
ChannelCloses(a) ==
  /\ plane.streams[a].phase = "open" /\ Spare
  /\ Recovering => "busy" \in environment
  /\ LET p == [plane EXCEPT !.streams[a].phase = "gone"]
     IN plane' = IF p.streams[a].id = p.id /\ ~p.lost THEN RecoverTransport(LoseTransport(p)) ELSE p
  /\ Bounded
  /\ hub' = hub \ {plane.streams[a].id}
  /\ UNCHANGED <<environment, peer, usedOn>>

-----------------------------------------------------------------------------
(* The control peer.                                                       *)

\* Every request and channel of the peer fails, after the plane was told.
Failing(p) == {a \in Attachments : p.streams[a].phase \in {"queued", "written", "reserved"}}
FailPending(p) ==
  [p EXCEPT !.outbox = <<>>,
     !.promise = IF @ \in Failing(p) THEN None ELSE @,
     !.status = IF \E a \in Failing(p) : p.streams[a].visible THEN "failed" ELSE @,
     !.streams = [a \in Attachments |->
       IF a \in Failing(p) THEN [@[a] EXCEPT !.phase = "failed", !.live = FALSE]
       ELSE IF @[a].phase = "open" THEN [@[a] EXCEPT !.phase = "gone"] ELSE @[a]]]

PeerLost ==
  /\ peer.up /\ peer.n < MaxPeers
  /\ Recovering => "busy" \in environment
  /\ peer' = [peer EXCEPT !.up = FALSE]
  /\ plane' = FailPending(LoseTransport(plane))
  /\ hub' = {}
  /\ UNCHANGED <<environment, usedOn>>

\* encrypted-stream-ready of the next peer
PeerRecovers ==
  /\ ~peer.up
  /\ "unmounted" \in environment \/ plane.listening \/ plane.detached
  /\ peer' = [n |-> peer.n + 1, up |-> TRUE]
  /\ plane' = RecoverTransport(plane)
  /\ Bounded
  /\ UNCHANGED <<environment, hub, usedOn>>

\* An attempt to reconnect fails, with the requests that waited for it.
ConnectFails ==
  /\ ~peer.up /\ plane.outbox # <<>>
  /\ plane' = FailPending(plane)
  /\ PeerRests

Next ==
  \/ Subscribe \/ Unsubscribe \/ Input \/ Detach \/ Write \/ Resume
  \/ \E a \in Attachments :
       \/ Acquire(a) \/ AttachAnswered(a) \/ ChannelAdmitted(a) \/ AttachFails(a)
       \/ ScreenRestored(a) \/ ProgressTimesOut(a) \/ HubClosesRoute(a) \/ ChannelCloses(a)
  \/ PeerLost \/ PeerRecovers \/ ConnectFails

Spec == Init /\ [][Next]_vars

\* Requests are written, answered or refused; the progress bound fires; peers
\* come back.
FairSpec ==
  /\ Spec
  /\ WF_vars(Write) /\ WF_vars(Resume) /\ WF_vars(PeerRecovers)
  /\ WF_vars(\E a \in Attachments : Acquire(a))
  /\ WF_vars(\E a \in Attachments : AttachAnswered(a) \/ ChannelAdmitted(a) \/ AttachFails(a))
  /\ WF_vars(\E a \in Attachments : ProgressTimesOut(a))

-----------------------------------------------------------------------------
(* Properties.                                                             *)

Live(a) == plane.streams[a].live /\ plane.streams[a].phase \in {"queued", "written", "reserved", "open"}

\* Types; the current id is the last one minted.
TypeOK ==
  /\ environment \in Environments
  /\ peer \in [n : 1 .. MaxPeers, up : BOOLEAN]
  /\ hub \subseteq Ids /\ usedOn \in [Ids -> 0 .. MaxPeers]
  /\ plane.id \in Ids /\ plane.minted \in Ids /\ plane.id = plane.minted
  /\ plane.att \in 0 .. MaxAttach /\ plane.last \in 0 .. MaxAttach
  /\ plane.stream \in {None, plane.att} /\ plane.promise \in {None, plane.att}
  /\ plane.lost \in BOOLEAN /\ plane.listening \in BOOLEAN /\ plane.detached \in BOOLEAN
  /\ plane.recoveries \in 0 .. 1 /\ plane.resuming \in 0 .. MaxPeers + MaxAttach
  /\ plane.status \in {"attaching", "attached", "failed"}
  /\ plane.streams \in [Attachments -> [id : Ids \cup {None}, phase : Phases, live : BOOLEAN,
                          visible : BOOLEAN, sentOn : 0 .. MaxPeers, restored : BOOLEAN]]
  /\ plane.outbox \in Seq([op : {"attach", "detach"}, n : Ids])

\* Across losses, recoveries, timeouts and remounts the one stream that delivers or
\* can still attach is the plane's own: nothing keeps delivering behind it.
LiveStreamIsHeld == \A a \in Attachments : Live(a) => plane.stream = a

\* After a loss the plane holds no stream of the lost peer.
HeldStreamIsOfThisPeer ==
  plane.stream # None /\ plane.streams[plane.stream].sentOn # None
    => peer.up /\ plane.streams[plane.stream].sentOn = peer.n

\* An id that was attached over one WebRTC connection is attached over no other.
NewIdOnNewPeer ==
  \A a \in Attachments :
    plane.streams[a].sentOn # None => usedOn[plane.streams[a].id] = plane.streams[a].sentOn

\* What a detached plane leaves with the Hub is still on its way to be detached.
DetachReleasesRoute ==
  plane.detached =>
    \A id \in hub : \E i \in DOMAIN plane.outbox : plane.outbox[i] = [op |-> "detach", n |-> id]

\* The stream the plane holds is the one whose frames it accepts.
StreamMatchesId ==
  plane.stream # None /\ Live(plane.stream) => plane.streams[plane.stream].id = plane.id

\* Nothing interferes with a recovery.
Undisturbed == environment = {}

\* With nothing that interferes: an id that was attached over one WebRTC connection is
\* attached over no other, the stream the plane holds is the one whose frames it
\* accepts, and what a detached plane leaves with the Hub is on its way to be detached.
QuietRecoveryIsClean == Undisturbed => NewIdOnNewPeer /\ StreamMatchesId /\ DetachReleasesRoute

\* A mounted terminal is re-attached after every recovery, or fails visibly.
Reattaching == peer.up /\ plane.listening /\ plane.status = "attaching"
RecoveryReattaches == Reattaching ~> ~Reattaching

=============================================================================
