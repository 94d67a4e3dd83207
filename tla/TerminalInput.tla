----------------------------- MODULE TerminalInput -----------------------------
(***************************************************************************)
(* The input of one terminal: the local queue, the window of operations    *)
(* in flight, the chain that sends their frames one after the other, the   *)
(* latest geometry and the consent to an unsafe paste, as                  *)
(* HubTerminalDataPlane keeps them over a route that comes and goes.       *)
(*                                                                         *)
(* Operations are numbered in the order they are made.  An attachment's    *)
(* number is its generation, its stream and its send chain.                *)
(***************************************************************************)
EXTENDS Integers, Sequences, FiniteSets, Functions

CONSTANTS
  Window,        \* MAX_INFLIGHT_INPUT_OPERATIONS
  MaxQueued,     \* MAX_QUEUED_INPUT_OPERATIONS
  MaxBytes,      \* MAX_QUEUED_INPUT_BYTES
  PasteFrames,   \* frames of a paste: PASTE_BEGIN, chunks, PASTE_COMMIT
  Geometries,    \* the geometries the view can have
  SendMayFail,   \* sendFrame may reject although the channel stays open
  MaxTyped,      \* bound of the model: keys and pastes
  MaxResizes,    \* bound of the model: resizes
  MaxAttach,     \* bound of the model: attachments
  MaxResync      \* bound of the model: resynchronizations

ASSUME ConstantsAssumption ==
  /\ Window \in Nat \ {0} /\ MaxQueued \in Nat \ {0} /\ MaxBytes \in Nat \ {0}
  /\ PasteFrames \in Nat \ {0, 1} /\ Geometries \subseteq Nat \ {0} /\ SendMayFail \in BOOLEAN
  /\ MaxTyped \in Nat /\ MaxResizes \in Nat /\ MaxAttach \in Nat /\ MaxResync \in Nat

VARIABLES
  plane,     \* the data plane
  ops,       \* the operations made so far
  frames,    \* frames written to the terminal channels, in order
  answered   \* operations whose INPUT_RESULT left Core

vars == <<plane, ops, frames, answered>>

None == 0
Attachments == 1 .. MaxAttach
Abort == 0   \* the part a PASTE_ABORT has instead of a number

Frames(kind) == IF kind = "paste" THEN PasteFrames ELSE 1
Bytes(kind) == IF kind = "paste" THEN 2 ELSE 1

\* The bytes of a set of the operations made.
BytesOf(made, set) == Cardinality(set) + Cardinality({o \in set : made[o].kind = "paste"})

-----------------------------------------------------------------------------
(* The methods of the plane work on s, which holds the plane and ops.      *)

At(p) == [p |-> p, ops |-> ops]
S == At(plane)
Leave(s) == plane' = s.p /\ ops' = s.ops

Inflight(s) == {o \in DOMAIN s.ops : s.ops[o].status = "inflight"}
Retained(p) == p.queuedBytes + p.inflightBytes + p.consentBytes
HasRoom(s) == Cardinality(Inflight(s)) < Window

\* pumpInputs and maybeSendGeometry return at once without a route that attached.
CanSend(p) == p.stream # None /\ p.attached /\ ~p.detached

NewOp(kind, attempt) ==
  [kind |-> kind, status |-> "queued", outcome |-> "none", gen |-> None, id |-> None,
   attempt |-> attempt]

\* appendOperation, once for each operation of the line q: the ids follow each other.
IdIn(s, q, o) == s.p.nextId + (CHOOSE i \in DOMAIN q : q[i] = o) - 1
Appended(s, q, chain) ==
  [p |-> [s.p EXCEPT !.nextId = @ + Len(q), !.inflightBytes = @ + BytesOf(s.ops, Range(q)),
                     !.chain[s.p.stream] = chain],
   ops |-> [o \in DOMAIN s.ops |->
              IF o \in Range(q)
              THEN [s.ops[o] EXCEPT !.status = "inflight", !.gen = s.p.stream, !.id = IdIn(s, q, o)]
              ELSE s.ops[o]]]
PrependOperations(s, q) ==   \* mutant: the newest operation is sent first
  Appended(s, q, q \o s.p.chain[s.p.stream])
AppendOperations(s, q) == Appended(s, q, s.p.chain[s.p.stream] \o q)

\* maybeSendGeometry
MaybeSendGeometry(s) ==
  IF /\ s.p.hydrated /\ s.p.geometryOp = None /\ HasRoom(s)
     /\ s.p.desired \notin {None, s.p.sentGeometry}
  THEN LET o == Len(s.ops) + 1
       IN AppendOperations([p |-> [s.p EXCEPT !.geometryOp = o],
                            ops |-> Append(s.ops, NewOp("resize", None))], <<o>>)
  ELSE s

\* pumpInputs: the geometry first, then the queue as far as the window goes.
PumpQueue(s) ==
  LET room == Window - Cardinality(Inflight(s))
      n == IF Len(s.p.queue) < room THEN Len(s.p.queue) ELSE room
      moved == SubSeq(s.p.queue, 1, n)
  IN AppendOperations(
       [p |-> [s.p EXCEPT !.queue = SubSeq(@, n + 1, Len(@)),
                          !.queuedBytes = @ - BytesOf(s.ops, Range(moved))],
        ops |-> s.ops], moved)
Pump(s) == IF CanSend(s.p) THEN PumpQueue(MaybeSendGeometry(s)) ELSE s

\* releaseUnsafePasteConsent
WithoutConsent(p) == [p EXCEPT !.consent = None, !.consentBytes = 0]

SettleNoPump(s, o, outcome) ==   \* mutant: the freed place is not used
  IF o \notin Inflight(s) THEN s
  ELSE [p |-> [s.p EXCEPT !.inflightBytes = @ - Bytes(s.ops[o].kind),
                          !.geometryOp = IF @ = o THEN None ELSE @],
        ops |-> [s.ops EXCEPT ![o].status = "settled", ![o].outcome = outcome]]
SettleAnyAttempt(s, o, outcome) ==   \* mutant: an earlier paste offers its consent
  IF o \notin Inflight(s) THEN s
  ELSE LET op == s.ops[o]
           p == [s.p EXCEPT !.inflightBytes = @ - Bytes(op.kind),
                            !.geometryOp = IF @ = o THEN None ELSE @]
       IN Pump([p |-> IF outcome = "rejected_unsafe_paste"
                      THEN [p EXCEPT !.consent = o, !.consentBytes = Bytes(op.kind)] ELSE p,
                ops |-> [s.ops EXCEPT ![o].status = "settled", ![o].outcome = outcome]])
\* settleInflight: only an operation of the in-flight map settles.
Settle(s, o, outcome) ==
  IF o \notin Inflight(s) THEN s
  ELSE LET op == s.ops[o]
           p == [s.p EXCEPT !.inflightBytes = @ - Bytes(op.kind),
                            !.geometryOp = IF @ = o THEN None ELSE @]
           consents == outcome = "rejected_unsafe_paste" /\ op.attempt = p.attempt
       IN Pump([p |-> IF consents THEN [p EXCEPT !.consent = o, !.consentBytes = Bytes(op.kind)]
                      ELSE p,
                ops |-> [s.ops EXCEPT ![o].status = "settled", ![o].outcome = outcome]])

ReleaseKeepingOp(s, o) ==   \* mutant: the geometry operation is not forgotten
  IF o \notin Inflight(s) THEN s
  ELSE Pump([p |-> [s.p EXCEPT !.inflightBytes = @ - Bytes(s.ops[o].kind)],
             ops |-> [s.ops EXCEPT ![o].status = "settled", ![o].outcome = "released"]])
\* releaseUnsentOperation, and the pump that follows it
ReleaseUnsent(s, o) ==
  IF o \notin Inflight(s) THEN s
  ELSE Pump([p |-> [s.p EXCEPT !.inflightBytes = @ - Bytes(s.ops[o].kind),
                               !.geometryOp = IF @ = o THEN None ELSE @],
             ops |-> [s.ops EXCEPT ![o].status = "settled", ![o].outcome = "released"]])

AllEnded(s) ==
  [o \in DOMAIN s.ops |->
     CASE s.ops[o].status = "inflight" -> [s.ops[o] EXCEPT !.status = "settled", !.outcome = "unknown"]
       [] s.ops[o].status = "queued"   -> [s.ops[o] EXCEPT !.status = "settled", !.outcome = "cancelled"]
       [] OTHER -> s.ops[o]]

AbandonedStillCounting(s) ==   \* mutant: the bytes of the queue stay counted
  [p |-> WithoutConsent([s.p EXCEPT !.stream = None, !.attached = FALSE, !.hydrated = FALSE,
           !.queue = <<>>, !.inflightBytes = 0, !.sentGeometry = None, !.geometryOp = None,
           !.nextId = 1]),
   ops |-> AllEnded(s)]

\* resetAttachmentState and abandonInputs: what was in flight ends unknown, what
\* was queued is cancelled.
Abandoned(s) ==
  [p |-> WithoutConsent([s.p EXCEPT !.stream = None, !.attached = FALSE, !.hydrated = FALSE,
           !.queue = <<>>, !.queuedBytes = 0, !.inflightBytes = 0, !.sentGeometry = None,
           !.geometryOp = None, !.nextId = 1]),
   ops |-> AllEnded(s)]

-----------------------------------------------------------------------------
Init ==
  /\ plane = [stream |-> None, last |-> 0, attached |-> FALSE, hydrated |-> FALSE,
              detached |-> FALSE, resyncs |-> 0,
              queue |-> <<>>, queuedBytes |-> 0, inflightBytes |-> 0, nextId |-> 1,
              chain |-> [a \in Attachments |-> <<>>], sent |-> [a \in Attachments |-> -1],
              desired |-> None, resizes |-> 0, sentGeometry |-> None, geometryOp |-> None,
              attempt |-> 0, typed |-> 0, consent |-> None, consentBytes |-> 0]
  /\ ops = <<>> /\ frames = <<>> /\ answered = {}

WireRests == UNCHANGED <<frames, answered>>

-----------------------------------------------------------------------------
(* The view.                                                               *)

\* enqueueInput, or a refusal that retains nothing
Enqueued(s, kind, attempt) ==
  LET o == Len(s.ops) + 1
      new == Append(s.ops, NewOp(kind, attempt))
  IN IF Len(s.p.queue) >= MaxQueued \/ Retained(s.p) + Bytes(kind) > MaxBytes
     THEN [s EXCEPT !.ops = Append(@, [NewOp(kind, attempt) EXCEPT !.status = "settled",
                                                                   !.outcome = "refused"])]
     ELSE Pump([p |-> [s.p EXCEPT !.queue = Append(@, o), !.queuedBytes = @ + Bytes(kind)],
                ops |-> new])

Typed(p) == [p EXCEPT !.typed = @ + 1]
MayType == plane.typed < MaxTyped /\ ~plane.detached

\* sendInput
SendInput ==
  /\ MayType
  /\ Leave(Enqueued(At(Typed(plane)), "key", None))
  /\ WireRests

\* writePaste: a new attempt drops the consent of the one before.
WritePaste ==
  /\ MayType
  /\ LET p == [WithoutConsent(Typed(plane)) EXCEPT !.attempt = @ + 1]
     IN Leave(Enqueued(At(p), "paste", p.attempt))
  /\ WireRests

\* confirmUnsafePaste: a paste of its own, which no further consent can follow.
ConfirmUnsafePaste ==
  /\ MayType /\ plane.consent # None
  /\ Leave(IF ops[plane.consent].gen = plane.stream
           THEN Enqueued(At(WithoutConsent(Typed(plane))), "paste", None)
           ELSE At(WithoutConsent(plane)))
  /\ WireRests

\* cancelUnsafePaste, or the consent expires.
DropConsent ==
  /\ plane.consent # None
  /\ plane' = WithoutConsent(plane) /\ UNCHANGED ops
  /\ WireRests

\* resize
Resize(geometry) ==
  /\ ~plane.detached /\ plane.resizes < MaxResizes
  /\ Leave(Pump(At([plane EXCEPT !.desired = geometry, !.resizes = @ + 1])))
  /\ WireRests

Detach ==
  /\ ~plane.detached
  /\ Leave(Abandoned(At([plane EXCEPT !.detached = TRUE])))
  /\ WireRests

-----------------------------------------------------------------------------
(* The route.                                                              *)

\* attachToAuthoritativeSession
Attach ==
  /\ plane.stream = None /\ ~plane.detached /\ plane.last < MaxAttach
  /\ plane' = [plane EXCEPT !.last = @ + 1, !.stream = plane.last + 1, !.nextId = 1]
  /\ UNCHANGED ops /\ WireRests

\* ATTACH_STATE attached
ReceiveAttached ==
  /\ plane.stream # None /\ ~plane.attached
  /\ Leave(Pump(At([plane EXCEPT !.attached = TRUE])))
  /\ WireRests

\* SNAPSHOT_FINISH completes the hydration.
CompleteHydration ==
  /\ plane.attached /\ ~plane.hydrated
  /\ Leave(Pump(At([plane EXCEPT !.hydrated = TRUE])))
  /\ WireRests

\* ROUTE_RESYNC: the operations in flight stay.
ReceiveRouteResync ==
  /\ plane.attached /\ plane.resyncs < MaxResync
  /\ plane' = [WithoutConsent(plane) EXCEPT !.hydrated = FALSE, !.resyncs = @ + 1]
  /\ UNCHANGED ops /\ WireRests

\* The route ends: its transport, its peer, its bounds or the Hub.
LoseRoute ==
  /\ plane.stream # None
  /\ Leave(Abandoned(S))
  /\ WireRests

-----------------------------------------------------------------------------
(* The send chain of attachment a.  sent[a] counts the frames of its head, *)
(* -1 before the head started.                                             *)

AnyAttachment(p, a) == TRUE   \* mutant: a result or a send of an earlier attachment counts
\* isCurrentAttachment, and streamSubscription is still the chain's stream.
IsCurrent(p, a) == p.stream = a

Shifted(p, a) == [p EXCEPT !.chain[a] = Tail(@), !.sent[a] = -1]

StartSend(a) ==
  /\ plane.chain[a] # <<>> /\ plane.sent[a] = -1
  /\ LET o == Head(plane.chain[a])
         shifted == At(Shifted(plane, a))
         started == [plane EXCEPT !.sent[a] = 0]
     IN Leave(
          IF ~IsCurrent(plane, a) THEN Settle(shifted, o, "cancelled")
          ELSE IF o # plane.geometryOp THEN At(started)
          ELSE IF ~plane.hydrated \/ plane.desired = plane.sentGeometry
          THEN ReleaseUnsent(shifted, o)
          ELSE At([started EXCEPT !.sentGeometry = plane.desired]))
  /\ WireRests

\* sendFrame resolves: the channel of the current stream took the frame.
SendFrame(a) ==
  /\ plane.sent[a] >= 0 /\ IsCurrent(plane, a)
  /\ LET o == Head(plane.chain[a])
         part == plane.sent[a] + 1
     IN /\ frames' = Append(frames, [a |-> a, o |-> o, part |-> part])
        /\ Leave(At(IF part = Frames(ops[o].kind) THEN Shifted(plane, a)
                     ELSE [plane EXCEPT !.sent[a] = part]))
  /\ UNCHANGED answered

\* sendFrame rejects: a paste that has begun is aborted, best effort.
SendFailsSilently(a) ==   \* mutant: a frame that was refused settles nothing
  /\ plane.sent[a] >= 0 /\ (SendMayFail \/ ~IsCurrent(plane, a))
  /\ Leave(At(Shifted(plane, a))) /\ WireRests
SendFails(a) ==
  /\ plane.sent[a] >= 0 /\ (SendMayFail \/ ~IsCurrent(plane, a))
  /\ LET o == Head(plane.chain[a])
         aborts == plane.sent[a] > 0 /\ IsCurrent(plane, a)
     IN /\ Leave(Settle(At(Shifted(plane, a)), o, "cancelled"))
        /\ \/ aborts /\ frames' = Append(frames, [a |-> a, o |-> o, part |-> Abort])
           \/ ~aborts /\ UNCHANGED frames
  /\ UNCHANGED answered

-----------------------------------------------------------------------------
(* Core.                                                                   *)

Written(o) ==
  \E i \in DOMAIN frames : frames[i].o = o /\ frames[i].part = Frames(ops[o].kind)

Outcomes(kind) == {"written"} \cup (IF kind = "paste" THEN {"rejected_unsafe_paste"} ELSE {})

\* handleInputResult: the operation in flight with the result's id settles.
HandleResult(s, id, outcome) ==
  LET matching == {o \in Inflight(s) : s.ops[o].id = id}
  IN IF matching = {} THEN s ELSE Settle(s, CHOOSE o \in matching : TRUE, outcome)

\* INPUT_RESULT for an operation whose last frame Core has, in any order.
InputResult(o) ==
  /\ Written(o) /\ o \notin answered
  /\ answered' = answered \cup {o}
  /\ \E outcome \in Outcomes(ops[o].kind) :
       Leave(IF IsCurrent(plane, ops[o].gen) THEN HandleResult(S, ops[o].id, outcome) ELSE S)
  /\ UNCHANGED frames

Next ==
  \/ SendInput \/ WritePaste \/ ConfirmUnsafePaste \/ DropConsent \/ Detach
  \/ \E geometry \in Geometries : Resize(geometry)
  \/ Attach \/ ReceiveAttached \/ CompleteHydration \/ ReceiveRouteResync \/ LoseRoute
  \/ \E a \in Attachments : StartSend(a) \/ SendFrame(a) \/ SendFails(a)
  \/ \E o \in DOMAIN ops : InputResult(o)

Spec == Init /\ [][Next]_vars

-----------------------------------------------------------------------------
(* Properties.                                                             *)

Kinds == {"key", "paste", "resize"}
OutcomeNames == {"none", "written", "rejected_unsafe_paste", "unknown", "cancelled", "refused", "released"}
MaxOps == MaxTyped + MaxResizes + MaxResync + MaxAttach

\* Types; the operation ids of an attachment count up from 1.
TypeOK ==
  /\ plane.stream \in {None, plane.last} /\ plane.last \in 0 .. MaxAttach
  /\ plane.attached => plane.stream # None
  /\ plane.hydrated => plane.attached
  /\ plane.queue \in Seq(DOMAIN ops) /\ Len(plane.queue) <= MaxQueued
  /\ \A a \in Attachments :
       /\ plane.chain[a] \in Seq(DOMAIN ops)
       /\ plane.sent[a] \in -1 .. PasteFrames - 1
  /\ plane.desired \in Geometries \cup {None} /\ plane.sentGeometry \in Geometries \cup {None}
  /\ plane.geometryOp \in Inflight(S) \cup {None}
  /\ plane.consent \in DOMAIN ops \cup {None}
  /\ Len(ops) <= MaxOps /\ answered \subseteq DOMAIN ops
  /\ \A o \in DOMAIN ops :
       /\ ops[o].kind \in Kinds /\ ops[o].status \in {"queued", "inflight", "settled"}
       /\ ops[o].outcome \in OutcomeNames
       /\ ops[o].gen \in 0 .. MaxAttach /\ ops[o].id \in 0 .. MaxOps

\* The counters that refuse an input are the bytes that are really retained, and
\* a resize, which takes no part in the admission, is all that may pass the bound.
BytesAccounted ==
  /\ plane.queuedBytes = BytesOf(ops, Range(plane.queue))
  /\ plane.inflightBytes = BytesOf(ops, Inflight(S))
  /\ plane.consentBytes = IF plane.consent = None THEN 0 ELSE Bytes("paste")
  /\ Retained(plane) <= MaxBytes + Bytes("resize")

\* "Every event that can change one of these conditions reaches this": on an
\* attached route neither a queued operation nor a geometry the route should have
\* is left behind beside a free window by a pump that was not called.
PumpIsNeverMissed ==
  CanSend(plane) /\ HasRoom(S) =>
    /\ plane.queue = <<>>
    /\ plane.hydrated /\ plane.desired \notin {None, plane.sentGeometry} => plane.geometryOp # None

\* Keys and pastes reach the wire in the order they were made, over all
\* attachments, and nothing comes between the frames of a paste.
FramesInOrder ==
  \A i, j \in DOMAIN frames : i < j =>
    LET f == frames[i]
        g == frames[j]
    IN /\ ops[f.o].kind # "resize" /\ ops[g.o].kind # "resize" => f.o <= g.o
       /\ f.o = g.o => \A k \in i .. j : frames[k].o = f.o
       /\ f.o = g.o => g.part \in {f.part + j - i, Abort}

\* What the user is told is true: a written operation went out whole, one that
\* was cancelled, refused or released did not.
OutcomesAreTrue ==
  \A o \in DOMAIN ops :
    /\ ops[o].outcome \in {"written", "rejected_unsafe_paste"} => Written(o)
    /\ ops[o].outcome \in {"cancelled", "refused", "released"} => ~Written(o)

\* The consent on offer is for the latest paste, rejected on this attachment.
ConsentIsCurrent ==
  plane.consent # None =>
    /\ ops[plane.consent].gen = plane.stream
    /\ ops[plane.consent].attempt = plane.attempt

\* No operation holds a place of the window for nothing: it is still to be sent,
\* or Core has it whole and owes its result, on the route of this attachment.
InflightIsAnswered ==
  \A o \in Inflight(S) :
    /\ ops[o].gen = plane.stream
    /\ \/ \E i \in DOMAIN plane.chain[ops[o].gen] : plane.chain[ops[o].gen][i] = o
       \/ Written(o) /\ o \notin answered

=============================================================================
