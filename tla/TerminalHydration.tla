--------------------------- MODULE TerminalHydration ---------------------------
(***************************************************************************)
(* The frames of a terminal route through HubTerminalDataPlane: the epoch  *)
(* fence, the incremental snapshot with its reader, the output held back   *)
(* until SNAPSHOT_FINISH, ROUTE_RESYNC, and the one fresh attach after a   *)
(* lost snapshot.                                                          *)
(*                                                                         *)
(* Frames of one attachment are handled one at a time (terminalEventQueue),*)
(* but a new attachment starts a new queue, so a reader call of an         *)
(* abandoned attachment can return in the middle of the next one.  Core is *)
(* external: it numbers its output and follows the documented frame order. *)
(***************************************************************************)
EXTENDS Integers, Sequences, SequencesExt

CONSTANTS
  MaxAttach,   \* bound of the model: attachments
  MaxEpoch,    \* bound of the model: resynchronizations of one attachment
  MaxOutput,   \* bound of the model: pieces of output
  MaxPages,    \* bound of the model: history pages of one snapshot
  MaxWire,     \* bound of the model: frames of one attachment under way
  MaxPending   \* MAX_PENDING_TERMINAL_ITEMS

ASSUME BoundsAssumption ==
  /\ MaxAttach \in Nat \ {0} /\ MaxEpoch \in Nat /\ MaxOutput \in Nat
  /\ MaxPages \in Nat \ {0} /\ MaxWire \in Nat \ {0} /\ MaxPending \in Nat

VARIABLES
  core,      \* the session and the route Core serves
  wire,      \* frames delivered and not yet handled, by attachment
  plane,     \* the data plane: attachment, accepted epoch and hydration
  reading,   \* the snapshot frame each attachment's reader works on
  flushing,  \* completeHydration is handing held output to the listeners
  screen,    \* history: pieces of output the renderer shows
  exited     \* history: the exit was reported

vars == <<core, wire, plane, reading, flushing, screen, exited>>

Attachments == 1 .. MaxAttach
None == 0
NoEpoch == -1      \* acceptedEpoch is undefined
NoFrame == [kind |-> "none", epoch |-> 0, n |-> 0]

StreamKinds == {"ready", "history", "finish", "output", "exit", "unavailable"}
Unfenced == {"attached", "failed", "closed"}   \* admitted in every epoch
Kinds == StreamKinds \cup Unfenced \cup {"resync", "none"}

\* n: the last piece a READY shows, the number of an OUTPUT, 1 for the finish
\* record of the history, or a resync's from_epoch.
Frame(kind, epoch, n) == [kind |-> kind, epoch |-> epoch, n |-> n]

\* cancelHydration and a new ScreenHydration (ensureHydration).
KeepsBuffer(p) ==   \* mutant: what was held for the old epoch stays
  [p EXCEPT !.ready = FALSE, !.decoderFinished = FALSE, !.incomplete = FALSE,
            !.completed = FALSE, !.pendingExit = FALSE, !.timer = FALSE]
Hydrating(p) ==
  [p EXCEPT !.ready = FALSE, !.decoderFinished = FALSE, !.incomplete = FALSE,
            !.completed = FALSE, !.buffered = <<>>, !.pendingExit = FALSE, !.timer = FALSE]

\* armHydrationProgressBound
Unarmed(p) == p   \* mutant: the bound is left to the next frame
Armed(p) == [p EXCEPT !.timer = ~p.completed]

\* closeStream: no attachment is current and its hydration is cancelled.
Closed(p) == [Hydrating(p) EXCEPT !.att = None, !.epoch = NoEpoch, !.opening = FALSE]

\* attachToAuthoritativeSession up to its await of streamSubscription.ready.
Attached(p) ==
  [Hydrating(p) EXCEPT !.att = p.last + 1, !.last = p.last + 1, !.epoch = NoEpoch,
                       !.opening = TRUE, !.failed = FALSE]

\* recoverRoute: one fresh attach for a lost snapshot, then a visible failure.
\* An instance that has used up its attachments fails the route as well.
Recover(p) ==
  IF p.recoveries >= 1 \/ p.last = MaxAttach THEN Closed(p)
  ELSE [Attached(p) EXCEPT !.recoveries = @ + 1]

\* failRoute
FailRoute(p) == Closed(p)

\* admitStreamEpoch
AdmitEpoch(p, f) ==
  \/ f.kind \in Unfenced
  \/ f.kind = "resync" /\ f.n = p.epoch /\ f.epoch # f.n
  \/ f.kind \in StreamKinds /\ f.epoch = p.epoch

\* bufferHydratingOutput: overflow re-attaches this route.
OverflowLate(p) == Len(p.buffered) > MaxPending   \* mutant: off by one
Overflow(p) == Len(p.buffered) + 1 > MaxPending

-----------------------------------------------------------------------------
Init ==
  /\ core = [produced |-> 0, ended |-> FALSE, route |-> None, epoch |-> 0,
             stage |-> "idle", pages |-> 0, histDone |-> FALSE, exitSent |-> FALSE]
  /\ wire = [a \in Attachments |-> <<>>]
  /\ plane = [att |-> 1, last |-> 1, epoch |-> NoEpoch, ready |-> FALSE,
              decoderFinished |-> FALSE, incomplete |-> FALSE, completed |-> FALSE,
              buffered |-> <<>>, pendingExit |-> FALSE, recoveries |-> 0, timer |-> FALSE,
              opening |-> TRUE, failed |-> FALSE]
  /\ reading = [a \in Attachments |-> NoFrame]
  /\ flushing = FALSE
  /\ screen = 0
  /\ exited = FALSE

-----------------------------------------------------------------------------
(* Core.  It serves the last attachment it was asked for.                  *)

PlaneRests == UNCHANGED <<plane, reading, flushing, screen, exited>>

Serving ==
  /\ core.route # None /\ core.route = plane.last
  /\ Len(wire[core.route]) < MaxWire
Send(kind, n) ==
  wire' = [wire EXCEPT ![core.route] = Append(@, Frame(kind, core.epoch, n))]

\* ATTACH_STATE attached, or failed when the capture fails before READY.
CoreAttaches ==
  /\ core.route # plane.last
  /\ \E kind \in {"attached", "failed"} :
       /\ core' = [core EXCEPT !.route = plane.last, !.epoch = 0, !.pages = 0,
                     !.histDone = FALSE, !.exitSent = FALSE,
                     !.stage = IF kind = "attached" THEN "attached" ELSE "idle"]
       /\ wire' = [wire EXCEPT ![plane.last] = Append(@, Frame(kind, 0, 0))]
  /\ PlaneRests

\* SNAPSHOT_READY: the screen as it is now.
CoreReady ==
  /\ Serving /\ core.stage = "attached"
  /\ core' = [core EXCEPT !.stage = "history", !.pages = 0, !.histDone = FALSE]
  /\ Send("ready", core.produced)
  /\ PlaneRests

\* SNAPSHOT_HISTORY, a page or the finish record, or HISTORY_UNAVAILABLE.
CoreHistory ==
  /\ Serving /\ core.stage = "history" /\ ~core.histDone /\ core.pages < MaxPages
  /\ \E last \in {0, 1} :
       /\ core' = [core EXCEPT !.pages = @ + 1, !.histDone = (last = 1)]
       /\ Send("history", last)
  /\ PlaneRests

CoreUnavailable ==
  /\ Serving /\ core.stage = "history" /\ ~core.histDone
  /\ core' = [core EXCEPT !.histDone = TRUE]
  /\ Send("unavailable", 0)
  /\ PlaneRests

\* SNAPSHOT_FINISH, possibly before the history was complete.
CoreFinish ==
  /\ Serving /\ core.stage = "history"
  /\ core' = [core EXCEPT !.stage = "live"]
  /\ Send("finish", 0)
  /\ PlaneRests

\* OUTPUT: sent once the READY of this epoch is, and in that READY otherwise.
CoreOutput ==
  /\ ~core.ended /\ core.produced < MaxOutput
  /\ core' = [core EXCEPT !.produced = @ + 1]
  /\ IF Serving /\ core.stage \in {"history", "live"}
     THEN Send("output", core.produced + 1)
     ELSE /\ ~(core.route = plane.last /\ core.stage \in {"history", "live"})
          /\ UNCHANGED wire
  /\ PlaneRests

\* PROCESS_EXIT, after the output of this route.
CoreExit ==
  /\ Serving /\ core.stage \in {"history", "live"} /\ ~core.exitSent
  /\ core' = [core EXCEPT !.ended = TRUE, !.exitSent = TRUE]
  /\ Send("exit", 0)
  /\ PlaneRests

\* The Hub or Core closes the route: terminal_subscription_closed, ATTACH_STATE
\* detached.
CoreCloses ==
  /\ Serving /\ core.stage # "idle"
  /\ core' = [core EXCEPT !.stage = "idle"]
  /\ Send("closed", 0)
  /\ PlaneRests

\* Egress overflow: frames not yet delivered are dropped and ROUTE_RESYNC opens
\* a new epoch.
CoreResyncs ==
  /\ Serving /\ core.stage \in {"history", "live"} /\ ~core.exitSent
  /\ core.epoch < MaxEpoch
  /\ \E k \in 0 .. Len(wire[core.route]) :
       /\ \A i \in k + 1 .. Len(wire[core.route]) : wire[core.route][i].kind \in StreamKinds
       /\ wire' = [wire EXCEPT ![core.route] =
            Append(SubSeq(@, 1, k), Frame("resync", core.epoch + 1, core.epoch))]
  /\ core' = [core EXCEPT !.epoch = @ + 1, !.stage = "attached"]
  /\ PlaneRests

-----------------------------------------------------------------------------
(* The plane.                                                              *)

\* receiveOutput: held back until the hydration completes.
HoldUntilReady(p) == ~p.ready   \* mutant: the visible screen is taken for all of it
Hold(p) == ~p.completed

\* receiveSnapshotFinish: without the finish record the history is incomplete.
Finished(p) ==
  IF p.completed THEN p
  ELSE IF ~p.ready THEN FailRoute(p)
  ELSE [p EXCEPT !.completed = TRUE, !.timer = FALSE,
                 !.incomplete = @ \/ ~p.decoderFinished]

\* The frame's effect on a plane that admits it; snapshot frames that the
\* reader has to decode are not among them.
Received(p, f) ==
  CASE f.kind = "attached" -> [p EXCEPT !.epoch = 0]
    [] f.kind = "failed" -> IF p.ready THEN FailRoute(p) ELSE Recover(p)
    [] f.kind = "closed" -> Closed(p)
    [] f.kind = "resync" -> Armed(Hydrating([p EXCEPT !.epoch = f.epoch]))
    [] f.kind = "unavailable" -> IF p.ready THEN [p EXCEPT !.incomplete = TRUE] ELSE FailRoute(p)
    [] f.kind = "output" ->
         IF ~Hold(p) THEN p
         ELSE IF Overflow(p) THEN Recover(p)
         ELSE [p EXCEPT !.buffered = Append(@, f.n)]
    [] f.kind = "exit" -> IF p.completed THEN p ELSE [p EXCEPT !.pendingExit = TRUE]
    [] f.kind = "finish" -> Finished(p)
    [] f.kind \in {"ready", "history"} ->
         IF p.completed \/ (f.kind = "ready") = p.ready THEN FailRoute(p) ELSE p

\* installIncrementalSnapshotFrame hands the frame to the reader.
Reads(p, f) ==
  /\ f.kind \in {"ready", "history"}
  /\ ~p.completed /\ (f.kind = "ready") # p.ready
  /\ ~p.incomplete /\ ~p.decoderFinished

\* emitTerminalEvent and receiveRouteFrame for the next frame of attachment a.
HandleFrame(a) ==
  /\ wire[a] # <<>> /\ reading[a] = NoFrame /\ ~flushing
  /\ LET f == Head(wire[a])
         admitted == a = plane.att /\ AdmitEpoch(plane, f)
         p == IF admitted THEN Received(plane, f) ELSE plane
     IN /\ plane' = p
        /\ reading' = IF admitted /\ Reads(plane, f) THEN [reading EXCEPT ![a] = f] ELSE reading
        /\ flushing' = (admitted /\ f.kind = "finish" /\ p.completed /\ ~plane.completed)
        /\ screen' = IF admitted /\ f.kind = "output" /\ ~Hold(plane) THEN f.n ELSE screen
        /\ exited' = (exited \/ (admitted /\ f.kind = "exit" /\ plane.completed))
  /\ wire' = [wire EXCEPT ![a] = Tail(@)]
  /\ UNCHANGED core

\* reader.read returns: it decoded the frame, or its page was lost.  The call
\* of an abandoned attachment changes nothing any more.
StillReadsAnyway(a) == plane.att # None   \* mutant: no check after the await
StillReads(a) == a = plane.att

\* The reader's record decides what the frame was.
Decoded(p, f) ==
  Armed([p EXCEPT !.ready = TRUE, !.decoderFinished = (f.kind = "history" /\ f.n = 1)])

ReadReturns(a) ==
  /\ reading[a] # NoFrame /\ ~flushing
  /\ reading' = [reading EXCEPT ![a] = NoFrame]
  /\ IF ~StillReads(a) THEN UNCHANGED <<plane, screen>>
     ELSE \/ /\ plane' = Decoded(plane, reading[a])
             /\ screen' = IF reading[a].kind = "ready" THEN reading[a].n ELSE screen
          \/ plane' = Recover(plane) /\ UNCHANGED screen
  /\ UNCHANGED <<core, wire, flushing, exited>>

\* One turn of completeHydration's loop.
FlushOne ==
  /\ flushing /\ plane.buffered # <<>>
  /\ screen' = Head(plane.buffered)
  /\ plane' = [plane EXCEPT !.buffered = Tail(@)]
  /\ UNCHANGED <<core, wire, reading, flushing, exited>>

\* The end of completeHydration: an exit that was held back is reported.
FlushEnds ==
  /\ flushing /\ plane.buffered = <<>>
  /\ flushing' = FALSE
  /\ exited' = (exited \/ plane.pendingExit)
  /\ UNCHANGED <<core, wire, plane, reading, screen>>

\* streamSubscription.ready resolves or rejects.  A rejection is shown, and
\* the stream is kept.
ReadyResolves ==
  /\ plane.opening /\ ~flushing
  /\ plane' = Armed([plane EXCEPT !.opening = FALSE])
  /\ UNCHANGED <<core, wire, reading, flushing, screen, exited>>

ReadyRejects ==
  /\ plane.opening /\ ~flushing
  /\ plane' = [plane EXCEPT !.opening = FALSE, !.failed = TRUE]
  /\ UNCHANGED <<core, wire, reading, flushing, screen, exited>>

\* The hydration progress bound.
ProgressTimesOut ==
  /\ plane.timer /\ ~flushing
  /\ plane' = Recover([plane EXCEPT !.timer = FALSE])
  /\ UNCHANGED <<core, wire, reading, flushing, screen, exited>>

\* handleTransportLost and the recovery that re-attaches with a new id.
TransportLost ==
  /\ plane.att # None /\ plane.last < MaxAttach /\ ~flushing
  /\ plane' = [Attached(plane) EXCEPT !.recoveries = 0]
  /\ UNCHANGED <<core, wire, reading, flushing, screen, exited>>

\* detach, also by a listener that completeHydration has just called.
Detach ==
  /\ plane.att # None
  /\ plane' = Closed(plane)
  /\ flushing' = FALSE
  /\ UNCHANGED <<core, wire, reading, screen, exited>>

Next ==
  \/ CoreAttaches \/ CoreReady \/ CoreHistory \/ CoreUnavailable \/ CoreFinish
  \/ CoreOutput \/ CoreExit \/ CoreCloses \/ CoreResyncs
  \/ \E a \in Attachments : HandleFrame(a) \/ ReadReturns(a)
  \/ FlushOne \/ FlushEnds \/ ReadyResolves \/ ReadyRejects \/ ProgressTimesOut \/ TransportLost \/ Detach

Spec == Init /\ [][Next]_vars

\* The plane handles what it was sent and its timer fires; Core owes nothing
\* and a reader may never return.
FairSpec ==
  /\ Spec
  /\ \A a \in Attachments : WF_vars(HandleFrame(a))
  /\ WF_vars(FlushOne) /\ WF_vars(FlushEnds)
  /\ WF_vars(ReadyResolves \/ ReadyRejects) /\ WF_vars(ProgressTimesOut)

-----------------------------------------------------------------------------
(* Properties.                                                             *)

\* Types, with the bound the client keeps on output held back.
TypeOK ==
  /\ core \in [produced : 0 .. MaxOutput, ended : BOOLEAN, route : 0 .. MaxAttach,
               epoch : 0 .. MaxEpoch, stage : {"idle", "attached", "history", "live"},
               pages : 0 .. MaxPages, histDone : BOOLEAN, exitSent : BOOLEAN]
  /\ \A a \in Attachments :
       \A f \in {wire[a][i] : i \in DOMAIN wire[a]} \cup {reading[a]} :
         f.kind \in Kinds /\ f.epoch \in 0 .. MaxEpoch /\ f.n \in Nat
  /\ plane \in [att : 0 .. MaxAttach, last : Attachments, epoch : NoEpoch .. MaxEpoch,
                ready : BOOLEAN, decoderFinished : BOOLEAN, incomplete : BOOLEAN,
                completed : BOOLEAN, buffered : Seq(1 .. MaxOutput), pendingExit : BOOLEAN,
                recoveries : 0 .. 1, timer : BOOLEAN, opening : BOOLEAN, failed : BOOLEAN]
  /\ Len(plane.buffered) <= MaxPending
  /\ flushing \in BOOLEAN /\ screen \in 0 .. MaxOutput /\ exited \in BOOLEAN

\* The renderer's view refines the abstract terminal: over lost pages, resyncs,
\* overflows, late reader calls and re-attachments it is always a prefix of the
\* session's output, extended in order, and the exit comes last.
Terminal == INSTANCE OrderedTerminal WITH
  produced <- core.produced, ended <- core.ended, screen <- screen,
  exited <- exited,
  view <- IF plane.completed THEN "live" ELSE IF plane.ready THEN "restored" ELSE "cold"

RendererSeesPrefix == Terminal!Spec

\* What is held back is exactly the output that follows the restored screen, so
\* handing it over after SNAPSHOT_FINISH loses and repeats nothing.
HeldFollowsScreen ==
  /\ plane.ready => plane.buffered = [i \in 1 .. Len(plane.buffered) |-> screen + i]
  /\ ~plane.ready => plane.buffered = <<>>

\* An attach never hangs: whatever Core or the reader fails to do, it completes
\* or ends in a visible failure (armHydrationProgressBound, recoverRoute).
HydrationEnds == (plane.att # None) ~> (plane.completed \/ plane.att = None \/ plane.failed)

=============================================================================
