------------------------- MODULE TerminalRoute_proofs -------------------------
(***************************************************************************)
(* The attachment of a terminal over any number of peers and attachments:  *)
(* nothing delivers behind the stream the plane holds, after a loss the    *)
(* plane holds no stream of the lost peer, and a recovery that nothing     *)
(* interferes with leaves the Hub no route that is not held or detached.   *)
(*                                                                         *)
(* As in the module each method is an operator from a plane to a plane, so *)
(* each lemma is about a method: what it keeps of a good plane.            *)
(***************************************************************************)
EXTENDS TerminalRoute, FiniteSetTheorems, TLAPS

\* Types of the plane, without the bounds of the model on what is minted.
StreamTypes == [id : Nat, phase : Phases, live : BOOLEAN, visible : BOOLEAN,
                sentOn : Nat, restored : BOOLEAN]
Streams == [Attachments -> StreamTypes]
Requests == [op : {"attach", "detach"}, n : Nat]
Planes ==
  [id : Nat, minted : Nat, att : Nat, last : Nat, stream : Nat, promise : Nat,
   lost : BOOLEAN, abandoned : [id : Nat, att : Nat, sent : BOOLEAN], recoveries : Nat,
   resuming : Nat, listening : BOOLEAN, detached : BOOLEAN,
   status : {"attaching", "attached", "failed"}, detachSentFor : [id : Nat, att : Nat],
   outbox : Seq(Requests), streams : Streams]

\* The phases of a stream whose Attach the Hub has, or had.
OnPeer == {"written", "reserved", "open"}

\* The Attach requests in line are those of the queued streams, once each.
InLine(outbox, streams) ==
  /\ \A i \in 1 .. Len(outbox) : outbox[i].op = "attach" =>
       outbox[i].n \in Attachments /\ streams[outbox[i].n].phase = "queued"
  /\ \A i, j \in 1 .. Len(outbox) :
       outbox[i].op = "attach" /\ outbox[j].op = "attach" /\ outbox[i].n = outbox[j].n => i = j

\* A stream delivers only if it is the plane's, unless its channel is gone; one that was
\* not written was sent on no peer.
Delivers(p) ==
  \A a \in Attachments :
    LET s == p.streams[a]
    IN /\ s.live /\ s.phase # "gone" => p.stream = a
       /\ s.phase \in {"reserved", "open"} => s.live
       /\ s.phase \in {"none", "acquiring"} => ~s.live
       /\ s.phase \in {"none", "acquiring", "queued"} => s.sentOn = None
       /\ p.last < a => s.phase = "none"

\* What holds of a plane between the steps of a method ...
Core(p) ==
  /\ p \in Planes
  /\ p.stream \in {None, p.att} /\ p.promise \in {None, p.att}
  /\ p.att <= p.last /\ p.last <= MaxAttach
  /\ Delivers(p)
  /\ InLine(p.outbox, p.streams)

\* ... and at its end: a stream has a listener, and a detached plane nothing.
Held(p) ==
  /\ p.stream # None => p.listening /\ ~p.detached
  /\ p.detached => ~p.listening /\ ~p.lost

Good(p) == Core(p) /\ Held(p)

\* A plane and its peer: what is on the peer ends with it.
OfPeer(p, up, n) ==
  /\ ~up => \A a \in Attachments : p.streams[a].phase \notin OnPeer
  /\ p.stream # None /\ p.streams[p.stream].sentOn # None => up /\ p.streams[p.stream].sentOn = n

\* Nothing attaches before a recovery did.
NoneAttaching(p) == p.stream = None /\ p.att = None

\* Where nothing acts before a recovery attached: a plane that lost its peer waits with
\* nothing, and the stream it holds has its id.
Quiet(p, up) ==
  /\ ~up => p.resuming = 0
  /\ p.lost => NoneAttaching(p)
  /\ p.stream # None => p.streams[p.stream].id = p.id

\* The inductive invariant, of an environment, a peer and a plane.
Inv(e, pe, p) ==
  /\ e \in Environments
  /\ pe \in [n : Nat, up : BOOLEAN]
  /\ Good(p)
  /\ "unmounted" \notin e => (pe.up => ~p.lost) /\ OfPeer(p, pe.up, pe.n)
  /\ e = {} => Quiet(p, pe.up)

IInv == Inv(environment, peer, plane)

\* Steps of a method leave a plane with no more of the peer than it had.
Follows(p, q) ==
  /\ q.stream \in {None, p.stream}
  /\ q.stream # None => q.streams[q.stream].sentOn = p.streams[q.stream].sentOn
                        /\ q.streams[q.stream].id = p.streams[q.stream].id
  /\ \A a \in Attachments : q.streams[a].phase \in OnPeer => p.streams[a].phase \in OnPeer

\* What the view and the transport last did with the plane.
SameEnds(p, q) ==
  /\ q.listening = p.listening /\ q.detached = p.detached /\ q.lost = p.lost
  /\ q.id = p.id /\ q.resuming = p.resuming

\* What abandon leaves: the stream of the plane delivers no more.
Silent(p) == p.stream # None => ~p.streams[p.stream].live

-----------------------------------------------------------------------------
(* The methods.                                                            *)

\* Attachments are positive numbers.
LEMMA Numbers == MaxAttach \in Nat \ {0} /\ MaxPeers \in Nat \ {0} /\ None = 0
                 /\ \A a \in Attachments : a \in Nat \ {0}
  BY ConstantsAssumption DEF Attachments, None

LEMMA FollowsTwice ==
  ASSUME NEW p, NEW q, NEW r, p.stream # None => p.stream \in Attachments,
         Follows(p, q), Follows(q, r)
  PROVE  Follows(p, r)
  BY DEF Follows

\* abandon silences the stream of the plane and changes nothing else.
LEMMA AbandonedCore ==
  ASSUME NEW p, Core(p)
  PROVE  /\ Core(Abandoned(p)) /\ Silent(Abandoned(p)) /\ Follows(p, Abandoned(p))
         /\ SameEnds(p, Abandoned(p)) /\ Abandoned(p).stream = p.stream
         /\ Abandoned(p).att = p.att
<1> DEFINE q == Abandoned(p)
<1>1. CASE p.stream = None
  <2>1. q = p
    BY <1>1 DEF Abandoned
  <2> QED
    BY <1>1, <2>1 DEF Follows, SameEnds, Silent, Core
<1>2. CASE p.stream # None
  <2> DEFINE s == p.stream
             t == p.streams[s]
             u == [t EXCEPT !.live = FALSE,
                            !.phase = IF @ \in {"reserved", "open"} THEN "gone" ELSE @]
             st == [p.streams EXCEPT ![s] = u]
  <2>1. p \in Planes /\ s \in Attachments
    BY <1>2, Numbers DEF Core, Planes, Attachments
  <2>2. p.streams \in Streams
    BY <2>1 DEF Planes
  <2>3. t \in StreamTypes
    BY <2>1, <2>2 DEF Streams
  <2>4. u \in StreamTypes
    <3>1. "gone" \in Phases /\ FALSE \in BOOLEAN
      BY DEF Phases
    <3> QED
      BY <2>3, <3>1, Zenon DEF StreamTypes
  <2>5. u.live = FALSE /\ u.sentOn = t.sentOn /\ u.id = t.id
        /\ u.phase = IF t.phase \in {"reserved", "open"} THEN "gone" ELSE t.phase
    BY <2>3 DEF StreamTypes
  <2>6. st \in Streams /\ st[s] = u /\ \A a \in Attachments : a # s => st[a] = p.streams[a]
    BY <2>1, <2>2, <2>4, Zenon DEF Streams
  <2>7. q = [p EXCEPT !.streams = st]
    BY <1>2, <2>1, <2>2, <2>3 DEF Abandoned
  <2> HIDE DEF q, st, u, t
  <2>8. q \in Planes
    BY <2>1, <2>6, <2>7, Zenon DEF Planes
  <2>9. /\ q.streams = st /\ q.stream = p.stream /\ q.promise = p.promise /\ q.att = p.att
        /\ q.last = p.last /\ q.outbox = p.outbox /\ SameEnds(p, q)
    BY <2>1, <2>7 DEF Planes, SameEnds
  <2>10. Delivers(q)
    BY <1>2, <2>1, <2>5, <2>6, <2>9 DEF Core, Delivers, t
  <2>11. InLine(q.outbox, q.streams)
    BY <2>1, <2>5, <2>6, <2>9 DEF Core, InLine, t
  <2>12. Core(q)
    BY <2>8, <2>9, <2>10, <2>11 DEF Core
  <2> QED
    BY <1>2, <2>1, <2>5, <2>6, <2>9, <2>12 DEF Silent, Follows, OnPeer, q, t
<1> QED
  BY <1>1, <1>2

\* Two planes of one attachment, one stream and one line of requests.
SameRoute(p, q) ==
  /\ q.stream = p.stream /\ q.att = p.att /\ q.last = p.last /\ q.promise = p.promise
  /\ q.streams = p.streams /\ q.outbox = p.outbox

\* What a method changes beside the attachment is free.
LEMMA RelabelledCore ==
  ASSUME NEW p, NEW q, Core(p), q \in Planes, SameRoute(p, q)
  PROVE  Core(q) /\ Follows(p, q) /\ (Silent(p) => Silent(q))
  BY DEF Core, SameRoute, Delivers, Follows, Silent

\* resetAttachmentState, once the stream is silent.
LEMMA ResetCore ==
  ASSUME NEW p, Core(p), Silent(p)
  PROVE  /\ Core(Reset(p)) /\ Follows(p, Reset(p)) /\ SameEnds(p, Reset(p))
         /\ Reset(p).stream = None /\ Reset(p).att = None /\ Reset(p).last = p.last
<1> DEFINE q == Reset(p)
<1>1. p \in Planes /\ None \in Nat
  BY Numbers DEF Core
<1>2. q \in Planes
  BY <1>1, Zenon DEF Reset, Planes
<1>3. /\ q.stream = None /\ q.promise = None /\ q.att = None /\ q.last = p.last
      /\ q.streams = p.streams /\ q.outbox = p.outbox /\ SameEnds(p, q)
  BY <1>1 DEF Reset, Planes, SameEnds
<1>4. p.last \in Nat /\ p.stream \in Nat
  BY <1>1 DEF Planes
<1> HIDE DEF q
<1>5. Delivers(q)
  <2> SUFFICES ASSUME NEW a \in Attachments, p.streams[a].live, p.streams[a].phase # "gone"
               PROVE  FALSE
    BY <1>3 DEF Core, Delivers
  <2> QED
    BY Numbers DEF Core, Delivers, Silent
<1>6. Core(q)
  BY <1>2, <1>3, <1>4, <1>5, Numbers DEF Core
<1> QED
  BY <1>3, <1>6 DEF Follows, q

\* sendDetachRequestOnce only adds a Detach to the line.
LEMMA SendDetachCore ==
  ASSUME NEW p, Core(p), NEW id \in Nat, NEW a \in Nat
  PROVE  LET q == SendDetach(p, id, a)
         IN /\ Core(q) /\ Follows(p, q) /\ SameEnds(p, q)
            /\ q.stream = p.stream /\ q.att = p.att /\ q.last = p.last
            /\ (Silent(p) => Silent(q))
<1> DEFINE q == SendDetach(p, id, a)
           r == [op |-> "detach", n |-> id]
           f == [id |-> id, att |-> a]
           ob == Append(p.outbox, r)
<1>1. CASE HasSentDetachFor(p, id, a)
  BY <1>1 DEF SendDetach, Follows, SameEnds, Core
<1>2. CASE ~HasSentDetachFor(p, id, a)
  <2>1. p \in Planes
    BY DEF Core
  <2>2. q = [p EXCEPT !.detachSentFor = f, !.outbox = ob]
    BY <1>2, <2>1 DEF SendDetach, Planes
  <2>3. p.outbox \in Seq(Requests) /\ r \in Requests /\ f \in [id : Nat, att : Nat]
    BY <2>1 DEF Planes, Requests
  <2>4. ob \in Seq(Requests) /\ Len(ob) = Len(p.outbox) + 1 /\ ob[Len(ob)] = r
        /\ \A i \in 1 .. Len(p.outbox) : ob[i] = p.outbox[i]
    BY <2>3
  <2>5. r.op # "attach"
    OBVIOUS
  <2> HIDE DEF q, ob, r, f
  <2>6. q \in Planes
    BY <2>1, <2>2, <2>3, <2>4, Zenon DEF Planes
  <2>7. /\ q.stream = p.stream /\ q.promise = p.promise /\ q.att = p.att /\ q.last = p.last
        /\ q.streams = p.streams /\ q.outbox = ob /\ SameEnds(p, q)
    BY <2>1, <2>2 DEF Planes, SameEnds
  <2>8. Delivers(q)
    BY <2>7 DEF Core, Delivers
  <2>9. InLine(ob, p.streams)
    <3>1. Len(p.outbox) \in Nat /\ InLine(p.outbox, p.streams)
      BY <2>3 DEF Core
    <3>2. \A i \in 1 .. Len(ob) : ob[i].op = "attach" =>
            i \in 1 .. Len(p.outbox) /\ ob[i] = p.outbox[i]
      BY <2>4, <2>5, <3>1
    <3> QED
      BY <3>1, <3>2 DEF InLine
  <2>10. Core(q)
    BY <2>6, <2>7, <2>8, <2>9 DEF Core
  <2> QED
    BY <2>7, <2>10 DEF Follows, Silent, q
<1> QED
  BY <1>1, <1>2

\* closeStream leaves no stream.
LEMMA CloseStreamCore ==
  ASSUME NEW p, Core(p)
  PROVE  LET q == CloseStream(p)
         IN /\ Core(q) /\ Follows(p, q) /\ SameEnds(p, q)
            /\ q.stream = None /\ q.att = None /\ q.last = p.last
<1> DEFINE b == Abandoned(p)
           c == IF p.stream = None THEN p ELSE SendDetach(b, p.id, p.att)
<1>1. Core(b) /\ Silent(b) /\ Follows(p, b) /\ SameEnds(p, b) /\ b.stream = p.stream
  BY AbandonedCore
<1>2. b.last = p.last
  BY DEF Abandoned, Core, Planes
<1>3. p.id \in Nat /\ p.att \in Nat
  BY DEF Core, Planes
<1>4. p.stream # None => p.stream \in Attachments
  BY Numbers DEF Core, Planes, Attachments
<1> HIDE DEF b
<1>5. LET d == SendDetach(b, p.id, p.att)
      IN Core(d) /\ Follows(b, d) /\ SameEnds(b, d) /\ d.stream = b.stream
         /\ d.last = b.last /\ Silent(d)
  BY <1>1, <1>3, SendDetachCore
<1>6. Core(c) /\ Silent(c) /\ SameEnds(p, c) /\ c.last = p.last /\ c.stream = p.stream
  BY <1>1, <1>2, <1>5 DEF SameEnds, Silent
<1>7. Follows(p, c)
  <2>1. CASE p.stream = None
    BY <2>1 DEF Follows
  <2>2. CASE p.stream # None
    BY <2>2, <1>1, <1>4, <1>5, FollowsTwice
  <2> QED
    BY <2>1, <2>2
<1>8. CloseStream(p) = Reset(c)
  BY DEF CloseStream, b
<1> HIDE DEF c
<1>9. /\ Core(Reset(c)) /\ Follows(c, Reset(c)) /\ SameEnds(c, Reset(c))
      /\ Reset(c).stream = None /\ Reset(c).att = None /\ Reset(c).last = c.last
  BY <1>6, ResetCore
<1>10. Follows(p, Reset(c))
  BY <1>4, <1>7, <1>9, FollowsTwice
<1> QED
  BY <1>6, <1>8, <1>9, <1>10 DEF SameEnds

\* ensureAttached begins an attach of no peer, and only where nothing is held.
LEMMA EnsureAttachedCore ==
  ASSUME NEW p, Core(p), NEW v \in BOOLEAN, EnsureAttached(p, v).last <= MaxAttach
  PROVE  LET q == EnsureAttached(p, v)
         IN /\ Core(q) /\ Follows(p, q) /\ SameEnds(p, q) /\ q.stream = p.stream
            /\ p.stream # None => q.att = p.att
<1> DEFINE q == EnsureAttached(p, v)
<1>1. p \in Planes /\ p.streams \in Streams
  BY DEF Core, Planes
<1>2. CASE p.promise # None
  <2> DEFINE a == p.promise
             u == [p.streams[a] EXCEPT !.visible = @ \/ v]
             st == [p.streams EXCEPT ![a] = u]
  <2>1. a \in Attachments
    BY <1>1, <1>2, Numbers DEF Core, Planes, Attachments
  <2>2. p.streams[a] \in StreamTypes
    BY <1>1, <2>1 DEF Streams, StreamTypes
  <2>3. q = [p EXCEPT !.streams = st]
    BY <1>1, <1>2, <2>1 DEF EnsureAttached, Planes
  <2>4. u \in StreamTypes
    <3>1. (p.streams[a].visible \/ v) \in BOOLEAN
      OBVIOUS
    <3> QED
      BY <2>2, <3>1, Zenon DEF StreamTypes
  <2>5. /\ u.phase = p.streams[a].phase /\ u.live = p.streams[a].live
        /\ u.sentOn = p.streams[a].sentOn /\ u.id = p.streams[a].id
    BY <2>2 DEF StreamTypes
  <2>6. st \in Streams /\ st[a] = u /\ \A b \in Attachments : b # a => st[b] = p.streams[b]
    BY <1>1, <2>1, <2>4, Zenon DEF Streams, StreamTypes
  <2> HIDE DEF q, st, u
  <2>7. q \in Planes
    BY <1>1, <2>3, <2>6, Zenon DEF Planes
  <2>8. /\ q.streams = st /\ q.stream = p.stream /\ q.promise = p.promise /\ q.att = p.att
        /\ q.last = p.last /\ q.outbox = p.outbox /\ SameEnds(p, q)
    BY <1>1, <2>3 DEF Planes, SameEnds
  <2>9. \A b \in Attachments :
          /\ st[b].phase = p.streams[b].phase /\ st[b].live = p.streams[b].live
          /\ st[b].sentOn = p.streams[b].sentOn /\ st[b].id = p.streams[b].id
    BY <2>5, <2>6
  <2>10. Delivers(q)
    BY <2>8, <2>9 DEF Core, Delivers
  <2>11. InLine(q.outbox, q.streams)
    BY <2>8, <2>9 DEF Core, InLine
  <2>12. p.stream # None => p.stream \in Attachments
    BY <1>1, Numbers DEF Core, Planes, Attachments
  <2>13. Core(q)
    BY <2>7, <2>8, <2>10, <2>11 DEF Core
  <2> QED
    BY <2>8, <2>9, <2>12, <2>13 DEF Follows, q
<1>3. CASE p.promise = None /\ (p.stream # None \/ ~p.listening)
  <2>1. q = p
    BY <1>3 DEF EnsureAttached
  <2> QED
    BY <2>1 DEF Follows, SameEnds, Core
<1>4. CASE p.promise = None /\ p.stream = None /\ p.listening
  <2> DEFINE a == p.last + 1
             u == [NoStream EXCEPT !.phase = "acquiring", !.visible = v]
             st == [p.streams EXCEPT ![a] = u]
  <2>1. q = [p EXCEPT !.last = a, !.att = a, !.promise = a, !.streams = st]
    BY <1>1, <1>4 DEF EnsureAttached, Planes
  <2>2. a \in Nat /\ p.last \in Nat
    BY <1>1 DEF Planes
  <2>3. q.last = a
    BY <1>1, <2>1 DEF Planes
  <2>4. a \in Attachments
    BY <2>2, <2>3, Numbers DEF Attachments
  <2>5. /\ NoStream \in StreamTypes /\ "acquiring" \in Phases
        /\ ~NoStream.live /\ NoStream.sentOn = None
    BY Numbers DEF NoStream, StreamTypes, Phases
  <2>6. u \in StreamTypes
    BY <2>5, Zenon DEF StreamTypes
  <2>7. st \in Streams /\ st[a] = u /\ \A b \in Attachments : b # a => st[b] = p.streams[b]
    BY <1>1, <2>4, <2>6, Zenon DEF Streams, StreamTypes
  <2>8. p.streams[a].phase = "none" /\ a # None
    BY <2>2, <2>4, Numbers DEF Core, Delivers
  <2>9. u.phase = "acquiring" /\ ~u.live /\ u.sentOn = None
    BY <2>5 DEF StreamTypes
  <2> HIDE DEF q, st, u
  <2>10. q \in Planes
    BY <1>1, <2>1, <2>2, <2>7, Zenon DEF Planes
  <2>11. /\ q.streams = st /\ q.stream = p.stream /\ q.promise = a /\ q.att = a
         /\ q.outbox = p.outbox /\ SameEnds(p, q)
    BY <1>1, <2>1 DEF Planes, SameEnds
  <2>12. Delivers(q)
    <3> SUFFICES ASSUME NEW b \in Attachments
                 PROVE  LET s == q.streams[b]
                        IN /\ s.live /\ s.phase # "gone" => q.stream = b
                           /\ s.phase \in {"reserved", "open"} => s.live
                           /\ s.phase \in {"none", "acquiring"} => ~s.live
                           /\ s.phase \in {"none", "acquiring", "queued"} => s.sentOn = None
                           /\ q.last < b => s.phase = "none"
      BY DEF Delivers
    <3>1. CASE b = a
      BY <2>2, <2>3, <2>7, <2>9, <2>11, <3>1
    <3>2. CASE b # a
      <4>1. a < b => p.last < b
        BY <2>2, Numbers
      <4> QED
        BY <2>3, <2>7, <2>11, <3>2, <4>1 DEF Core, Delivers
    <3> QED
      BY <3>1, <3>2
  <2>13. InLine(q.outbox, q.streams)
    BY <2>4, <2>7, <2>8, <2>11 DEF Core, InLine
  <2>14. Core(q)
    <3>1. q.stream \in {None, q.att} /\ q.promise \in {None, q.att} /\ q.att <= q.last
      BY <1>4, <2>2, <2>3, <2>11
    <3>2. q.last <= MaxAttach
      BY DEF q
    <3> QED
      BY <2>10, <2>12, <2>13, <3>1, <3>2 DEF Core
  <2> QED
    BY <1>4, <2>7, <2>9, <2>11, <2>14 DEF Follows, OnPeer, q
<1> QED
  BY <1>2, <1>3, <1>4

\* A stream given up leaves its ends to whoever has them.
LEMMA HeldStill ==
  ASSUME NEW p, NEW q, Held(p), SameEnds(p, q), q.stream \in {None, p.stream}
  PROVE  Held(q)
  BY DEF Held, SameEnds

\* handleTransportLost
LEMMA LoseTransportGood ==
  ASSUME NEW p, Good(p)
  PROVE  LET q == LoseTransport(p)
         IN /\ Good(q) /\ Follows(p, q)
            /\ q.listening = p.listening /\ q.detached = p.detached
            /\ q.id = p.id /\ q.resuming = p.resuming /\ q.last = p.last
            /\ p.detached => ~q.lost
            /\ ~p.detached => q.lost
            /\ ~p.detached /\ ~p.lost => NoneAttaching(q)
            /\ p.lost => q = p
<1> DEFINE q == LoseTransport(p)
<1>1. CASE p.detached \/ p.lost
  <2>1. q = p
    BY <1>1 DEF LoseTransport
  <2> QED
    BY <1>1, <2>1 DEF Good, Held, Follows
<1>2. CASE ~p.detached /\ ~p.lost
  <2> DEFINE l == [id |-> p.id, att |-> p.att,
                   sent |-> p.stream # None /\ p.streams[p.stream].sentOn # None]
             b == [p EXCEPT !.lost = TRUE, !.status = "attaching", !.abandoned = l]
             c == Abandoned(b)
  <2>1. p \in Planes /\ Core(p)
    BY DEF Good, Core
  <2>2. l \in [id : Nat, att : Nat, sent : BOOLEAN]
    BY <2>1 DEF Planes
  <2>3. q = Reset(c)
    BY <1>2 DEF LoseTransport
  <2> HIDE DEF l, q
  <2>4. b \in Planes
    <3>1. TRUE \in BOOLEAN /\ "attaching" \in {"attaching", "attached", "failed"}
      OBVIOUS
    <3> QED
      BY <2>1, <2>2, <3>1, Zenon DEF Planes
  <2>5. /\ SameRoute(p, b) /\ b.lost /\ b.listening = p.listening /\ b.detached = p.detached
        /\ b.id = p.id /\ b.resuming = p.resuming
    BY <2>1 DEF Planes, SameRoute
  <2> HIDE DEF b
  <2>6. Core(b) /\ Follows(p, b)
    BY <2>1, <2>4, <2>5, RelabelledCore
  <2>7. /\ Core(c) /\ Silent(c) /\ Follows(b, c) /\ SameEnds(b, c) /\ c.stream = b.stream
        /\ c.att = b.att
    BY <2>6, AbandonedCore
  <2>8. c.last = b.last
    BY <2>6 DEF Abandoned, Core, Planes
  <2> HIDE DEF c
  <2>9. /\ Core(Reset(c)) /\ Follows(c, Reset(c)) /\ SameEnds(c, Reset(c))
        /\ Reset(c).stream = None /\ Reset(c).att = None /\ Reset(c).last = c.last
    BY <2>7, ResetCore
  <2>10. p.stream # None => p.stream \in Attachments
    BY <2>1, Numbers DEF Core, Planes, Attachments
  <2>11. Follows(p, c)
    BY <2>6, <2>7, <2>10, FollowsTwice
  <2>12. Follows(p, Reset(c))
    BY <2>9, <2>10, <2>11, FollowsTwice
  <2>13. Held(q)
    BY <1>2, <2>3, <2>5, <2>7, <2>9 DEF Held, SameEnds
  <2>14. b.last = p.last
    BY <2>5 DEF SameRoute
  <2> QED
    BY <1>2, <2>3, <2>5, <2>7, <2>8, <2>9, <2>12, <2>13, <2>14
       DEF Good, SameEnds, NoneAttaching, q
<1> QED
  BY <1>1, <1>2

\* A fresh id, and what goes with it, leaves the route alone.
LEMMA FreshIdCore ==
  ASSUME NEW p, Core(p)
  PROVE  /\ Core(FreshId(p)) /\ Follows(p, FreshId(p)) /\ FreshId(p).stream = p.stream
         /\ FreshId(p).listening = p.listening /\ FreshId(p).detached = p.detached
         /\ FreshId(p).lost = p.lost /\ FreshId(p).resuming = p.resuming
         /\ SameRoute(p, FreshId(p))
<1>1. p \in Planes /\ p.minted + 1 \in Nat
  BY DEF Core, Planes
<1>2. FreshId(p) \in Planes
  BY <1>1, Zenon DEF FreshId, Planes
<1>3. /\ FreshId(p).listening = p.listening /\ FreshId(p).detached = p.detached
      /\ FreshId(p).lost = p.lost /\ FreshId(p).resuming = p.resuming
      /\ SameRoute(p, FreshId(p))
  BY <1>1 DEF FreshId, Planes, SameRoute
<1>4. FreshId(p).stream = p.stream
  BY <1>3 DEF SameRoute
<1> QED
  BY <1>2, <1>3, <1>4, RelabelledCore

\* handleTransportRecovered
LEMMA RecoverTransportGood ==
  ASSUME NEW p, Good(p), RecoverTransport(p).last <= MaxAttach
  PROVE  LET q == RecoverTransport(p)
         IN /\ Good(q) /\ Follows(p, q) /\ q.stream = p.stream
            /\ q.listening = p.listening /\ q.detached = p.detached
            /\ p.listening \/ p.detached => ~q.lost
            /\ q.lost => p.lost
            /\ q.lost \/ ~p.lost => q = p
<1> DEFINE q == RecoverTransport(p)
<1>1. CASE p.detached \/ ~p.lost \/ ~p.listening
  <2>1. q = p
    BY <1>1 DEF RecoverTransport
  <2> QED
    BY <1>1, <2>1 DEF Good, Held, Follows
<1>2. CASE ~p.detached /\ p.lost /\ p.listening
  <2> DEFINE f == FreshId(p)
             b == [f EXCEPT !.lost = FALSE, !.recoveries = 0,
                            !.status = "attaching", !.abandoned = NoLoss]
             d == SendDetach(b, p.abandoned.id, p.abandoned.att)
             e == [d EXCEPT !.resuming = @ + 1]
  <2>1. p \in Planes /\ Core(p)
    BY DEF Good, Core
  <2>2. /\ Core(f) /\ Follows(p, f) /\ f.stream = p.stream
        /\ f.listening = p.listening /\ f.detached = p.detached
        /\ SameRoute(p, f)
    BY <2>1, FreshIdCore
  <2>3. q = IF p.abandoned.sent /\ b.id # p.id THEN e ELSE EnsureAttached(b, TRUE)
    BY <1>2 DEF RecoverTransport
  <2>4. p.stream # None => p.stream \in Attachments
    BY <2>1, Numbers DEF Core, Planes, Attachments
  <2> HIDE DEF q, f
  <2>5. f \in Planes
    BY <2>2 DEF Core
  <2>6. b \in Planes
    <3>1. /\ FALSE \in BOOLEAN /\ "attaching" \in {"attaching", "attached", "failed"}
          /\ 0 \in Nat /\ NoLoss \in [id : Nat, att : Nat, sent : BOOLEAN]
      BY Numbers DEF NoLoss
    <3> QED
      BY <2>5, <3>1, Zenon DEF Planes
  <2>7. SameRoute(f, b) /\ ~b.lost /\ b.listening = f.listening /\ b.detached = f.detached
    BY <2>5 DEF Planes, SameRoute
  <2> HIDE DEF b
  <2>8. Core(b) /\ Follows(f, b) /\ b.stream = p.stream
    <3>1. b.stream = p.stream
      BY <2>2, <2>7 DEF SameRoute
    <3> QED
      BY <2>2, <2>6, <2>7, <3>1, RelabelledCore
  <2>9. Follows(p, b)
    BY <2>2, <2>4, <2>8, FollowsTwice
  <2>10. CASE p.abandoned.sent /\ b.id # p.id
    <3>1. p.abandoned.id \in Nat /\ p.abandoned.att \in Nat
      BY <2>1 DEF Planes
    <3>2. Core(d) /\ Follows(b, d) /\ SameEnds(b, d) /\ d.stream = b.stream
      BY <2>8, <3>1, SendDetachCore
    <3> HIDE DEF d
    <3>3. d \in Planes /\ d.resuming + 1 \in Nat
      BY <3>2 DEF Core, Planes
    <3>4. e \in Planes
      BY <3>3, Zenon DEF Planes
    <3>5. SameRoute(d, e) /\ e.lost = d.lost /\ e.listening = d.listening
          /\ e.detached = d.detached
      BY <3>3 DEF Planes, SameRoute
    <3> HIDE DEF e
    <3>6. Core(e) /\ Follows(d, e)
      BY <3>2, <3>4, <3>5, RelabelledCore
    <3>7. Follows(p, d)
      BY <2>4, <2>9, <3>2, FollowsTwice
    <3>8. Follows(p, e)
      BY <2>4, <3>6, <3>7, FollowsTwice
    <3>9. q = e
      BY <2>3, <2>10
    <3>10. /\ q.stream = p.stream /\ q.listening = p.listening /\ q.detached = p.detached
           /\ ~q.lost
      BY <2>2, <2>7, <2>8, <3>2, <3>5, <3>9 DEF SameRoute, SameEnds
    <3>11. Held(q)
      BY <1>2, <3>10 DEF Held
    <3> QED
      BY <1>2, <3>6, <3>8, <3>9, <3>10, <3>11 DEF Good, q
  <2>11. CASE ~(p.abandoned.sent /\ b.id # p.id)
    <3>1. q = EnsureAttached(b, TRUE) /\ q.last <= MaxAttach
      BY <2>3, <2>11 DEF q
    <3>2. Core(q) /\ Follows(b, q) /\ SameEnds(b, q) /\ q.stream = b.stream
      BY <2>8, <3>1, EnsureAttachedCore
    <3>3. Follows(p, q)
      BY <2>4, <2>9, <3>2, FollowsTwice
    <3>4. /\ q.stream = p.stream /\ q.listening = p.listening /\ q.detached = p.detached
          /\ ~q.lost
      BY <2>2, <2>7, <2>8, <3>2 DEF SameEnds
    <3>5. Held(q)
      BY <1>2, <3>4 DEF Held
    <3> QED
      BY <1>2, <3>2, <3>3, <3>4, <3>5 DEF Good, q
  <2> QED
    BY <2>10, <2>11
<1> QED
  <2>1. p.detached \in BOOLEAN /\ p.lost \in BOOLEAN /\ p.listening \in BOOLEAN
    BY DEF Good, Core, Planes
  <2> QED
    BY <1>1, <1>2, <2>1

\* recoverRoute closes the stream whether or not it attaches again.
LEMMA RecoverRouteGood ==
  ASSUME NEW p, Good(p), RecoverRoute(p).last <= MaxAttach
  PROVE  LET q == RecoverRoute(p)
         IN /\ Good(q) /\ Follows(p, q) /\ q.stream = None
            /\ q.listening = p.listening /\ q.detached = p.detached /\ q.lost = p.lost
            /\ q.resuming = p.resuming
<1> DEFINE q == RecoverRoute(p)
           c == CloseStream(p)
           k == [c EXCEPT !.status = "failed"]
           f == FreshId(c)
           b == [f EXCEPT !.recoveries = @ + 1, !.status = "attaching"]
<1>1. p \in Planes /\ Core(p)
  BY DEF Good, Core
<1>2. Core(c) /\ Follows(p, c) /\ SameEnds(p, c) /\ c.stream = None
  BY <1>1, CloseStreamCore
<1>3. p.stream # None => p.stream \in Attachments
  BY <1>1, Numbers DEF Core, Planes, Attachments
<1>4. q = IF p.recoveries >= 1 THEN k ELSE EnsureAttached(b, TRUE)
  BY DEF RecoverRoute
<1> HIDE DEF c, q
<1>5. c \in Planes
  BY <1>2 DEF Core
<1>6. "attaching" \in {"attaching", "attached", "failed"}
      /\ "failed" \in {"attaching", "attached", "failed"}
  OBVIOUS
<1>7. CASE p.recoveries >= 1
  <2>1. k \in Planes
    BY <1>5, <1>6, Zenon DEF Planes
  <2>2. SameRoute(c, k) /\ SameEnds(c, k)
    BY <1>5 DEF Planes, SameRoute, SameEnds
  <2> HIDE DEF k
  <2>3. Core(k) /\ Follows(c, k)
    BY <1>2, <2>1, <2>2, RelabelledCore
  <2>4. Follows(p, k)
    BY <1>2, <1>3, <2>3, FollowsTwice
  <2>5. SameEnds(p, k) /\ k.stream = None
    BY <1>2, <2>2 DEF SameEnds, SameRoute
  <2>6. Held(k)
    BY <2>5, HeldStill DEF Good
  <2> QED
    BY <1>4, <1>7, <2>3, <2>4, <2>5, <2>6 DEF Good, SameEnds, q
<1>8. CASE ~(p.recoveries >= 1)
  <2>1. /\ Core(f) /\ Follows(c, f) /\ f.stream = c.stream
        /\ f.listening = c.listening /\ f.detached = c.detached
        /\ f.lost = c.lost /\ f.resuming = c.resuming
    BY <1>2, FreshIdCore
  <2> HIDE DEF f
  <2>2. f \in Planes /\ f.recoveries + 1 \in Nat
    BY <2>1 DEF Core, Planes
  <2>3. b \in Planes
    BY <1>6, <2>2, Zenon DEF Planes
  <2>4. SameRoute(f, b) /\ SameEnds(f, b)
    BY <2>2 DEF Planes, SameRoute, SameEnds
  <2> HIDE DEF b
  <2>5. Core(b) /\ Follows(f, b)
    BY <2>1, <2>3, <2>4, RelabelledCore
  <2>6. q = EnsureAttached(b, TRUE) /\ q.last <= MaxAttach
    BY <1>4, <1>8 DEF q
  <2>7. Core(q) /\ Follows(b, q) /\ SameEnds(b, q) /\ q.stream = b.stream
    BY <2>5, <2>6, EnsureAttachedCore
  <2>8. Follows(p, f)
    BY <1>2, <1>3, <2>1, FollowsTwice
  <2>9. Follows(p, b)
    BY <1>3, <2>5, <2>8, FollowsTwice
  <2>10. Follows(p, q)
    BY <1>3, <2>7, <2>9, FollowsTwice
  <2>11. /\ q.listening = p.listening /\ q.detached = p.detached /\ q.lost = p.lost
         /\ q.resuming = p.resuming /\ q.stream = None
    BY <1>2, <2>1, <2>4, <2>7 DEF SameEnds, SameRoute
  <2>12. Held(q)
    BY <2>11 DEF Good, Held
  <2> QED
    BY <2>7, <2>10, <2>11, <2>12 DEF Good, q
<1> QED
  BY <1>7, <1>8

\* No Attach of attachment a is in line.
NotInLine(p, a) ==
  \A i \in 1 .. Len(p.outbox) : p.outbox[i] # [op |-> "attach", n |-> a]

\* The promise of an attachment rejects, its request no longer in line.
LEMMA RejectedGood ==
  ASSUME NEW p, Good(p), NEW a \in Attachments,
         p.streams[a].phase \in {"queued", "written", "reserved"}, NotInLine(p, a)
  PROVE  LET q == Rejected(p, a)
         IN /\ Good(q) /\ Follows(p, q) /\ SameEnds(p, q)
            /\ q.stream = p.stream /\ q.att = p.att /\ q.last = p.last
<1> DEFINE q == Rejected(p, a)
           u == [p.streams[a] EXCEPT !.phase = "failed", !.live = FALSE]
           st == [p.streams EXCEPT ![a] = u]
           pr == IF p.promise = a THEN None ELSE p.promise
           su == IF p.streams[a].visible THEN "failed" ELSE p.status
<1>1. p \in Planes /\ Core(p)
  BY DEF Good, Core
<1>2. p.streams \in Streams /\ p.streams[a] \in StreamTypes
  BY <1>1 DEF Planes, Streams
<1>3. q = [p EXCEPT !.streams = st, !.promise = pr, !.status = su]
  <2>1. DOMAIN p.streams = Attachments
    BY <1>2 DEF Streams
  <2>2. [p EXCEPT !.streams[a].phase = "failed", !.streams[a].live = FALSE]
          = [p EXCEPT !.streams = st]
    BY <1>1, <2>1 DEF Planes
  <2>3. q = [[p EXCEPT !.streams[a].phase = "failed", !.streams[a].live = FALSE]
               EXCEPT !.promise = pr, !.status = su]
    BY <1>1 DEF Rejected, Planes
  <2> QED
    BY <2>2, <2>3
<1>4. u \in StreamTypes
  <2>1. "failed" \in Phases /\ FALSE \in BOOLEAN
    BY DEF Phases
  <2> QED
    BY <1>2, <2>1, Zenon DEF StreamTypes
<1>5. u.phase = "failed" /\ ~u.live
  BY <1>2 DEF StreamTypes
<1>6. st \in Streams /\ st[a] = u /\ \A b \in Attachments : b # a => st[b] = p.streams[b]
  BY <1>2, <1>4, Zenon DEF Streams
<1>7. /\ u.sentOn = p.streams[a].sentOn /\ u.id = p.streams[a].id
  BY <1>2 DEF StreamTypes
<1>8. pr \in Nat /\ pr \in {None, p.promise} /\ su \in {"attaching", "attached", "failed"}
  BY <1>1, Numbers DEF Planes
<1> HIDE DEF q, u, st, pr, su
<1>9. q \in Planes
  BY <1>1, <1>3, <1>6, <1>8, Zenon DEF Planes
<1>10. /\ q.streams = st /\ q.promise = pr /\ q.stream = p.stream /\ q.att = p.att
       /\ q.last = p.last /\ q.outbox = p.outbox /\ SameEnds(p, q)
  BY <1>1, <1>3 DEF Planes, SameEnds
<1>11. Delivers(q)
  <2> SUFFICES ASSUME NEW b \in Attachments
               PROVE  LET s == q.streams[b]
                      IN /\ s.live /\ s.phase # "gone" => q.stream = b
                         /\ s.phase \in {"reserved", "open"} => s.live
                         /\ s.phase \in {"none", "acquiring"} => ~s.live
                         /\ s.phase \in {"none", "acquiring", "queued"} => s.sentOn = None
                         /\ q.last < b => s.phase = "none"
    BY DEF Delivers
  <2>1. CASE b = a
    <3>1. ~(p.last < a)
      BY <1>1 DEF Core, Delivers
    <3> QED
      BY <1>5, <1>6, <1>10, <2>1, <3>1
  <2>2. CASE b # a
    BY <1>1, <1>6, <1>10, <2>2 DEF Core, Delivers
  <2> QED
    BY <2>1, <2>2
<1>12. InLine(q.outbox, q.streams)
  <2>1. InLine(p.outbox, p.streams) /\ p.outbox \in Seq(Requests)
    BY <1>1 DEF Core, Planes
  <2>2. \A i \in 1 .. Len(p.outbox) : p.outbox[i] \in Requests
    BY <2>1
  <2>3. \A i \in 1 .. Len(p.outbox) : p.outbox[i].op = "attach" => p.outbox[i].n # a
    BY <2>2 DEF Requests, NotInLine
  <2> QED
    BY <1>6, <1>10, <2>1, <2>3 DEF InLine
<1>13. Core(q)
  <2>1. q.promise \in {None, q.att}
    BY <1>1, <1>8, <1>10 DEF Core
  <2> QED
    BY <1>1, <1>9, <1>10, <1>11, <1>12, <2>1 DEF Core
<1>14. Held(q)
  BY <1>10, HeldStill DEF Good
<1>15. p.stream # None => p.stream \in Attachments
  BY <1>1, Numbers DEF Core, Planes, Attachments
<1>16. Follows(p, q)
  BY <1>5, <1>6, <1>7, <1>10, <1>15 DEF Follows, OnPeer
<1> QED
  BY <1>10, <1>13, <1>14, <1>16 DEF Good, q

\* The failures of a lost peer leave nothing on a peer.
LEMMA FailPendingGood ==
  ASSUME NEW p, Good(p)
  PROVE  LET q == FailPending(p)
         IN /\ Good(q) /\ Follows(p, q) /\ SameEnds(p, q)
            /\ q.stream = p.stream /\ q.att = p.att /\ q.last = p.last
            /\ \A a \in Attachments : q.streams[a].phase \notin OnPeer
<1> DEFINE q == FailPending(p)
           st == [a \in Attachments |->
                    IF a \in Failing(p)
                    THEN [p.streams[a] EXCEPT !.phase = "failed", !.live = FALSE]
                    ELSE IF p.streams[a].phase = "open"
                    THEN [p.streams[a] EXCEPT !.phase = "gone"] ELSE p.streams[a]]
           pr == IF p.promise \in Failing(p) THEN None ELSE p.promise
           su == IF \E a \in Failing(p) : p.streams[a].visible THEN "failed" ELSE p.status
<1>1. p \in Planes /\ Core(p)
  BY DEF Good, Core
<1>2. p.streams \in Streams
  BY <1>1 DEF Planes
<1>3. q = [p EXCEPT !.outbox = <<>>, !.streams = st, !.promise = pr, !.status = su]
  BY <1>1 DEF FailPending, Planes
<1>4. \A a \in Attachments :
        /\ st[a] \in StreamTypes
        /\ st[a].id = p.streams[a].id /\ st[a].sentOn = p.streams[a].sentOn
        /\ st[a].phase = (IF a \in Failing(p) THEN "failed" ELSE
                           IF p.streams[a].phase = "open" THEN "gone" ELSE p.streams[a].phase)
        /\ st[a].live = (IF a \in Failing(p) THEN FALSE ELSE p.streams[a].live)
  <2> SUFFICES ASSUME NEW a \in Attachments
               PROVE  /\ st[a] \in StreamTypes
                      /\ st[a].id = p.streams[a].id /\ st[a].sentOn = p.streams[a].sentOn
                      /\ st[a].phase = (IF a \in Failing(p) THEN "failed" ELSE
                            IF p.streams[a].phase = "open" THEN "gone" ELSE p.streams[a].phase)
                      /\ st[a].live = (IF a \in Failing(p) THEN FALSE ELSE p.streams[a].live)
    OBVIOUS
  <2> DEFINE t == p.streams[a]
             u == [t EXCEPT !.phase = "failed", !.live = FALSE]
             w == [t EXCEPT !.phase = "gone"]
  <2>1. t \in StreamTypes
    BY <1>2 DEF Streams
  <2>2. st[a] = IF a \in Failing(p) THEN u ELSE IF t.phase = "open" THEN w ELSE t
    OBVIOUS
  <2> HIDE DEF st
  <2>3. "failed" \in Phases /\ "gone" \in Phases /\ FALSE \in BOOLEAN
    BY DEF Phases
  <2> HIDE DEF t
  <2>4. u \in StreamTypes
    BY <2>1, <2>3, Zenon DEF StreamTypes
  <2>5. w \in StreamTypes
    BY <2>1, <2>3, Zenon DEF StreamTypes
  <2>6. /\ u.id = t.id /\ u.sentOn = t.sentOn /\ u.phase = "failed" /\ u.live = FALSE
        /\ w.id = t.id /\ w.sentOn = t.sentOn /\ w.phase = "gone" /\ w.live = t.live
    BY <2>1 DEF StreamTypes
  <2> HIDE DEF u, w
  <2>7. /\ st[a] \in StreamTypes /\ st[a].id = t.id /\ st[a].sentOn = t.sentOn
        /\ st[a].phase = (IF a \in Failing(p) THEN "failed" ELSE
                           IF t.phase = "open" THEN "gone" ELSE t.phase)
        /\ st[a].live = (IF a \in Failing(p) THEN FALSE ELSE t.live)
    BY <2>1, <2>2, <2>4, <2>5, <2>6
  <2> QED
    BY <2>7 DEF t
<1>5. st = [a \in Attachments |-> st[a]]
  OBVIOUS
<1>6. pr \in Nat /\ pr \in {None, p.promise} /\ su \in {"attaching", "attached", "failed"}
  BY <1>1, Numbers DEF Planes
<1> HIDE DEF q, st, pr, su
<1>7. st \in Streams
  BY <1>4, <1>5 DEF Streams
<1>8. <<>> \in Seq(Requests) /\ Len(<<>>) = 0
  OBVIOUS
<1>9. q \in Planes
  BY <1>1, <1>3, <1>6, <1>7, <1>8, Zenon DEF Planes
<1>10. /\ q.streams = st /\ q.promise = pr /\ q.stream = p.stream /\ q.att = p.att
       /\ q.last = p.last /\ q.outbox = <<>> /\ SameEnds(p, q)
  BY <1>1, <1>3 DEF Planes, SameEnds
<1>11. \A a \in Attachments :
         a \in Failing(p) <=> p.streams[a].phase \in {"queued", "written", "reserved"}
  BY DEF Failing
<1>12. Delivers(q)
  <2> SUFFICES ASSUME NEW b \in Attachments
               PROVE  LET s == st[b]
                      IN /\ s.live /\ s.phase # "gone" => q.stream = b
                         /\ s.phase \in {"reserved", "open"} => s.live
                         /\ s.phase \in {"none", "acquiring"} => ~s.live
                         /\ s.phase \in {"none", "acquiring", "queued"} => s.sentOn = None
                         /\ q.last < b => s.phase = "none"
    BY <1>10 DEF Delivers
  <2>1. /\ p.streams[b].live /\ p.streams[b].phase # "gone" => p.stream = b
        /\ p.streams[b].phase \in {"none", "acquiring"} => ~p.streams[b].live
        /\ p.streams[b].phase \in {"none", "acquiring", "queued"} => p.streams[b].sentOn = None
        /\ p.last < b => p.streams[b].phase = "none"
    BY <1>1 DEF Core, Delivers
  <2> QED
    BY <1>4, <1>10, <1>11, <2>1
<1>13. InLine(q.outbox, q.streams)
  BY <1>8, <1>10 DEF InLine
<1>14. Core(q)
  <2>1. q.promise \in {None, q.att}
    BY <1>1, <1>6, <1>10 DEF Core
  <2> QED
    BY <1>1, <1>9, <1>10, <1>12, <1>13, <2>1 DEF Core
<1>15. Held(q)
  BY <1>10, HeldStill DEF Good
<1>16. \A a \in Attachments : q.streams[a].phase \notin OnPeer
  BY <1>4, <1>10, <1>11 DEF OnPeer
<1>17. p.stream # None => p.stream \in Attachments
  BY <1>1, Numbers DEF Core, Planes, Attachments
<1>18. Follows(p, q)
  BY <1>4, <1>10, <1>16, <1>17 DEF Follows
<1> QED
  BY <1>10, <1>14, <1>15, <1>16, <1>18 DEF Good, q

\* detach gives up the stream with everything else.
LEMMA DetachedGood ==
  ASSUME NEW p, Good(p)
  PROVE  LET q == Detached(p)
         IN /\ Good(q) /\ Follows(p, q) /\ NoneAttaching(q)
            /\ q.detached /\ ~q.lost /\ q.resuming = p.resuming /\ q.last = p.last
<1> DEFINE q == Detached(p)
           b == [p EXCEPT !.detached = TRUE, !.lost = FALSE, !.listening = FALSE]
           c == Abandoned(b)
           d == Reset(c)
<1>1. p \in Planes /\ Core(p)
  BY DEF Good, Core
<1>2. p.id \in Nat /\ p.att \in Nat
  BY <1>1 DEF Planes
<1>3. q = SendDetach(d, p.id, p.att)
  BY DEF Detached
<1>4. b \in Planes
  <2>1. TRUE \in BOOLEAN /\ FALSE \in BOOLEAN
    OBVIOUS
  <2> QED
    BY <1>1, <2>1, Zenon DEF Planes
<1>5. SameRoute(p, b) /\ b.detached /\ ~b.lost /\ ~b.listening /\ b.resuming = p.resuming
  BY <1>1 DEF Planes, SameRoute
<1> HIDE DEF q, b
<1>6. Core(b) /\ Follows(p, b)
  BY <1>1, <1>4, <1>5, RelabelledCore
<1>7. /\ Core(c) /\ Silent(c) /\ Follows(b, c) /\ SameEnds(b, c)
  BY <1>6, AbandonedCore
<1>8. c.last = b.last
  BY <1>6 DEF Abandoned, Core, Planes
<1> HIDE DEF c
<1>9. /\ Core(d) /\ Follows(c, d) /\ SameEnds(c, d)
      /\ d.stream = None /\ d.att = None /\ d.last = c.last
  BY <1>7, ResetCore
<1> HIDE DEF d
<1>10. /\ Core(q) /\ Follows(d, q) /\ SameEnds(d, q)
       /\ q.stream = d.stream /\ q.att = d.att /\ q.last = d.last
  BY <1>2, <1>3, <1>9, SendDetachCore
<1>11. p.stream # None => p.stream \in Attachments
  BY <1>1, Numbers DEF Core, Planes, Attachments
<1>12. Follows(p, c)
  BY <1>6, <1>7, <1>11, FollowsTwice
<1>13. Follows(p, d)
  BY <1>9, <1>11, <1>12, FollowsTwice
<1>14. Follows(p, q)
  BY <1>10, <1>11, <1>13, FollowsTwice
<1>15. /\ q.detached /\ ~q.lost /\ ~q.listening /\ q.resuming = p.resuming
       /\ q.stream = None /\ q.att = None /\ q.last = p.last
  BY <1>5, <1>7, <1>8, <1>9, <1>10 DEF SameEnds, SameRoute
<1> QED
  BY <1>10, <1>14, <1>15 DEF Good, Held, NoneAttaching, q

-----------------------------------------------------------------------------
(* The actions.                                                            *)

\* A stream of a plane is an attachment.
LEMMA StreamIsAttachment ==
  ASSUME NEW p, Good(p), p.stream # None
  PROVE  p.stream \in Attachments
  BY Numbers DEF Good, Core, Planes, Attachments

\* What a handler may leave while the peer rests.
LEMMA RestingPeer ==
  ASSUME NEW e, NEW pe, NEW p, NEW q, Inv(e, pe, p), Good(q), Follows(p, q),
         q.lost => p.lost,
         e = {} => /\ q.stream = None \/ q.id = p.id
                   /\ ~pe.up => q.resuming = 0
                   /\ q.lost => q.att \in {None, p.att}
  PROVE  Inv(e, pe, q)
<1>1. p.stream # None => p.stream \in Attachments
  BY StreamIsAttachment DEF Inv
<1>2. OfPeer(p, pe.up, pe.n) => OfPeer(q, pe.up, pe.n)
  BY <1>1 DEF OfPeer, Follows
<1>3. e = {} => Quiet(q, pe.up)
  BY <1>1 DEF Inv, Quiet, NoneAttaching, Follows
<1> QED
  BY <1>2, <1>3 DEF Inv

\* Where the view waits for a recovery to attach, no peer is missing.
LEMMA QuietPeer ==
  ASSUME IInv, environment = {}, Recovering => "busy" \in environment
  PROVE  peer.up /\ ~plane.lost /\ ~(plane.resuming > 0)
<1>1. peer.up \in BOOLEAN
  BY DEF IInv, Inv
<1> QED
  BY <1>1 DEF IInv, Inv, Recovering

LEMMA SubscribeStep == ASSUME IInv, Subscribe PROVE IInv'
<1> DEFINE p == plane
           b == [p EXCEPT !.listening = TRUE, !.status = "attaching"]
           q == EnsureAttached(b, TRUE)
<1>1. p \in Planes /\ Good(p) /\ Core(p) /\ Inv(environment, peer, p)
  BY DEF IInv, Inv, Good, Core
<1>2. plane' = q /\ environment' = environment /\ peer' = peer /\ q.last <= MaxAttach
      /\ ~p.detached
  BY DEF Subscribe, PeerRests, Bounded
<1>3. environment = {} => ~p.lost
  BY QuietPeer DEF Subscribe
<1> HIDE DEF p
<1>4. b \in Planes
  <2>1. TRUE \in BOOLEAN /\ "attaching" \in {"attaching", "attached", "failed"}
    OBVIOUS
  <2> QED
    BY <1>1, <2>1, Zenon DEF Planes
<1>5. /\ SameRoute(p, b) /\ b.listening /\ b.detached = p.detached /\ b.lost = p.lost
      /\ b.id = p.id /\ b.resuming = p.resuming
  BY <1>1 DEF Planes, SameRoute
<1> HIDE DEF b, q
<1>6. Core(b) /\ Follows(p, b)
  BY <1>1, <1>4, <1>5, RelabelledCore
<1>7. q = EnsureAttached(b, TRUE)
  BY DEF q
<1>8. Core(q) /\ Follows(b, q) /\ SameEnds(b, q)
  BY <1>2, <1>6, <1>7, EnsureAttachedCore
<1>9. p.stream # None => p.stream \in Attachments
  BY <1>1, StreamIsAttachment
<1>10. Follows(p, q)
  BY <1>6, <1>8, <1>9, FollowsTwice
<1>11. Good(q)
  BY <1>2, <1>5, <1>8 DEF Good, Held, SameEnds
<1>12. q.lost = p.lost /\ q.id = p.id /\ q.resuming = p.resuming
  BY <1>5, <1>8 DEF SameEnds
<1>13. environment = {} => (~peer.up => q.resuming = 0)
  BY <1>1, <1>12 DEF Inv, Quiet
<1>14. Inv(environment, peer, q)
  BY <1>1, <1>3, <1>10, <1>11, <1>12, <1>13, RestingPeer
<1> QED
  BY <1>2, <1>14 DEF IInv

LEMMA UnsubscribeStep == ASSUME IInv, Unsubscribe PROVE IInv'
<1> DEFINE p == plane
           b == [p EXCEPT !.listening = FALSE]
           q == CloseStream(b)
<1>1. p \in Planes /\ Good(p) /\ Core(p) /\ Inv(environment, peer, p)
  BY DEF IInv, Inv, Good, Core
<1>2. plane' = q /\ environment' = environment /\ peer' = peer /\ p.listening
  BY DEF Unsubscribe, PeerRests
<1> HIDE DEF p
<1>3. b \in Planes
  <2>1. FALSE \in BOOLEAN
    OBVIOUS
  <2> QED
    BY <1>1, <2>1, Zenon DEF Planes
<1>4. /\ SameRoute(p, b) /\ ~b.listening /\ b.detached = p.detached /\ b.lost = p.lost
      /\ b.id = p.id /\ b.resuming = p.resuming
  BY <1>1 DEF Planes, SameRoute
<1> HIDE DEF b, q
<1>5. Core(b) /\ Follows(p, b)
  BY <1>1, <1>3, <1>4, RelabelledCore
<1>6. q = CloseStream(b)
  BY DEF q
<1>7. Core(q) /\ Follows(b, q) /\ SameEnds(b, q) /\ q.stream = None /\ q.att = None
  BY <1>5, <1>6, CloseStreamCore
<1>8. p.stream # None => p.stream \in Attachments
  BY <1>1, StreamIsAttachment
<1>9. Follows(p, q)
  BY <1>5, <1>7, <1>8, FollowsTwice
<1>10. Good(q)
  BY <1>1, <1>2, <1>4, <1>7 DEF Good, Held, SameEnds
<1>11. q.lost = p.lost /\ q.id = p.id /\ q.resuming = p.resuming
  BY <1>4, <1>7 DEF SameEnds
<1>12. environment = {} => (~peer.up => q.resuming = 0)
  BY <1>1, <1>11 DEF Inv, Quiet
<1>13. Inv(environment, peer, q)
  BY <1>1, <1>7, <1>9, <1>10, <1>11, <1>12, RestingPeer
<1> QED
  BY <1>2, <1>13 DEF IInv

LEMMA InputStep == ASSUME IInv, Input PROVE IInv'
<1> DEFINE p == plane
           q == EnsureAttached(p, FALSE)
<1>1. Good(p) /\ Core(p) /\ Inv(environment, peer, p)
  BY DEF IInv, Inv, Good
<1>2. plane' = q /\ environment' = environment /\ peer' = peer /\ q.last <= MaxAttach
  BY DEF Input, PeerRests, Bounded
<1>3. environment = {} => ~p.lost
  BY QuietPeer DEF Input
<1> HIDE DEF p, q
<1>4. q = EnsureAttached(p, FALSE)
  BY DEF q
<1>5. Core(q) /\ Follows(p, q) /\ SameEnds(p, q) /\ q.stream = p.stream
  BY <1>1, <1>2, <1>4, EnsureAttachedCore
<1>6. Good(q)
  BY <1>1, <1>5, HeldStill DEF Good
<1>7. q.lost = p.lost /\ q.id = p.id /\ q.resuming = p.resuming
  BY <1>5 DEF SameEnds
<1>8. environment = {} => (~peer.up => q.resuming = 0)
  BY <1>1, <1>7 DEF Inv, Quiet
<1>9. Inv(environment, peer, q)
  BY <1>1, <1>3, <1>5, <1>6, <1>7, <1>8, RestingPeer
<1> QED
  BY <1>2, <1>9 DEF IInv

LEMMA DetachStep == ASSUME IInv, Detach PROVE IInv'
<1> DEFINE p == plane
           q == Detached(p)
<1>1. Good(p) /\ Inv(environment, peer, p)
  BY DEF IInv, Inv
<1>2. plane' = q /\ environment' = environment /\ peer' = peer
  BY DEF Detach, PeerRests
<1> HIDE DEF p, q
<1>3. q = Detached(p)
  BY DEF q
<1>4. Good(q) /\ Follows(p, q) /\ NoneAttaching(q) /\ ~q.lost /\ q.resuming = p.resuming
  BY <1>1, <1>3, DetachedGood
<1>5. environment = {} => (~peer.up => q.resuming = 0)
  BY <1>1, <1>4 DEF Inv, Quiet
<1>6. Inv(environment, peer, q)
  BY <1>1, <1>4, <1>5, RestingPeer DEF NoneAttaching
<1> QED
  BY <1>2, <1>6 DEF IInv

\* The planes that an acquired, a moved and a written stream leave.
WithAcquired(p, a) ==
  [p EXCEPT !.stream = a, !.detachSentFor = [id |-> None, att |-> None],
            !.streams[a].phase = "queued", !.streams[a].live = TRUE, !.streams[a].id = p.id,
            !.outbox = Append(@, [op |-> "attach", n |-> a])]
WithPhase(p, a, ph, pr) == [p EXCEPT !.streams[a].phase = ph, !.promise = pr]
WithWritten(p, a, n) ==
  [p EXCEPT !.streams[a].phase = "written", !.streams[a].sentOn = n]

\* attachToAuthoritativeSession for a current attachment: a stream in line.
LEMMA AcquiredGood ==
  ASSUME NEW p, Good(p), NEW a \in Attachments, p.streams[a].phase = "acquiring",
         p.att = a, ~p.detached, p.listening, NEW q,
         q = WithAcquired(p, a)
  PROVE  /\ Good(q) /\ SameEnds(p, q) /\ q.stream = a
         /\ q.streams[a].id = p.id /\ q.streams[a].sentOn = None
         /\ \A b \in Attachments : q.streams[b].phase \in OnPeer => p.streams[b].phase \in OnPeer
<1> DEFINE u == [p.streams[a] EXCEPT !.phase = "queued", !.live = TRUE, !.id = p.id]
           st == [p.streams EXCEPT ![a] = u]
           r == [op |-> "attach", n |-> a]
           ob == Append(p.outbox, r)
           f == [id |-> None, att |-> None]
<1>1. p \in Planes /\ Core(p) /\ a \in Nat
  BY Numbers DEF Good, Core
<1>2. p.streams \in Streams /\ p.streams[a] \in StreamTypes /\ p.id \in Nat
      /\ p.outbox \in Seq(Requests)
  BY <1>1 DEF Planes, Streams
<1>3. q = [p EXCEPT !.stream = a, !.detachSentFor = f, !.streams = st, !.outbox = ob]
  <2> DEFINE c == [p EXCEPT !.stream = a, !.detachSentFor = f]
  <2>1. DOMAIN p.streams = Attachments
    BY <1>2 DEF Streams
  <2>2. c \in Planes /\ c.streams = p.streams
    <3>1. f \in [id : Nat, att : Nat]
      BY Numbers
    <3> HIDE DEF f
    <3> QED
      BY <1>1, <3>1, Zenon DEF Planes
  <2> HIDE DEF c
  <2>3. [c EXCEPT !.streams[a].phase = "queued", !.streams[a].live = TRUE, !.streams[a].id = p.id]
          = [c EXCEPT !.streams = st]
    BY <2>1, <2>2, ZenonT(40) DEF Planes
  <2>4. q = [[c EXCEPT !.streams[a].phase = "queued", !.streams[a].live = TRUE,
                       !.streams[a].id = p.id] EXCEPT !.outbox = ob]
    BY <1>1 DEF Planes, c, WithAcquired
  <2>5. q = [c EXCEPT !.streams = st, !.outbox = ob]
    BY <2>3, <2>4
  <2> HIDE DEF st, ob
  <2> QED
    BY <1>1, <2>5 DEF Planes, c
<1>4. u \in StreamTypes
  <2>1. "queued" \in Phases /\ TRUE \in BOOLEAN
    BY DEF Phases
  <2> QED
    BY <1>2, <2>1, Zenon DEF StreamTypes
<1>5. u.phase = "queued" /\ u.live /\ u.id = p.id /\ u.sentOn = p.streams[a].sentOn
  BY <1>2 DEF StreamTypes
<1>6. st \in Streams /\ st[a] = u /\ \A b \in Attachments : b # a => st[b] = p.streams[b]
  BY <1>2, <1>4, Zenon DEF Streams
<1>7. r \in Requests /\ f \in [id : Nat, att : Nat] /\ r.op = "attach" /\ r.n = a
  BY <1>1, Numbers DEF Requests
<1> HIDE DEF r, f
<1>8. ob \in Seq(Requests) /\ Len(p.outbox) \in Nat /\ Len(ob) = Len(p.outbox) + 1
      /\ ob[Len(ob)] = r /\ \A i \in 1 .. Len(p.outbox) : ob[i] = p.outbox[i]
  BY <1>2, <1>7
<1> HIDE DEF u, st, ob
<1>9. q \in Planes
  BY <1>1, <1>3, <1>6, <1>7, <1>8, ZenonT(40) DEF Planes
<1>10. /\ q.streams = st /\ q.promise = p.promise /\ q.stream = a /\ q.att = p.att
       /\ q.last = p.last /\ q.outbox = ob /\ SameEnds(p, q)
  BY <1>1, <1>3 DEF Planes, SameEnds
<1>11. p.streams[a].sentOn = None /\ ~(p.last < a)
  BY <1>1 DEF Core, Delivers
<1>12. Delivers(q)
  <2> SUFFICES ASSUME NEW b \in Attachments
               PROVE  LET s == st[b]
                      IN /\ s.live /\ s.phase # "gone" => a = b
                         /\ s.phase \in {"reserved", "open"} => s.live
                         /\ s.phase \in {"none", "acquiring"} => ~s.live
                         /\ s.phase \in {"none", "acquiring", "queued"} => s.sentOn = None
                         /\ p.last < b => s.phase = "none"
    BY <1>10 DEF Delivers
  <2>1. CASE b = a
    BY <1>5, <1>6, <1>11, <2>1
  <2>2. CASE b # a
    <3>1. p.stream # b
      BY <1>1, <2>2, Numbers DEF Core
    <3> QED
      BY <1>1, <1>6, <2>2, <3>1 DEF Core, Delivers
  <2> QED
    BY <2>1, <2>2
<1>13. InLine(ob, st)
  <2>1. InLine(p.outbox, p.streams)
    BY <1>1 DEF Core
  <2>2. \A i \in 1 .. Len(p.outbox) : p.outbox[i].op = "attach" => p.outbox[i].n # a
    BY <2>1 DEF InLine
  <2>3. \A i \in 1 .. Len(ob) : i = Len(ob) \/ (i \in 1 .. Len(p.outbox) /\ ob[i] = p.outbox[i])
    BY <1>8
  <2>4. \A i \in 1 .. Len(ob) : ob[i].op = "attach" =>
          ob[i].n \in Attachments /\ st[ob[i].n].phase = "queued"
    <3> SUFFICES ASSUME NEW i \in 1 .. Len(ob), ob[i].op = "attach"
                 PROVE  ob[i].n \in Attachments /\ st[ob[i].n].phase = "queued"
      OBVIOUS
    <3>1. CASE i = Len(ob)
      BY <1>5, <1>6, <1>7, <1>8, <3>1
    <3>2. CASE i # Len(ob)
      <4>1. i \in 1 .. Len(p.outbox) /\ ob[i] = p.outbox[i]
        BY <2>3, <3>2
      <4>2. ob[i].n \in Attachments /\ p.streams[ob[i].n].phase = "queued" /\ ob[i].n # a
        BY <2>1, <2>2, <4>1 DEF InLine
      <4> QED
        BY <1>6, <4>2
    <3> QED
      BY <3>1, <3>2
  <2>5. \A i, j \in 1 .. Len(ob) :
          ob[i].op = "attach" /\ ob[j].op = "attach" /\ ob[i].n = ob[j].n => i = j
    BY <1>7, <1>8, <2>1, <2>2, <2>3, SMTT(30) DEF InLine
  <2> QED
    BY <2>4, <2>5 DEF InLine
<1>14. Core(q)
  <2>1. q.stream \in {None, q.att} /\ q.promise \in {None, q.att} /\ q.att <= q.last
    BY <1>1, <1>10 DEF Core
  <2> QED
    BY <1>1, <1>9, <1>10, <1>12, <1>13, <2>1 DEF Core
<1>15. Held(q)
  BY <1>10 DEF Good, Held, SameEnds
<1>16. \A b \in Attachments : q.streams[b].phase \in OnPeer => p.streams[b].phase \in OnPeer
  BY <1>5, <1>6, <1>10 DEF OnPeer
<1> QED
  BY <1>5, <1>6, <1>10, <1>11, <1>14, <1>15, <1>16 DEF Good

\* A stream that was not in line moves on, or its channel is gone.
LEMMA AdvancedGood ==
  ASSUME NEW p, Good(p), NEW a \in Attachments, NEW ph \in {"reserved", "open", "gone"},
         p.streams[a].phase \in {"acquiring", "written", "reserved", "open"},
         ph # "gone" => p.streams[a].live /\ p.streams[a].phase # "acquiring",
         NEW pr \in {None, p.promise}, NEW q,
         q = WithPhase(p, a, ph, pr)
  PROVE  /\ Good(q) /\ Follows(p, q) /\ SameEnds(p, q)
         /\ q.stream = p.stream /\ q.att = p.att /\ q.last = p.last
         /\ q.streams[a].id = p.streams[a].id
<1> DEFINE u == [p.streams[a] EXCEPT !.phase = ph]
           st == [p.streams EXCEPT ![a] = u]
<1>1. p \in Planes /\ Core(p)
  BY DEF Good, Core
<1>2. p.streams \in Streams /\ p.streams[a] \in StreamTypes /\ pr \in Nat
  BY <1>1, Numbers DEF Planes, Streams
<1>3. q = [p EXCEPT !.streams = st, !.promise = pr]
  <2>1. DOMAIN p.streams = Attachments
    BY <1>2 DEF Streams
  <2> QED
    BY <1>1, <2>1 DEF Planes, WithPhase
<1>4. u \in StreamTypes
  <2>1. ph \in Phases
    BY DEF Phases
  <2> QED
    BY <1>2, <2>1, Zenon DEF StreamTypes
<1>5. /\ u.phase = ph /\ u.live = p.streams[a].live /\ u.id = p.streams[a].id
      /\ u.sentOn = p.streams[a].sentOn
  BY <1>2 DEF StreamTypes
<1>6. st \in Streams /\ st[a] = u /\ \A b \in Attachments : b # a => st[b] = p.streams[b]
  BY <1>2, <1>4, Zenon DEF Streams
<1> HIDE DEF u, st
<1>7. q \in Planes
  BY <1>1, <1>2, <1>3, <1>6, Zenon DEF Planes
<1>8. /\ q.streams = st /\ q.promise = pr /\ q.stream = p.stream /\ q.att = p.att
      /\ q.last = p.last /\ q.outbox = p.outbox /\ SameEnds(p, q)
  BY <1>1, <1>3 DEF Planes, SameEnds
<1>9. Delivers(q)
  <2> SUFFICES ASSUME NEW b \in Attachments
               PROVE  LET s == st[b]
                      IN /\ s.live /\ s.phase # "gone" => p.stream = b
                         /\ s.phase \in {"reserved", "open"} => s.live
                         /\ s.phase \in {"none", "acquiring"} => ~s.live
                         /\ s.phase \in {"none", "acquiring", "queued"} => s.sentOn = None
                         /\ p.last < b => s.phase = "none"
    BY <1>8 DEF Delivers
  <2>1. CASE b = a
    <3>1. ~(p.last < a) /\ (p.streams[a].live /\ p.streams[a].phase # "gone" => p.stream = a)
      BY <1>1 DEF Core, Delivers
    <3> QED
      BY <1>5, <1>6, <2>1, <3>1
  <2>2. CASE b # a
    BY <1>1, <1>6, <2>2 DEF Core, Delivers
  <2> QED
    BY <2>1, <2>2
<1>10. InLine(q.outbox, q.streams)
  BY <1>1, <1>6, <1>8 DEF Core, InLine
<1>11. Core(q)
  <2>1. q.promise \in {None, q.att}
    BY <1>1, <1>8 DEF Core
  <2> QED
    BY <1>1, <1>7, <1>8, <1>9, <1>10, <2>1 DEF Core
<1>12. Held(q)
  BY <1>8, HeldStill DEF Good
<1>13. p.stream # None => p.stream \in Attachments
  BY StreamIsAttachment
<1>14. \A b \in Attachments : q.streams[b].phase \in OnPeer => p.streams[b].phase \in OnPeer
  BY <1>5, <1>6, <1>8 DEF OnPeer
<1>15. Follows(p, q)
  BY <1>5, <1>6, <1>8, <1>13, <1>14 DEF Follows
<1> QED
  BY <1>5, <1>6, <1>8, <1>11, <1>12, <1>15 DEF Good

\* The request at the head leaves the line, which has it once.
LEMMA PoppedGood ==
  ASSUME NEW p, Good(p), p.outbox # <<>>, NEW q, q = [p EXCEPT !.outbox = Tail(@)]
  PROVE  /\ Good(q) /\ Follows(p, q) /\ SameEnds(p, q)
         /\ q.stream = p.stream /\ q.att = p.att /\ q.last = p.last /\ q.streams = p.streams
         /\ Head(p.outbox) \in Requests
         /\ Head(p.outbox).op = "attach" =>
              /\ Head(p.outbox).n \in Attachments
              /\ p.streams[Head(p.outbox).n].phase = "queued"
              /\ NotInLine(q, Head(p.outbox).n)
<1> DEFINE ob == Tail(p.outbox)
           h == Head(p.outbox)
<1>1. p \in Planes /\ Core(p)
  BY DEF Good, Core
<1>2. p.outbox \in Seq(Requests)
  BY <1>1 DEF Planes
<1>3. /\ ob \in Seq(Requests) /\ Len(ob) \in Nat /\ Len(p.outbox) = Len(ob) + 1
      /\ h \in Requests /\ h = p.outbox[1]
      /\ \A i \in 1 .. Len(ob) : ob[i] = p.outbox[i + 1]
  BY <1>2
<1>4. q = [p EXCEPT !.outbox = ob]
  BY <1>1 DEF Planes
<1> HIDE DEF ob, h
<1>5. q \in Planes
  BY <1>1, <1>3, <1>4, Zenon DEF Planes
<1>6. /\ q.streams = p.streams /\ q.promise = p.promise /\ q.stream = p.stream /\ q.att = p.att
      /\ q.last = p.last /\ q.outbox = ob /\ SameEnds(p, q)
  BY <1>1, <1>4 DEF Planes, SameEnds
<1>7. Delivers(q)
  BY <1>1, <1>6 DEF Core, Delivers
<1>8. InLine(p.outbox, p.streams)
  BY <1>1 DEF Core
<1>9. InLine(ob, p.streams)
  <2>1. \A i \in 1 .. Len(ob) : i + 1 \in 1 .. Len(p.outbox)
    BY <1>3
  <2>2. \A i \in 1 .. Len(ob) : ob[i].op = "attach" =>
          ob[i].n \in Attachments /\ p.streams[ob[i].n].phase = "queued"
    BY <1>3, <1>8, <2>1 DEF InLine
  <2>3. \A i, j \in 1 .. Len(ob) :
          ob[i].op = "attach" /\ ob[j].op = "attach" /\ ob[i].n = ob[j].n => i + 1 = j + 1
    BY <1>3, <1>8, <2>1 DEF InLine
  <2>4. \A i, j \in 1 .. Len(ob) : i + 1 = j + 1 => i = j
    BY <1>3
  <2> QED
    BY <2>2, <2>3, <2>4 DEF InLine
<1>10. Core(q)
  BY <1>1, <1>5, <1>6, <1>7, <1>9 DEF Core
<1>11. Held(q)
  BY <1>6, HeldStill DEF Good
<1>12. Follows(p, q)
  BY <1>6 DEF Follows
<1>13. h.op = "attach" =>
         /\ h.n \in Attachments /\ p.streams[h.n].phase = "queued"
         /\ \A i \in 1 .. Len(ob) : ob[i] # [op |-> "attach", n |-> h.n]
  <2> SUFFICES ASSUME h.op = "attach"
               PROVE  /\ h.n \in Attachments /\ p.streams[h.n].phase = "queued"
                      /\ \A i \in 1 .. Len(ob) : ob[i] # [op |-> "attach", n |-> h.n]
    OBVIOUS
  <2>1. 1 \in 1 .. Len(p.outbox)
    BY <1>3
  <2>2. h.n \in Attachments /\ p.streams[h.n].phase = "queued"
    BY <1>3, <1>8, <2>1 DEF InLine
  <2>3. ASSUME NEW i \in 1 .. Len(ob), ob[i] = [op |-> "attach", n |-> h.n]
        PROVE  FALSE
    <3>1. p.outbox[i + 1].op = "attach" /\ p.outbox[i + 1].n = h.n
      BY <1>3, <2>3
    <3>2. i + 1 \in 1 .. Len(p.outbox) /\ i + 1 # 1
      BY <1>3
    <3> QED
      BY <1>3, <1>8, <2>1, <3>1, <3>2 DEF InLine
  <2> QED
    BY <2>2, <2>3
<1> QED
  BY <1>3, <1>6, <1>10, <1>11, <1>12, <1>13 DEF Good, h, NotInLine

\* The Attach of a live stream, out of the line, is written on peer n.
LEMMA WrittenGood ==
  ASSUME NEW p, Good(p), NEW a \in Attachments, p.streams[a].phase = "queued",
         NotInLine(p, a),
         NEW n \in Nat, NEW q,
         q = WithWritten(p, a, n)
  PROVE  /\ Good(q) /\ SameEnds(p, q) /\ q.stream = p.stream /\ q.att = p.att
         /\ \A b \in Attachments : q.streams[b].id = p.streams[b].id
         /\ \A b \in Attachments : q.streams[b].sentOn \in {n, p.streams[b].sentOn}
<1> DEFINE u == [p.streams[a] EXCEPT !.phase = "written", !.sentOn = n]
           st == [p.streams EXCEPT ![a] = u]
<1>1. p \in Planes /\ Core(p)
  BY DEF Good, Core
<1>2. p.streams \in Streams /\ p.streams[a] \in StreamTypes
  BY <1>1 DEF Planes, Streams
<1>3. q = [p EXCEPT !.streams = st]
  <2>1. DOMAIN p.streams = Attachments
    BY <1>2 DEF Streams
  <2> QED
    BY <1>1, <2>1 DEF Planes, WithWritten
<1>4. u \in StreamTypes
  <2>1. "written" \in Phases
    BY DEF Phases
  <2> QED
    BY <1>2, <2>1, Zenon DEF StreamTypes
<1>5. /\ u.phase = "written" /\ u.live = p.streams[a].live /\ u.id = p.streams[a].id
      /\ u.sentOn = n
  BY <1>2 DEF StreamTypes
<1>6. st \in Streams /\ st[a] = u /\ \A b \in Attachments : b # a => st[b] = p.streams[b]
  BY <1>2, <1>4, Zenon DEF Streams
<1> HIDE DEF u, st
<1>7. q \in Planes
  BY <1>1, <1>3, <1>6, Zenon DEF Planes
<1>8. /\ q.streams = st /\ q.promise = p.promise /\ q.stream = p.stream /\ q.att = p.att
      /\ q.last = p.last /\ q.outbox = p.outbox /\ SameEnds(p, q)
  BY <1>1, <1>3 DEF Planes, SameEnds
<1>9. Delivers(q)
  <2> SUFFICES ASSUME NEW b \in Attachments
               PROVE  LET s == st[b]
                      IN /\ s.live /\ s.phase # "gone" => p.stream = b
                         /\ s.phase \in {"reserved", "open"} => s.live
                         /\ s.phase \in {"none", "acquiring"} => ~s.live
                         /\ s.phase \in {"none", "acquiring", "queued"} => s.sentOn = None
                         /\ p.last < b => s.phase = "none"
    BY <1>8 DEF Delivers
  <2>1. CASE b = a
    <3>1. ~(p.last < a) /\ (p.streams[a].live => p.stream = a)
      BY <1>1 DEF Core, Delivers
    <3> QED
      BY <1>5, <1>6, <2>1, <3>1
  <2>2. CASE b # a
    BY <1>1, <1>6, <2>2 DEF Core, Delivers
  <2> QED
    BY <2>1, <2>2
<1>10. InLine(q.outbox, q.streams)
  <2>1. InLine(p.outbox, p.streams) /\ p.outbox \in Seq(Requests)
    BY <1>1 DEF Core, Planes
  <2>2. \A i \in 1 .. Len(p.outbox) : p.outbox[i] \in Requests
    BY <2>1
  <2>3. \A i \in 1 .. Len(p.outbox) : p.outbox[i].op = "attach" => p.outbox[i].n # a
    BY <2>2 DEF Requests, NotInLine
  <2> QED
    BY <1>6, <1>8, <2>1, <2>3 DEF InLine
<1>11. Core(q)
  BY <1>1, <1>7, <1>8, <1>9, <1>10 DEF Core
<1>12. Held(q)
  BY <1>8, HeldStill DEF Good
<1>13. \A b \in Attachments :
         st[b].id = p.streams[b].id /\ st[b].sentOn \in {n, p.streams[b].sentOn}
  BY <1>5, <1>6
<1> QED
  BY <1>8, <1>11, <1>12, <1>13 DEF Good

LEMMA AcquireStep == ASSUME IInv, NEW a \in Attachments, Acquire(a) PROVE IInv'
<1> DEFINE p == plane
           q == plane'
<1>1. Good(p) /\ Inv(environment, peer, p) /\ p.streams[a].phase = "acquiring" /\ p \in Planes
  BY DEF IInv, Inv, Acquire, Good, Core
<1>2. environment' = environment /\ peer' = peer
  BY DEF Acquire, PeerRests
<1>3. CASE IsCurrent(p, a) /\ p.listening
  <2>1. p.att = a /\ ~p.detached /\ p.listening
    BY <1>3 DEF IsCurrent
  <2>2. q = WithAcquired(p, a)
    BY <1>3 DEF Acquire, WithAcquired
  <2> HIDE DEF p, q
  <2>3. /\ Good(q) /\ SameEnds(p, q) /\ q.stream = a
        /\ q.streams[a].id = p.id /\ q.streams[a].sentOn = None
        /\ \A b \in Attachments : q.streams[b].phase \in OnPeer => p.streams[b].phase \in OnPeer
    <3>1. Good(p) /\ p.streams[a].phase = "acquiring" /\ p.att = a /\ ~p.detached /\ p.listening
      BY <1>1, <2>1
    <3> QED
      BY <2>2, <3>1, AcquiredGood
  <2>4. OfPeer(p, peer.up, peer.n) => OfPeer(q, peer.up, peer.n)
    BY <2>3 DEF OfPeer
  <2>5. Quiet(p, peer.up) => Quiet(q, peer.up)
    BY <2>1, <2>3, Numbers DEF Quiet, SameEnds, NoneAttaching
  <2>6. Inv(environment, peer, q)
    BY <1>1, <2>3, <2>4, <2>5 DEF Inv, SameEnds
  <2> QED
    BY <1>2, <2>6 DEF IInv, q
<1>4. CASE ~(IsCurrent(p, a) /\ p.listening)
  <2> DEFINE pr == IF p.promise = a THEN None ELSE p.promise
  <2>1. q = WithPhase(p, a, "gone", pr)
    BY <1>1, <1>4 DEF Acquire, Planes, WithPhase
  <2>2. pr \in {None, p.promise}
    OBVIOUS
  <2> HIDE DEF p, q, pr
  <2>3. /\ Good(q) /\ Follows(p, q) /\ SameEnds(p, q)
        /\ q.stream = p.stream /\ q.att = p.att
    <3>1. Good(p) /\ p.streams[a].phase = "acquiring"
      BY <1>1
    <3> QED
      BY <2>1, <2>2, <3>1, AdvancedGood
  <2>4. q.lost = p.lost /\ q.id = p.id /\ q.resuming = p.resuming
    BY <2>3 DEF SameEnds
  <2>5. environment = {} => (~peer.up => q.resuming = 0)
    BY <1>1, <2>4 DEF Inv, Quiet
  <2>6. Inv(environment, peer, q)
    BY <1>1, <2>3, <2>4, <2>5, RestingPeer
  <2> QED
    BY <1>2, <2>6 DEF IInv, q
<1> QED
  BY <1>3, <1>4

\* A handler that keeps the ends of the plane, and its stream.
LEMMA SameEndsStep ==
  ASSUME NEW e, NEW pe, NEW p, NEW q, Inv(e, pe, p), Good(q), Follows(p, q), SameEnds(p, q),
         q.att \in {None, p.att}
  PROVE  Inv(e, pe, q)
<1>1. q.lost = p.lost /\ q.id = p.id /\ q.resuming = p.resuming
  BY DEF SameEnds
<1>2. e = {} => (~pe.up => q.resuming = 0)
  BY <1>1 DEF Inv, Quiet
<1> QED
  BY <1>1, <1>2, RestingPeer

LEMMA WriteStep == ASSUME IInv, Write PROVE IInv'
<1> DEFINE p == plane
           q == plane'
           r == Head(p.outbox)
           b == [p EXCEPT !.outbox = Tail(@)]
<1>1. Good(p) /\ Inv(environment, peer, p) /\ p.outbox # <<>> /\ peer.up /\ peer.n \in Nat
  BY DEF IInv, Inv, Write
<1>2. environment' = environment /\ peer' = peer
  BY DEF Write
<1>3. \/ r.op = "detach" /\ q = b
      \/ r.op = "attach" /\ q = WithWritten(b, r.n, peer.n)
      \/ r.op = "attach" /\ q = Rejected(b, r.n)
  BY DEF Write, WithWritten
<1> HIDE DEF p, q, b
<1>4. b = [p EXCEPT !.outbox = Tail(@)]
  BY DEF b
<1>5. /\ Good(b) /\ Follows(p, b) /\ SameEnds(p, b)
      /\ b.stream = p.stream /\ b.att = p.att /\ b.streams = p.streams
      /\ r.op = "attach" =>
           /\ r.n \in Attachments /\ p.streams[r.n].phase = "queued"
           /\ NotInLine(b, r.n)
  BY <1>1, <1>4, PoppedGood
<1> HIDE DEF r
<1>6. Inv(environment, peer, b)
  BY <1>1, <1>5, SameEndsStep
<1>7. CASE q = b
  BY <1>2, <1>6, <1>7 DEF IInv, q
<1>8. CASE r.op = "attach" /\ q = WithWritten(b, r.n, peer.n)
  <2>1. /\ r.n \in Attachments /\ b.streams[r.n].phase = "queued"
        /\ NotInLine(b, r.n)
    BY <1>5, <1>8
  <2>2. /\ Good(q) /\ SameEnds(b, q) /\ q.stream = b.stream /\ q.att = b.att
        /\ \A c \in Attachments : q.streams[c].id = b.streams[c].id
        /\ \A c \in Attachments : q.streams[c].sentOn \in {peer.n, b.streams[c].sentOn}
    <3>1. Good(b) /\ peer.n \in Nat /\ q = WithWritten(b, r.n, peer.n)
      BY <1>1, <1>5, <1>8
    <3> QED
      BY <2>1, <3>1, WrittenGood
  <2>3. b.stream # None => b.stream \in Attachments
    BY <1>5, StreamIsAttachment
  <2>4. OfPeer(b, peer.up, peer.n) => OfPeer(q, peer.up, peer.n)
    BY <1>1, <2>2, <2>3 DEF OfPeer
  <2>5. Quiet(b, peer.up) => Quiet(q, peer.up)
    BY <2>2, <2>3 DEF Quiet, SameEnds, NoneAttaching
  <2>6. Inv(environment, peer, q)
    BY <1>6, <2>2, <2>4, <2>5 DEF Inv, SameEnds
  <2> QED
    BY <1>2, <2>6 DEF IInv, q
<1>9. CASE r.op = "attach" /\ q = Rejected(b, r.n)
  <2>1. /\ r.n \in Attachments /\ b.streams[r.n].phase = "queued"
        /\ NotInLine(b, r.n)
    BY <1>5, <1>9
  <2>2. Good(q) /\ Follows(b, q) /\ SameEnds(b, q) /\ q.att = b.att
    BY <1>5, <1>9, <2>1, RejectedGood
  <2>3. Inv(environment, peer, q)
    BY <1>6, <2>2, SameEndsStep
  <2> QED
    BY <1>2, <2>3 DEF IInv, q
<1> QED
  BY <1>3, <1>7, <1>8, <1>9

LEMMA AttachAnsweredStep == ASSUME IInv, NEW a \in Attachments, AttachAnswered(a) PROVE IInv'
<1> DEFINE p == plane
           q == plane'
           ph == IF p.streams[a].live THEN "reserved" ELSE "gone"
           pr == p.promise
<1>1. Good(p) /\ Inv(environment, peer, p) /\ p.streams[a].phase = "written" /\ p \in Planes
  BY DEF IInv, Inv, AttachAnswered, Good, Core
<1>2. environment' = environment /\ peer' = peer
  BY DEF AttachAnswered, PeerRests
<1>3. q = [p EXCEPT !.streams[a].phase = ph]
  BY DEF AttachAnswered
<1>4. q = WithPhase(p, a, ph, pr)
  BY <1>1, <1>3 DEF Planes, WithPhase
<1>5. ph \in {"reserved", "open", "gone"} /\ pr \in {None, p.promise}
      /\ (ph # "gone" => p.streams[a].live)
  OBVIOUS
<1> HIDE DEF p, q, ph, pr
<1>6. Good(q) /\ Follows(p, q) /\ SameEnds(p, q) /\ q.att = p.att
  <2>1. /\ Good(p) /\ p.streams[a].phase = "written"
        /\ ph # "gone" => p.streams[a].live /\ p.streams[a].phase # "acquiring"
    BY <1>1, <1>5
  <2> QED
    BY <1>4, <1>5, <2>1, AdvancedGood
<1>7. Inv(environment, peer, q)
  BY <1>1, <1>6, SameEndsStep
<1> QED
  BY <1>2, <1>7 DEF IInv, q

LEMMA ChannelAdmittedStep == ASSUME IInv, NEW a \in Attachments, ChannelAdmitted(a) PROVE IInv'
<1> DEFINE p == plane
           q == plane'
           pr == IF p.promise = a THEN None ELSE p.promise
<1>1. Good(p) /\ Inv(environment, peer, p) /\ p.streams[a].phase = "reserved" /\ p \in Planes
  BY DEF IInv, Inv, ChannelAdmitted, Good, Core
<1>2. environment' = environment /\ peer' = peer
  BY DEF ChannelAdmitted, PeerRests
<1>3. q = WithPhase(p, a, "open", pr)
  BY <1>1 DEF ChannelAdmitted, Planes, WithPhase
<1>4. pr \in {None, p.promise}
  OBVIOUS
<1> HIDE DEF p, q, pr
<1>5. p.streams[a].live
  BY <1>1 DEF Good, Core, Delivers
<1>6. Good(q) /\ Follows(p, q) /\ SameEnds(p, q) /\ q.att = p.att
  <2>1. /\ Good(p) /\ p.streams[a].phase = "reserved" /\ p.streams[a].live
        /\ p.streams[a].phase # "acquiring"
    BY <1>1, <1>5
  <2> QED
    BY <1>3, <1>4, <2>1, AdvancedGood
<1>7. Inv(environment, peer, q)
  BY <1>1, <1>6, SameEndsStep
<1> QED
  BY <1>2, <1>7 DEF IInv, q

LEMMA AttachFailsStep == ASSUME IInv, NEW a \in Attachments, AttachFails(a) PROVE IInv'
<1> DEFINE p == plane
           q == plane'
<1>1. /\ Good(p) /\ Inv(environment, peer, p)
      /\ p.streams[a].phase \in {"written", "reserved"}
  BY DEF IInv, Inv, AttachFails
<1>2. environment' = environment /\ peer' = peer /\ q = Rejected(p, a)
  BY DEF AttachFails
<1> HIDE DEF p, q
<1>3. NotInLine(p, a)
  <2>1. InLine(p.outbox, p.streams)
    BY <1>1 DEF Good, Core
  <2> SUFFICES ASSUME NEW i \in 1 .. Len(p.outbox), p.outbox[i] = [op |-> "attach", n |-> a]
               PROVE  FALSE
    BY DEF NotInLine
  <2>2. p.outbox[i].op = "attach" /\ p.outbox[i].n = a
    OBVIOUS
  <2> QED
    BY <1>1, <2>1, <2>2 DEF InLine
<1>4. Good(q) /\ Follows(p, q) /\ SameEnds(p, q) /\ q.att = p.att
  BY <1>1, <1>2, <1>3, RejectedGood
<1>5. Inv(environment, peer, q)
  BY <1>1, <1>4, SameEndsStep
<1> QED
  BY <1>2, <1>5 DEF IInv, q

LEMMA ResumeStep == ASSUME IInv, Resume PROVE IInv'
<1> DEFINE p == plane
           q == plane'
           b == [p EXCEPT !.resuming = @ - 1]
<1>1. Good(p) /\ Core(p) /\ Inv(environment, peer, p) /\ p.resuming > 0 /\ p \in Planes
  BY DEF IInv, Inv, Resume, Good, Core
<1>2. environment' = environment /\ peer' = peer /\ q = EnsureAttached(b, TRUE)
      /\ q.last <= MaxAttach
  BY DEF Resume, PeerRests, Bounded
<1> HIDE DEF p, q
<1>3. p.resuming - 1 \in Nat
  BY <1>1 DEF Planes
<1>4. b \in Planes
  BY <1>1, <1>3, Zenon DEF Planes
<1>5. /\ SameRoute(p, b) /\ b.listening = p.listening /\ b.detached = p.detached
      /\ b.lost = p.lost /\ b.id = p.id
  BY <1>1 DEF Planes, SameRoute
<1> HIDE DEF b
<1>6. Core(b) /\ Follows(p, b)
  BY <1>1, <1>4, <1>5, RelabelledCore
<1>7. Core(q) /\ Follows(b, q) /\ SameEnds(b, q)
  BY <1>2, <1>6, EnsureAttachedCore
<1>8. p.stream # None => p.stream \in Attachments
  BY <1>1, StreamIsAttachment
<1>9. Follows(p, q)
  BY <1>6, <1>7, <1>8, FollowsTwice
<1>10. q.lost = p.lost /\ q.id = p.id /\ q.listening = p.listening /\ q.detached = p.detached
  BY <1>5, <1>7 DEF SameEnds
<1>11. Good(q)
  BY <1>1, <1>7, <1>9, <1>10 DEF Good, Held, Follows
<1>12. environment = {} => peer.up /\ ~p.lost
  <2>1. peer.up \in BOOLEAN
    BY <1>1 DEF Inv
  <2> QED
    BY <1>1, <2>1 DEF Inv, Quiet
<1>13. Inv(environment, peer, q)
  BY <1>1, <1>9, <1>10, <1>11, <1>12, RestingPeer
<1> QED
  BY <1>2, <1>13 DEF IInv, q

\* The status of a plane is nothing to its route.
LEMMA StatusGood ==
  ASSUME NEW p, Good(p), NEW v \in {"attaching", "attached", "failed"}, NEW q,
         q = [p EXCEPT !.status = v]
  PROVE  Good(q) /\ Follows(p, q) /\ SameEnds(p, q) /\ SameRoute(p, q)
<1>1. p \in Planes /\ Core(p)
  BY DEF Good, Core
<1>2. q \in Planes
  BY <1>1, Zenon DEF Planes
<1>3. SameRoute(p, q) /\ SameEnds(p, q)
  BY <1>1 DEF Planes, SameRoute, SameEnds
<1>4. Core(q) /\ Follows(p, q)
  BY <1>1, <1>2, <1>3, RelabelledCore
<1>5. Held(q)
  BY <1>3, HeldStill DEF Good, SameRoute
<1> QED
  BY <1>3, <1>4, <1>5 DEF Good

LEMMA ScreenRestoredStep == ASSUME IInv, NEW a \in Attachments, ScreenRestored(a) PROVE IInv'
<1> DEFINE p == plane
           q == plane'
           u == [p.streams[a] EXCEPT !.restored = TRUE]
           st == [p.streams EXCEPT ![a] = u]
           b == [p EXCEPT !.streams = st]
<1>1. p \in Planes /\ Core(p) /\ Good(p) /\ Inv(environment, peer, p)
  BY DEF IInv, Inv, Good, Core
<1>2. environment' = environment /\ peer' = peer
  BY DEF ScreenRestored, PeerRests
<1>3. p.streams \in Streams /\ p.streams[a] \in StreamTypes
  BY <1>1 DEF Planes, Streams
<1>4. q = [p EXCEPT !.streams = st, !.status = "attached"]
  BY <1>1, <1>3 DEF ScreenRestored, Planes, Streams
<1> HIDE DEF p, q
<1>5. u \in StreamTypes
  <2>1. TRUE \in BOOLEAN
    OBVIOUS
  <2> QED
    BY <1>3, <2>1, Zenon DEF StreamTypes
<1>6. /\ u.phase = p.streams[a].phase /\ u.live = p.streams[a].live
      /\ u.id = p.streams[a].id /\ u.sentOn = p.streams[a].sentOn
  BY <1>3 DEF StreamTypes
<1>7. st \in Streams /\ st[a] = u /\ \A c \in Attachments : c # a => st[c] = p.streams[c]
  BY <1>3, <1>5, Zenon DEF Streams
<1> HIDE DEF u, st
<1>8. b \in Planes
  BY <1>1, <1>7, Zenon DEF Planes
<1>9. /\ b.streams = st /\ b.promise = p.promise /\ b.stream = p.stream /\ b.att = p.att
      /\ b.last = p.last /\ b.outbox = p.outbox /\ SameEnds(p, b)
  BY <1>1 DEF Planes, SameEnds
<1>10. q = [b EXCEPT !.status = "attached"]
  BY <1>1, <1>4 DEF Planes
<1> HIDE DEF b
<1>11. \A c \in Attachments :
         /\ st[c].phase = p.streams[c].phase /\ st[c].live = p.streams[c].live
         /\ st[c].sentOn = p.streams[c].sentOn /\ st[c].id = p.streams[c].id
  BY <1>6, <1>7
<1>12. Delivers(b)
  BY <1>1, <1>9, <1>11 DEF Core, Delivers
<1>13. InLine(b.outbox, b.streams)
  BY <1>1, <1>9, <1>11 DEF Core, InLine
<1>14. Core(b)
  BY <1>1, <1>8, <1>9, <1>12, <1>13 DEF Core
<1>15. Held(b)
  BY <1>1, <1>9, HeldStill DEF Good
<1>16. p.stream # None => p.stream \in Attachments
  BY <1>1, StreamIsAttachment
<1>17. Good(b) /\ Follows(p, b)
  BY <1>9, <1>11, <1>14, <1>15, <1>16 DEF Good, Follows
<1>18. Inv(environment, peer, b)
  BY <1>1, <1>9, <1>17, SameEndsStep
<1>19. Good(q) /\ Follows(b, q) /\ SameEnds(b, q) /\ SameRoute(b, q)
  BY <1>10, <1>17, StatusGood
<1>20. q.att = b.att
  BY <1>19 DEF SameRoute
<1>21. Inv(environment, peer, q)
  BY <1>18, <1>19, <1>20, SameEndsStep
<1> QED
  BY <1>2, <1>21 DEF IInv, q

LEMMA ProgressTimesOutStep ==
  ASSUME IInv, NEW a \in Attachments, ProgressTimesOut(a) PROVE IInv'
<1> DEFINE p == plane
           q == plane'
<1>1. Good(p) /\ Inv(environment, peer, p) /\ p.stream = a
  BY DEF IInv, Inv, ProgressTimesOut
<1>2. environment' = environment /\ peer' = peer /\ q = RecoverRoute(p) /\ q.last <= MaxAttach
  BY DEF ProgressTimesOut, PeerRests, Bounded
<1> HIDE DEF p, q
<1>3. /\ Good(q) /\ Follows(p, q) /\ q.stream = None /\ q.lost = p.lost
      /\ q.resuming = p.resuming
  BY <1>1, <1>2, RecoverRouteGood
<1>4. environment = {} => ~p.lost /\ (~peer.up => q.resuming = 0)
  BY <1>1, <1>3, Numbers DEF Inv, Quiet, NoneAttaching
<1>5. Inv(environment, peer, q)
  BY <1>1, <1>3, <1>4, RestingPeer
<1> QED
  BY <1>2, <1>5 DEF IInv, q

LEMMA HubClosesRouteStep ==
  ASSUME IInv, NEW a \in Attachments, HubClosesRoute(a) PROVE IInv'
<1> DEFINE p == plane
           q == plane'
           b == [p EXCEPT !.status = "failed"]
           c == Abandoned(b)
<1>1. Good(p) /\ Inv(environment, peer, p)
  BY DEF IInv, Inv
<1>2. environment' = environment /\ peer' = peer /\ (q = CloseStream(b) \/ q = Reset(c))
  BY DEF HubClosesRoute
<1> HIDE DEF p, q
<1>3. b = [p EXCEPT !.status = "failed"]
  OBVIOUS
<1> HIDE DEF b
<1>4. Good(b) /\ Follows(p, b) /\ SameEnds(p, b) /\ SameRoute(p, b)
  BY <1>1, <1>3, StatusGood
<1>5. b.att = p.att
  BY <1>4 DEF SameRoute
<1>6. Inv(environment, peer, b)
  BY <1>1, <1>4, <1>5, SameEndsStep
<1>7. Core(b) /\ Held(b)
  BY <1>4 DEF Good
<1>8. CASE q = CloseStream(b)
  <2>1. Core(q) /\ Follows(b, q) /\ SameEnds(b, q) /\ q.stream = None /\ q.att = None
    BY <1>7, <1>8, CloseStreamCore
  <2>2. Held(q)
    BY <1>7, <2>1, HeldStill
  <2>3. Inv(environment, peer, q)
    BY <1>6, <2>1, <2>2, SameEndsStep DEF Good
  <2> QED
    BY <1>2, <2>3 DEF IInv, q
<1>9. CASE q = Reset(c)
  <2>1. Core(c) /\ Silent(c) /\ Follows(b, c) /\ SameEnds(b, c)
    BY <1>7, AbandonedCore
  <2> HIDE DEF c
  <2>2. /\ Core(q) /\ Follows(c, q) /\ SameEnds(c, q) /\ q.stream = None /\ q.att = None
    BY <1>9, <2>1, ResetCore
  <2>3. b.stream # None => b.stream \in Attachments
    BY <1>4, StreamIsAttachment
  <2>4. Follows(b, q)
    BY <2>1, <2>2, <2>3, FollowsTwice
  <2>5. SameEnds(b, q)
    BY <2>1, <2>2 DEF SameEnds
  <2>6. Held(q)
    BY <1>7, <2>2, <2>5, HeldStill
  <2>7. Inv(environment, peer, q)
    BY <1>6, <2>2, <2>4, <2>5, <2>6, SameEndsStep DEF Good
  <2> QED
    BY <1>2, <2>7 DEF IInv, q
<1> QED
  BY <1>2, <1>8, <1>9

LEMMA ChannelClosesStep ==
  ASSUME IInv, NEW a \in Attachments, ChannelCloses(a) PROVE IInv'
<1> DEFINE p == plane
           q == plane'
           b == [p EXCEPT !.streams[a].phase = "gone"]
           l == LoseTransport(b)
<1>1. /\ Good(p) /\ Inv(environment, peer, p) /\ p \in Planes
      /\ p.streams[a].phase = "open" /\ p.streams[a].live /\ peer.up \in BOOLEAN
  BY DEF IInv, Inv, ChannelCloses, Good, Core, Delivers
<1>2. environment' = environment /\ peer' = peer
  BY DEF ChannelCloses
<1>3. q = IF b.streams[a].id = b.id /\ ~b.lost THEN RecoverTransport(l) ELSE b
  BY DEF ChannelCloses
<1>4. q.last <= MaxAttach
  BY DEF ChannelCloses, Bounded
<1>5. p.stream = a
  BY <1>1 DEF Good, Core, Delivers
<1> HIDE DEF p, q
<1>6. b = WithPhase(p, a, "gone", p.promise)
  BY <1>1 DEF Planes, WithPhase
<1> HIDE DEF b
<1>7. Good(b) /\ Follows(p, b) /\ SameEnds(p, b) /\ b.stream = p.stream /\ b.att = p.att
  <2>1. p.promise \in {None, p.promise} /\ Good(p) /\ p.streams[a].phase = "open"
    BY <1>1
  <2> QED
    BY <1>6, <2>1, AdvancedGood
<1>8. Inv(environment, peer, b)
  BY <1>1, <1>7, SameEndsStep
<1>9. CASE q = b
  BY <1>2, <1>8, <1>9 DEF IInv, q
<1>10. CASE q = RecoverTransport(l) /\ ~b.lost
  <2>1. b.listening /\ ~b.detached
    BY <1>1, <1>5, <1>7, Numbers DEF Good, Held, SameEnds
  <2>2. Good(b)
    BY <1>7
  <2>3. /\ Good(l) /\ Follows(b, l) /\ l.listening = b.listening
        /\ (~b.detached /\ ~b.lost => NoneAttaching(l))
    BY <2>2, LoseTransportGood
  <2> HIDE DEF l
  <2>4. /\ Good(q) /\ Follows(l, q) /\ q.stream = l.stream
        /\ (l.listening \/ l.detached => ~q.lost)
    BY <1>4, <1>10, <2>3, RecoverTransportGood
  <2>5. b.stream # None => b.stream \in Attachments
    BY <1>7, StreamIsAttachment
  <2>6. Follows(b, q)
    BY <2>3, <2>4, <2>5, FollowsTwice
  <2>7. ~q.lost /\ q.stream = None
    BY <1>10, <2>1, <2>3, <2>4 DEF NoneAttaching
  <2>8. "unmounted" \notin environment => peer.up
    BY <1>1 DEF Inv, OfPeer, OnPeer
  <2>9. environment = {} => peer.up
    BY <2>8
  <2>10. Inv(environment, peer, q)
    BY <1>8, <2>4, <2>6, <2>7, <2>9, RestingPeer
  <2> QED
    BY <1>2, <2>10 DEF IInv, q
<1> QED
  BY <1>3, <1>9, <1>10

LEMMA PeerLostStep == ASSUME IInv, PeerLost PROVE IInv'
<1> DEFINE p == plane
           q == plane'
           l == LoseTransport(p)
           pe == [peer EXCEPT !.up = FALSE]
<1>1. /\ Good(p) /\ Inv(environment, peer, p) /\ peer \in [n : Nat, up : BOOLEAN]
      /\ peer.up
  BY DEF IInv, Inv, PeerLost
<1>2. environment' = environment /\ peer' = pe /\ q = FailPending(l)
  BY DEF PeerLost
<1>3. environment = {} => ~p.lost /\ ~(p.resuming > 0)
  BY QuietPeer DEF PeerLost
<1>4. pe \in [n : Nat, up : BOOLEAN] /\ ~pe.up
  BY <1>1
<1>5. p.resuming \in Nat
  BY <1>1 DEF Good, Core, Planes
<1> HIDE DEF p, q, pe
<1>6. /\ Good(l) /\ Follows(p, l) /\ l.resuming = p.resuming
      /\ (p.detached => ~l.lost) /\ (~p.detached /\ ~p.lost => NoneAttaching(l))
      /\ l.detached = p.detached
  BY <1>1, LoseTransportGood
<1> HIDE DEF l
<1>7. /\ Good(q) /\ SameEnds(l, q) /\ q.stream = l.stream /\ q.att = l.att
      /\ \A a \in Attachments : q.streams[a].phase \notin OnPeer
  BY <1>2, <1>6, FailPendingGood
<1>8. ~p.lost => q.stream = None /\ (q.lost => NoneAttaching(q))
  BY <1>6, <1>7 DEF Good, Held, SameEnds, NoneAttaching
<1>9. "unmounted" \notin environment => OfPeer(q, pe.up, pe.n)
  BY <1>1, <1>4, <1>7, <1>8 DEF Inv, OfPeer
<1>10. environment = {} => Quiet(q, pe.up)
  BY <1>3, <1>5, <1>6, <1>7, <1>8 DEF Quiet, SameEnds
<1>11. Inv(environment, pe, q)
  BY <1>1, <1>4, <1>7, <1>9, <1>10 DEF Inv
<1> QED
  BY <1>2, <1>11 DEF IInv, q

LEMMA PeerRecoversStep == ASSUME IInv, PeerRecovers PROVE IInv'
<1> DEFINE p == plane
           q == plane'
           pe == [n |-> peer.n + 1, up |-> TRUE]
<1>1. /\ Good(p) /\ Inv(environment, peer, p) /\ peer \in [n : Nat, up : BOOLEAN]
      /\ ~peer.up
  BY DEF IInv, Inv, PeerRecovers
<1>2. environment' = environment /\ peer' = pe /\ q = RecoverTransport(p) /\ q.last <= MaxAttach
  BY DEF PeerRecovers, Bounded
<1>3. "unmounted" \notin environment => p.listening \/ p.detached
  BY DEF PeerRecovers
<1>4. pe \in [n : Nat, up : BOOLEAN] /\ pe.up
  BY <1>1
<1> HIDE DEF p, q, pe
<1>5. /\ Good(q) /\ Follows(p, q) /\ q.stream = p.stream
      /\ (p.listening \/ p.detached => ~q.lost)
      /\ (q.lost \/ ~p.lost => q = p)
  BY <1>1, <1>2, RecoverTransportGood
<1>6. p.stream # None => p.stream \in Attachments
  BY <1>1, StreamIsAttachment
<1>7. "unmounted" \notin environment => OfPeer(q, pe.up, pe.n)
  BY <1>1, <1>4, <1>5 DEF Inv, OfPeer, Follows
<1>8. environment = {} => Quiet(q, pe.up)
  BY <1>1, <1>3, <1>4, <1>5 DEF Inv, Quiet, NoneAttaching
<1>9. Inv(environment, pe, q)
  BY <1>1, <1>3, <1>4, <1>5, <1>7, <1>8 DEF Inv
<1> QED
  BY <1>2, <1>9 DEF IInv, q

LEMMA ConnectFailsStep == ASSUME IInv, ConnectFails PROVE IInv'
<1> DEFINE p == plane
           q == plane'
<1>1. Good(p) /\ Inv(environment, peer, p)
  BY DEF IInv, Inv
<1>2. environment' = environment /\ peer' = peer /\ q = FailPending(p)
  BY DEF ConnectFails, PeerRests
<1> HIDE DEF p, q
<1>3. Good(q) /\ Follows(p, q) /\ SameEnds(p, q) /\ q.att = p.att
  BY <1>1, <1>2, FailPendingGood
<1>4. Inv(environment, peer, q)
  BY <1>1, <1>3, SameEndsStep
<1> QED
  BY <1>2, <1>4 DEF IInv, q

-----------------------------------------------------------------------------
(* The theorems.                                                           *)

LEMMA InitIInv == ASSUME Init PROVE IInv
<1> DEFINE p == plane
<1>1. environment \in Environments /\ peer = [n |-> 1, up |-> TRUE]
  BY DEF Init
<1>2. p = [id |-> 1, minted |-> 1, att |-> None, last |-> 0, stream |-> None,
           promise |-> None, lost |-> FALSE, abandoned |-> NoLoss, recoveries |-> 0,
           resuming |-> 0, listening |-> FALSE, detached |-> FALSE, status |-> "attaching",
           detachSentFor |-> [id |-> None, att |-> None], outbox |-> <<>>,
           streams |-> [a \in Attachments |-> NoStream]]
  BY DEF Init
<1> HIDE DEF p
<1>3. NoStream \in StreamTypes
  BY Numbers DEF NoStream, StreamTypes, Phases
<1>4. [a \in Attachments |-> NoStream] \in Streams
  BY <1>3 DEF Streams
<1>5. NoLoss \in [id : Nat, att : Nat, sent : BOOLEAN]
      /\ [id |-> None, att |-> None] \in [id : Nat, att : Nat]
      /\ <<>> \in Seq(Requests) /\ Len(<<>>) = 0
  BY Numbers DEF NoLoss
<1>6. p \in Planes
  BY <1>2, <1>4, <1>5, Numbers DEF Planes
<1>7. /\ p.stream = None /\ p.promise = None /\ p.att = None /\ p.last = 0
      /\ p.outbox = <<>> /\ ~p.lost /\ ~p.detached /\ p.resuming = 0
      /\ \A a \in Attachments : p.streams[a] = NoStream
  BY <1>2
<1>8. NoStream.phase = "none" /\ ~NoStream.live /\ NoStream.sentOn = None
  BY DEF NoStream
<1>9. Delivers(p)
  BY <1>7, <1>8 DEF Delivers
<1>10. InLine(p.outbox, p.streams)
  BY <1>5, <1>7 DEF InLine
<1>11. Good(p)
  BY <1>6, <1>7, <1>9, <1>10, Numbers DEF Good, Core, Held
<1>12. OfPeer(p, peer.up, peer.n) /\ Quiet(p, peer.up)
  BY <1>1, <1>7 DEF OfPeer, Quiet
<1>13. peer \in [n : Nat, up : BOOLEAN]
  BY <1>1
<1> QED
  BY <1>1, <1>7, <1>11, <1>12, <1>13 DEF IInv, Inv, p

LEMMA NextIInv == ASSUME IInv, [Next]_vars PROVE IInv'
<1>1. CASE Subscribe
  BY <1>1, SubscribeStep
<1>2. CASE Unsubscribe
  BY <1>2, UnsubscribeStep
<1>3. CASE Input
  BY <1>3, InputStep
<1>4. CASE Detach
  BY <1>4, DetachStep
<1>5. CASE Write
  BY <1>5, WriteStep
<1>6. CASE Resume
  BY <1>6, ResumeStep
<1>7. ASSUME NEW a \in Attachments, Acquire(a) PROVE IInv'
  BY <1>7, AcquireStep
<1>8. ASSUME NEW a \in Attachments, AttachAnswered(a) PROVE IInv'
  BY <1>8, AttachAnsweredStep
<1>9. ASSUME NEW a \in Attachments, ChannelAdmitted(a) PROVE IInv'
  BY <1>9, ChannelAdmittedStep
<1>10. ASSUME NEW a \in Attachments, AttachFails(a) PROVE IInv'
  BY <1>10, AttachFailsStep
<1>11. ASSUME NEW a \in Attachments, ScreenRestored(a) PROVE IInv'
  BY <1>11, ScreenRestoredStep
<1>12. ASSUME NEW a \in Attachments, ProgressTimesOut(a) PROVE IInv'
  BY <1>12, ProgressTimesOutStep
<1>13. ASSUME NEW a \in Attachments, HubClosesRoute(a) PROVE IInv'
  BY <1>13, HubClosesRouteStep
<1>14. ASSUME NEW a \in Attachments, ChannelCloses(a) PROVE IInv'
  BY <1>14, ChannelClosesStep
<1>15. CASE PeerLost
  BY <1>15, PeerLostStep
<1>16. CASE PeerRecovers
  BY <1>16, PeerRecoversStep
<1>17. CASE ConnectFails
  BY <1>17, ConnectFailsStep
<1>18. CASE UNCHANGED vars
  BY <1>18 DEF vars, IInv
<1> QED
  BY <1>1, <1>2, <1>3, <1>4, <1>5, <1>6, <1>7, <1>8, <1>9, <1>10, <1>11, <1>12, <1>13, <1>14,
     <1>15, <1>16, <1>17, <1>18 DEF Next

\* The invariant of the plane and its peer holds in every state: methods, requests
\* and losses of any number of peers and attachments.
THEOREM RouteInvariant == Spec => []IInv
<1>1. Init => IInv
  BY InitIInv
<1>2. IInv /\ [Next]_vars => IInv'
  BY NextIInv
<1> QED
  BY <1>1, <1>2, PTL DEF Spec

\* Whatever is lost, recovered, timed out or remounted, no stream but the plane's own
\* delivers frames or can still attach (abandon, closeStream, handleTransportLost).
THEOREM OnlyTheHeldStreamLives == Spec => []LiveStreamIsHeld
<1>1. IInv => LiveStreamIsHeld
  BY DEF IInv, Inv, Good, Core, Delivers, LiveStreamIsHeld, Live
<1> QED
  BY <1>1, RouteInvariant, PTL

\* With a listener at every recovery, a plane never holds a stream whose Attach was
\* written on a peer that is gone: handleTransportLost gives it up before the next.
THEOREM HeldStreamOfThisPeer ==
  ASSUME \A e \in Environments : "unmounted" \notin e
  PROVE  Spec => []HeldStreamIsOfThisPeer
<1>1. IInv => HeldStreamIsOfThisPeer
  BY DEF IInv, Inv, OfPeer, HeldStreamIsOfThisPeer
<1> QED
  BY <1>1, RouteInvariant, PTL

\* Where nothing acts before a recovery attached, the stream a plane holds has the
\* plane's id, so its frames pass the route check.
THEOREM HeldStreamHasTheId == Spec => [](environment = {} => StreamMatchesId)
<1>1. IInv => (environment = {} => StreamMatchesId)
  BY DEF IInv, Inv, Quiet, StreamMatchesId
<1> QED
  BY <1>1, RouteInvariant, PTL

-----------------------------------------------------------------------------
(* What is minted, and what the Hub holds.                                 *)

\* A Detach of id is in line.
DetachAhead(p, id) ==
  \E i \in 1 .. Len(p.outbox) : p.outbox[i] = [op |-> "detach", n |-> id]

\* The attachments that are over; one recovery at most was for each.
Gone(p) == {a \in Attachments : p.streams[a].phase = "gone"}

\* Ids are minted in order, and nothing names one that was not.
Sized(p) ==
  /\ p \in Planes
  /\ p.id = p.minted /\ 1 <= p.minted /\ p.recoveries <= 1 /\ p.resuming < p.minted
  /\ p.abandoned.id <= p.minted /\ (p.abandoned.sent => p.abandoned.id # None)
  /\ \A a \in Attachments :
       p.streams[a].id <= p.minted /\ (p.streams[a].live => p.streams[a].id # None)
  /\ \A i \in 1 .. Len(p.outbox) :
       p.outbox[i].n # 0 /\ (p.outbox[i].op = "detach" => p.outbox[i].n <= p.minted)

\* q comes after p: an attachment that is over stays over, and none was sent meanwhile.
Onward(p, q) ==
  /\ Sized(q) /\ p.minted <= q.minted
  /\ \A a \in Attachments :
       /\ p.streams[a].phase = "gone" => q.streams[a].phase = "gone"
       /\ q.streams[a].sentOn # None =>
            q.streams[a].sentOn = p.streams[a].sentOn /\ q.streams[a].id = p.streams[a].id

\* No Detach is taken out of the line.
LineKept(p, q) == \A id \in Nat : DetachAhead(p, id) => DetachAhead(q, id)

\* The stream held is the one that was held.
SameHold(p, q) ==
  q.stream # None => q.stream = p.stream /\ q.detachSentFor = p.detachSentFor

\* A method that mints no id and takes nothing out of the line.
Keeps(p, q) == Onward(p, q) /\ q.minted = p.minted /\ LineKept(p, q) /\ SameHold(p, q)

\* The stream p holds is still held, or on its way to be detached.
Freed(p, q) == p.stream # None => q.stream = p.stream \/ DetachAhead(q, p.id)

\* The channel of the stream p holds is closed.
Ends(p, q) ==
  p.stream # None /\ p.streams[p.stream].phase \in {"reserved", "open"} =>
    q.streams[p.stream].phase = "gone"

\* A method that mints one id.
Mints(p, q) == Onward(p, q) /\ q.minted = p.minted + 1 /\ LineKept(p, q)

LEMMA SizedNumbers ==
  ASSUME NEW p, Sized(p)
  PROVE  /\ p.id \in Nat /\ p.minted \in Nat /\ p.stream \in Nat /\ p.resuming \in Nat
         /\ p.recoveries \in Nat /\ p.att \in Nat /\ p.last \in Nat
         /\ p.abandoned \in [id : Nat, att : Nat, sent : BOOLEAN]
         /\ p.detachSentFor \in [id : Nat, att : Nat]
         /\ p.outbox \in Seq(Requests) /\ p.streams \in Streams
         /\ \A a \in Attachments : p.streams[a] \in StreamTypes
  BY DEF Sized, Planes, Streams

LEMMA OnwardTwice ==
  ASSUME NEW p, Sized(p), NEW q, Onward(p, q), NEW r, Onward(q, r)
  PROVE  Onward(p, r)
<1>1. p.minted \in Nat /\ q.minted \in Nat /\ r.minted \in Nat
  BY SizedNumbers DEF Onward
<1> QED
  BY <1>1 DEF Onward

LEMMA KeepsTwice ==
  ASSUME NEW p, Sized(p), NEW q, Keeps(p, q), NEW r, Keeps(q, r)
  PROVE  Keeps(p, r)
<1>1. Onward(p, r)
  BY OnwardTwice DEF Keeps
<1>2. LineKept(p, r)
  BY DEF Keeps, LineKept
<1>3. SameHold(p, r)
  BY DEF Keeps, SameHold
<1> QED
  BY <1>1, <1>2, <1>3 DEF Keeps

\* A change that leaves the attachments and the line alone.
LEMMA RelabelledKeeps ==
  ASSUME NEW p, Sized(p), NEW q \in Planes, q.streams = p.streams, q.outbox = p.outbox,
         q.id = p.id, q.minted = p.minted, q.recoveries <= 1, q.resuming <= p.resuming,
         q.abandoned.id <= p.minted, q.abandoned.sent => q.abandoned.id # None,
         SameHold(p, q)
  PROVE  Keeps(p, q)
<1>1. /\ p.minted \in Nat /\ p.resuming \in Nat /\ q.resuming \in Nat /\ p.resuming < p.minted
  BY SizedNumbers DEF Sized, Planes
<1>2. Sized(q)
  BY <1>1 DEF Sized
<1> QED
  BY <1>1, <1>2 DEF Keeps, Onward, LineKept, DetachAhead

\* abandon
LEMMA AbandonedKeeps ==
  ASSUME NEW p, Core(p), Sized(p)
  PROVE  /\ Keeps(p, Abandoned(p))
         /\ Abandoned(p).stream = p.stream /\ Abandoned(p).att = p.att
         /\ Abandoned(p).detachSentFor = p.detachSentFor /\ Abandoned(p).outbox = p.outbox
         /\ Ends(p, Abandoned(p))
<1> DEFINE q == Abandoned(p)
<1>1. CASE p.stream = None
  <2>1. q = p
    BY <1>1 DEF Abandoned
  <2> QED
    BY <1>1, <2>1, SizedNumbers DEF Keeps, Onward, LineKept, SameHold, Ends
<1>2. CASE p.stream # None
  <2>1. p \in Planes /\ p.stream \in Attachments /\ p.streams \in Streams /\ Core(q)
    <3>1. p.stream \in Attachments
      BY <1>2, Numbers DEF Core, Planes, Attachments
    <3> QED
      BY <3>1, SizedNumbers, AbandonedCore DEF Sized
  <2>2. /\ q.id = p.id /\ q.minted = p.minted /\ q.recoveries = p.recoveries
        /\ q.resuming = p.resuming /\ q.abandoned = p.abandoned /\ q.outbox = p.outbox
        /\ q.stream = p.stream /\ q.detachSentFor = p.detachSentFor /\ q.att = p.att
    BY <1>2, <2>1 DEF Abandoned, Planes
  <2>3. \A a \in Attachments :
          /\ q.streams[a].id = p.streams[a].id /\ q.streams[a].sentOn = p.streams[a].sentOn
          /\ q.streams[a].phase \in {p.streams[a].phase, "gone"}
          /\ q.streams[a].live => p.streams[a].live
          /\ a = p.stream /\ p.streams[a].phase \in {"reserved", "open"} =>
               q.streams[a].phase = "gone"
    BY <1>2, <2>1, SMTT(30) DEF Abandoned, Planes, Streams, StreamTypes
  <2>4. q \in Planes
    BY <2>1 DEF Core
  <2> HIDE DEF q
  <2>5. Sized(q)
    BY <2>2, <2>3, <2>4 DEF Sized
  <2>6. p.minted \in Nat
    BY SizedNumbers
  <2>7. Keeps(p, q)
    BY <2>2, <2>3, <2>5, <2>6 DEF Keeps, Onward, LineKept, SameHold, DetachAhead
  <2>8. Ends(p, q)
    BY <2>1, <2>3 DEF Ends
  <2> QED
    BY <2>2, <2>7, <2>8 DEF q
<1> QED
  BY <1>1, <1>2

\* resetAttachmentState
LEMMA ResetKeeps ==
  ASSUME NEW p, Sized(p)
  PROVE  /\ Keeps(p, Reset(p)) /\ Reset(p).stream = None /\ Reset(p).outbox = p.outbox
         /\ Reset(p).detachSentFor = p.detachSentFor
<1> DEFINE q == Reset(p)
<1>1. p \in Planes /\ None \in Nat /\ p.minted \in Nat /\ p.resuming \in Nat
  BY SizedNumbers DEF Sized, None
<1>2. q \in Planes
  BY <1>1, Zenon DEF Reset, Planes
<1>3. /\ q.id = p.id /\ q.minted = p.minted /\ q.recoveries = p.recoveries
      /\ q.resuming = p.resuming /\ q.abandoned = p.abandoned /\ q.outbox = p.outbox
      /\ q.streams = p.streams /\ q.stream = None /\ q.detachSentFor = p.detachSentFor
  BY <1>1 DEF Reset, Planes
<1> HIDE DEF q
<1>4. /\ p.recoveries <= 1 /\ p.abandoned.id <= p.minted
      /\ (p.abandoned.sent => p.abandoned.id # None) /\ p.resuming <= p.resuming
  BY <1>1 DEF Sized
<1>5. SameHold(p, q)
  BY <1>3 DEF SameHold
<1>6. Keeps(p, q)
  BY <1>2, <1>3, <1>4, <1>5, RelabelledKeeps
<1> QED
  BY <1>3, <1>6 DEF q

\* sendDetachRequestOnce, for an id that was minted: the id's Detach is in line, unless
\* it was sent before.
LEMMA SendDetachKeeps ==
  ASSUME NEW p, Sized(p), NEW id \in Nat, id # None, id <= p.minted, NEW a \in Nat
  PROVE  LET q == SendDetach(p, id, a)
         IN /\ Onward(p, q) /\ q.minted = p.minted /\ LineKept(p, q)
            /\ q.stream = p.stream
            /\ q.detachSentFor \in {p.detachSentFor, [id |-> id, att |-> a]}
            /\ p.detachSentFor.id # id => DetachAhead(q, id)
<1> DEFINE q == SendDetach(p, id, a)
           r == [op |-> "detach", n |-> id]
           f == [id |-> id, att |-> a]
           ob == Append(p.outbox, r)
<1>1. p \in Planes /\ p.minted \in Nat
  BY SizedNumbers DEF Sized
<1>2. CASE HasSentDetachFor(p, id, a)
  <2>1. q = p /\ p.detachSentFor.id = id
    BY <1>2 DEF SendDetach, HasSentDetachFor
  <2> QED
    BY <1>1, <2>1 DEF Onward, LineKept
<1>3. CASE ~HasSentDetachFor(p, id, a)
  <2>1. q = [p EXCEPT !.detachSentFor = f, !.outbox = ob]
    BY <1>1, <1>3 DEF SendDetach, Planes
  <2>2. p.outbox \in Seq(Requests) /\ r \in Requests /\ f \in [id : Nat, att : Nat]
    BY <1>1 DEF Planes, Requests
  <2>3. ob \in Seq(Requests) /\ Len(ob) = Len(p.outbox) + 1 /\ ob[Len(ob)] = r
        /\ \A i \in 1 .. Len(p.outbox) : ob[i] = p.outbox[i]
    BY <2>2
  <2>4. r.op = "detach" /\ r.n = id /\ Len(p.outbox) \in Nat
    BY <2>2
  <2> HIDE DEF q, ob, f
  <2>5. q \in Planes
    BY <1>1, <2>1, <2>2, <2>3, Zenon DEF Planes
  <2>6. /\ q.id = p.id /\ q.minted = p.minted /\ q.recoveries = p.recoveries
        /\ q.resuming = p.resuming /\ q.abandoned = p.abandoned /\ q.outbox = ob
        /\ q.streams = p.streams /\ q.stream = p.stream /\ q.detachSentFor = f
    BY <1>1, <2>1 DEF Planes
  <2>7. \A i \in 1 .. Len(ob) : (i \in 1 .. Len(p.outbox) /\ ob[i] = p.outbox[i]) \/ ob[i] = r
    BY <2>3, <2>4
  <2> HIDE DEF r
  <2>8. Sized(q)
    BY <2>4, <2>5, <2>6, <2>7, Numbers DEF Sized
  <2>9. LineKept(p, q)
    BY <2>3, <2>4, <2>6 DEF LineKept, DetachAhead
  <2>10. DetachAhead(q, id)
    BY <2>3, <2>4, <2>6 DEF DetachAhead, r
  <2>11. Onward(p, q)
    BY <1>1, <2>6, <2>8 DEF Onward
  <2> QED
    BY <2>6, <2>9, <2>10, <2>11 DEF q, f
<1> QED
  BY <1>2, <1>3

\* closeStream: the stream that was held is on its way to be detached.
LEMMA CloseStreamKeeps ==
  ASSUME NEW p, Core(p), Sized(p)
  PROVE  /\ Keeps(p, CloseStream(p)) /\ CloseStream(p).stream = None
         /\ p.detachSentFor.id # p.id => Freed(p, CloseStream(p))
         /\ Ends(p, CloseStream(p))
<1> DEFINE b == Abandoned(p)
           d == SendDetach(b, p.id, p.att)
<1>1. CASE p.stream = None
  <2>1. CloseStream(p) = Reset(p)
    BY <1>1 DEF CloseStream
  <2> QED
    BY <1>1, <2>1, ResetKeeps DEF Freed, Ends
<1>2. CASE p.stream # None
  <2>1. CloseStream(p) = Reset(d)
    BY <1>2 DEF CloseStream
  <2>2. /\ Keeps(p, b) /\ b.stream = p.stream /\ b.detachSentFor = p.detachSentFor
        /\ Ends(p, b)
    BY AbandonedKeeps
  <2> HIDE DEF b
  <2>3. Sized(b) /\ b.minted = p.minted
    BY <2>2 DEF Keeps, Onward
  <2>4. p.id \in Nat /\ p.id # None /\ p.id <= b.minted /\ p.att \in Nat
    BY <2>3, SizedNumbers, Numbers DEF Sized
  <2>5. /\ Onward(b, d) /\ d.minted = b.minted /\ LineKept(b, d) /\ d.stream = b.stream
        /\ b.detachSentFor.id # p.id => DetachAhead(d, p.id)
    BY <2>3, <2>4, SendDetachKeeps
  <2> HIDE DEF d
  <2>6. Sized(d)
    BY <2>5 DEF Onward
  <2>7. Keeps(d, Reset(d)) /\ Reset(d).stream = None
    BY <2>6, ResetKeeps
  <2>8. Onward(p, Reset(d))
    BY <2>2, <2>3, <2>5, <2>7, OnwardTwice DEF Keeps
  <2>9. LineKept(p, Reset(d)) /\ Reset(d).minted = p.minted /\ SameHold(p, Reset(d))
    BY <2>2, <2>3, <2>5, <2>7 DEF Keeps, LineKept, SameHold
  <2>10. p.detachSentFor.id # p.id => DetachAhead(Reset(d), p.id)
    BY <2>2, <2>4, <2>5, <2>7 DEF Keeps, LineKept
  <2>11. p.stream \in Attachments
    BY <1>2, Numbers DEF Core, Planes, Attachments
  <2>12. Ends(p, Reset(d))
    BY <2>2, <2>5, <2>7, <2>11 DEF Ends, Keeps, Onward
  <2> QED
    BY <2>1, <2>7, <2>8, <2>9, <2>10, <2>12 DEF Keeps, Freed
<1> QED
  BY <1>1, <1>2

\* handleTransportLost
LEMMA LoseTransportKeeps ==
  ASSUME NEW p, Good(p), Sized(p)
  PROVE  Keeps(p, LoseTransport(p))
<1>1. CASE p.detached \/ p.lost
  <2>1. LoseTransport(p) = p
    BY <1>1 DEF LoseTransport
  <2> QED
    BY <2>1, SizedNumbers DEF Keeps, Onward, LineKept, SameHold
<1>2. CASE ~p.detached /\ ~p.lost
  <2> DEFINE l == [id |-> p.id, att |-> p.att,
                   sent |-> p.stream # None /\ p.streams[p.stream].sentOn # None]
             b == [p EXCEPT !.lost = TRUE, !.status = "attaching", !.abandoned = l]
             c == Abandoned(b)
  <2>1. LoseTransport(p) = Reset(c)
    BY <1>2 DEF LoseTransport
  <2>2. p \in Planes /\ Core(p)
    BY DEF Sized, Good
  <2>3. l \in [id : Nat, att : Nat, sent : BOOLEAN] /\ l.id = p.id
    BY <2>2 DEF Planes
  <2> HIDE DEF l
  <2>4. b \in Planes
    <3>1. TRUE \in BOOLEAN /\ "attaching" \in {"attaching", "attached", "failed"}
      OBVIOUS
    <3> QED
      BY <2>2, <2>3, <3>1, Zenon DEF Planes
  <2>5. /\ SameRoute(p, b) /\ b.id = p.id /\ b.minted = p.minted /\ b.abandoned = l
        /\ b.recoveries = p.recoveries /\ b.resuming = p.resuming
        /\ b.detachSentFor = p.detachSentFor
    BY <2>2 DEF Planes, SameRoute
  <2> HIDE DEF b
  <2>6. Keeps(p, b)
    <3>1. /\ p.recoveries <= 1 /\ p.resuming <= p.resuming /\ l.id <= p.minted /\ l.id # None
      BY <2>3, Numbers, SizedNumbers DEF Sized
    <3>2. b.streams = p.streams /\ b.outbox = p.outbox /\ SameHold(p, b)
      BY <2>5 DEF SameRoute, SameHold
    <3> QED
      BY <2>4, <2>5, <3>1, <3>2, RelabelledKeeps
  <2>7. Core(b) /\ Sized(b)
    BY <2>2, <2>4, <2>5, <2>6, RelabelledCore DEF Keeps, Onward
  <2>8. Keeps(b, c)
    BY <2>7, AbandonedKeeps
  <2> HIDE DEF c
  <2>9. Keeps(c, Reset(c))
    BY <2>8, ResetKeeps DEF Keeps, Onward
  <2>10. Keeps(p, c)
    BY <2>6, <2>8, KeepsTwice
  <2> QED
    BY <2>1, <2>9, <2>10, KeepsTwice
<1> QED
  <2>1. p.detached \in BOOLEAN /\ p.lost \in BOOLEAN
    BY DEF Sized, Planes
  <2> QED
    BY <1>1, <1>2, <2>1

\* ensureAttached: a new attachment was never sent.
LEMMA EnsureAttachedKeeps ==
  ASSUME NEW p, Core(p), Sized(p), NEW v \in BOOLEAN, EnsureAttached(p, v).last <= MaxAttach
  PROVE  LET q == EnsureAttached(p, v)
         IN Keeps(p, q) /\ Freed(p, q) /\ q.detachSentFor = p.detachSentFor
<1> DEFINE q == EnsureAttached(p, v)
<1>1. p \in Planes /\ p.streams \in Streams /\ p.minted \in Nat
  BY SizedNumbers DEF Sized
<1>2. Core(q) /\ q.stream = p.stream /\ q \in Planes
  BY EnsureAttachedCore DEF Core
<1>3. /\ q.id = p.id /\ q.minted = p.minted /\ q.recoveries = p.recoveries
      /\ q.resuming = p.resuming /\ q.abandoned = p.abandoned /\ q.outbox = p.outbox
      /\ q.detachSentFor = p.detachSentFor
  BY <1>1 DEF EnsureAttached, Planes
<1>4. \A a \in Attachments :
        /\ q.streams[a].id \in {None, p.streams[a].id}
        /\ q.streams[a].live => p.streams[a].live /\ q.streams[a].id = p.streams[a].id
        /\ q.streams[a].sentOn # None =>
             q.streams[a].sentOn = p.streams[a].sentOn /\ q.streams[a].id = p.streams[a].id
        /\ p.streams[a].phase = "gone" => q.streams[a].phase = "gone"
  <2>1. CASE p.promise # None
    BY <1>1, <2>1 DEF EnsureAttached, Planes, Streams, StreamTypes
  <2>2. CASE p.promise = None /\ (p.stream # None \/ ~p.listening)
    BY <2>2 DEF EnsureAttached
  <2>3. CASE p.promise = None /\ p.stream = None /\ p.listening
    <3> DEFINE n == p.last + 1
               u == [NoStream EXCEPT !.phase = "acquiring", !.visible = v]
    <3>1. q.streams = [p.streams EXCEPT ![n] = u]
      BY <1>1, <2>3 DEF EnsureAttached, Planes
    <3>2. u.id = None /\ ~u.live /\ u.sentOn = None
      BY DEF NoStream
    <3>3. \A a \in Attachments : p.streams[a].phase = "gone" => a # n
      BY SizedNumbers DEF Core, Delivers
    <3> HIDE DEF q, u, n
    <3>4. \A a \in Attachments : q.streams[a] = IF a = n THEN u ELSE p.streams[a]
      BY <1>1, <3>1 DEF Streams
    <3> QED
      BY <3>2, <3>3, <3>4
  <2> QED
    <3>1. p.listening \in BOOLEAN
      BY <1>1 DEF Planes
    <3> QED
      BY <2>1, <2>2, <2>3, <3>1
<1> HIDE DEF q
<1>5. Sized(q)
  BY <1>1, <1>2, <1>3, <1>4, Numbers DEF Sized
<1>6. Onward(p, q)
  BY <1>1, <1>3, <1>4, <1>5 DEF Onward
<1>7. LineKept(p, q) /\ SameHold(p, q) /\ Freed(p, q)
  BY <1>2, <1>3 DEF LineKept, DetachAhead, SameHold, Freed
<1> QED
  BY <1>3, <1>6, <1>7 DEF Keeps, q

LEMMA FreshIdMints ==
  ASSUME NEW p, Core(p), Sized(p)
  PROVE  /\ Mints(p, FreshId(p)) /\ FreshId(p).detachSentFor = p.detachSentFor
         /\ FreshId(p).abandoned = p.abandoned /\ FreshId(p).resuming = p.resuming
         /\ FreshId(p).outbox = p.outbox /\ FreshId(p).streams = p.streams
         /\ FreshId(p).stream = p.stream /\ FreshId(p).recoveries = p.recoveries
<1> DEFINE q == FreshId(p)
<1>1. p \in Planes /\ q \in Planes /\ p.minted \in Nat /\ p.resuming \in Nat
  BY FreshIdCore, SizedNumbers DEF Core
<1>2. /\ q.id = p.minted + 1 /\ q.minted = p.minted + 1 /\ q.recoveries = p.recoveries
      /\ q.resuming = p.resuming /\ q.abandoned = p.abandoned /\ q.outbox = p.outbox
      /\ q.streams = p.streams /\ q.stream = p.stream /\ q.detachSentFor = p.detachSentFor
  BY <1>1 DEF FreshId, Planes
<1> HIDE DEF q
<1>3. \A k \in Nat : k <= p.minted => k <= q.minted
  BY <1>1, <1>2
<1>4. /\ p.abandoned.id \in Nat /\ \A a \in Attachments : p.streams[a].id \in Nat
      /\ \A i \in 1 .. Len(p.outbox) : p.outbox[i].n \in Nat
  <2>1. p.outbox \in Seq(Requests)
    BY <1>1 DEF Planes
  <2>2. \A i \in 1 .. Len(p.outbox) : p.outbox[i] \in Requests
    BY <2>1
  <2> QED
    BY <1>1, <2>2 DEF Planes, Streams, StreamTypes, Requests
<1>5. 1 <= q.minted /\ q.resuming < q.minted
  BY <1>1, <1>2 DEF Sized
<1>6. Sized(q)
  BY <1>1, <1>2, <1>3, <1>4, <1>5 DEF Sized
<1>7. Mints(p, q)
  BY <1>1, <1>2, <1>6 DEF Mints, Onward, LineKept, DetachAhead
<1> QED
  BY <1>2, <1>7 DEF q

\* Nothing is lost after an id was minted.
LEMMA MintsThenKeeps ==
  ASSUME NEW p, Sized(p), NEW q, Mints(p, q), NEW r, Onward(q, r), r.minted = q.minted,
         LineKept(q, r)
  PROVE  Mints(p, r)
<1>1. Onward(p, r)
  BY OnwardTwice DEF Mints
<1> QED
  BY <1>1 DEF Mints, LineKept

LEMMA KeepsThenMints ==
  ASSUME NEW p, Sized(p), NEW q, Keeps(p, q), NEW r, Mints(q, r)
  PROVE  Mints(p, r)
<1>1. Onward(p, r)
  BY OnwardTwice DEF Mints, Keeps
<1> QED
  BY <1>1 DEF Mints, Keeps, LineKept

\* handleTransportRecovered
LEMMA RecoverTransportMints ==
  ASSUME NEW p, Good(p), Sized(p), RecoverTransport(p).last <= MaxAttach
  PROVE  IF p.detached \/ ~p.lost \/ ~p.listening THEN RecoverTransport(p) = p
         ELSE Mints(p, RecoverTransport(p))
<1>1. CASE p.detached \/ ~p.lost \/ ~p.listening
  BY <1>1 DEF RecoverTransport
<1>2. CASE ~(p.detached \/ ~p.lost \/ ~p.listening)
  <2> DEFINE f == FreshId(p)
             b == [f EXCEPT !.lost = FALSE, !.recoveries = 0,
                            !.status = "attaching", !.abandoned = NoLoss]
             d == SendDetach(b, p.abandoned.id, p.abandoned.att)
             e == [d EXCEPT !.resuming = @ + 1]
             q == RecoverTransport(p)
  <2>1. p \in Planes /\ Core(p)
    BY DEF Good, Core
  <2>2. q = IF p.abandoned.sent /\ b.id # p.id THEN e ELSE EnsureAttached(b, TRUE)
    BY <1>2 DEF RecoverTransport
  <2>3. /\ Mints(p, f) /\ f.resuming = p.resuming /\ f.streams = p.streams
        /\ f.outbox = p.outbox /\ f.stream = p.stream
    BY <2>1, FreshIdMints
  <2>4. Core(f) /\ f \in Planes
    BY <2>1, FreshIdCore DEF Core
  <2> HIDE DEF q, f
  <2>5. b \in Planes
    <3>1. /\ FALSE \in BOOLEAN /\ "attaching" \in {"attaching", "attached", "failed"}
          /\ 0 \in Nat /\ NoLoss \in [id : Nat, att : Nat, sent : BOOLEAN]
      BY Numbers DEF NoLoss
    <3> QED
      BY <2>4, <3>1, Zenon DEF Planes
  <2>6. /\ SameRoute(f, b) /\ b.id = f.id /\ b.minted = f.minted /\ b.abandoned = NoLoss
        /\ b.recoveries = 0 /\ b.resuming = f.resuming /\ b.detachSentFor = f.detachSentFor
    BY <2>4 DEF Planes, SameRoute
  <2> HIDE DEF b
  <2>7. Keeps(f, b)
    <3>1. Sized(f) /\ f.minted \in Nat /\ f.resuming \in Nat
      BY <2>3, SizedNumbers DEF Mints, Onward
    <3>2. /\ b.recoveries <= 1 /\ b.resuming <= f.resuming /\ b.abandoned.id <= f.minted
          /\ ~b.abandoned.sent
      BY <2>6, <3>1, Numbers DEF NoLoss
    <3>3. b.streams = f.streams /\ b.outbox = f.outbox /\ SameHold(f, b)
      BY <2>6 DEF SameRoute, SameHold
    <3> QED
      BY <2>5, <2>6, <3>1, <3>2, <3>3, RelabelledKeeps
  <2>8. Mints(p, b) /\ Sized(b) /\ Core(b)
    <3>1. Core(b)
      BY <2>4, <2>5, <2>6, RelabelledCore
    <3> QED
      BY <2>3, <2>7, <3>1, MintsThenKeeps DEF Keeps, Onward
  <2>9. CASE p.abandoned.sent /\ b.id # p.id
    <3>1. /\ p.abandoned.id \in Nat /\ p.abandoned.att \in Nat /\ p.abandoned.id # None
          /\ p.abandoned.id <= b.minted /\ p.minted \in Nat /\ b.minted = p.minted + 1
      <4>1. /\ p.abandoned.id \in Nat /\ p.abandoned.att \in Nat /\ p.minted \in Nat
            /\ b.minted = p.minted + 1 /\ p.abandoned.id <= p.minted
        BY <2>8, SizedNumbers DEF Mints, Sized
      <4> QED
        BY <2>9, <4>1 DEF Sized
    <3>2. /\ Onward(b, d) /\ d.minted = b.minted /\ LineKept(b, d) /\ d.stream = b.stream
      BY <2>8, <3>1, SendDetachKeeps
    <3>3. Core(d) /\ SameEnds(b, d)
      BY <2>8, <3>1, SendDetachCore
    <3> HIDE DEF d
    <3>4. d \in Planes /\ d.resuming \in Nat /\ d.resuming + 1 \in Nat
      BY <3>3 DEF Core, Planes
    <3>5. e \in Planes
      BY <3>4, Zenon DEF Planes
    <3>6. /\ e.streams = d.streams /\ e.outbox = d.outbox /\ e.id = d.id
          /\ e.minted = d.minted /\ e.recoveries = d.recoveries /\ e.resuming = d.resuming + 1
          /\ e.abandoned = d.abandoned
      BY <3>4 DEF Planes
    <3> HIDE DEF e
    <3>7. e.resuming < e.minted
      <4>1. d.resuming = p.resuming /\ p.resuming \in Nat /\ p.resuming < p.minted
        BY <2>3, <2>6, <3>3, SizedNumbers DEF SameEnds, Sized
      <4> QED
        BY <3>1, <3>2, <3>6, <4>1
    <3>8. Sized(e)
      BY <3>2, <3>5, <3>6, <3>7 DEF Sized, Onward
    <3>9. e.minted \in Nat
      BY <3>8, SizedNumbers
    <3>10. Onward(d, e) /\ LineKept(d, e)
      BY <3>6, <3>8, <3>9 DEF Onward, LineKept, DetachAhead
    <3>11. Mints(p, d)
      BY <2>8, <3>2, MintsThenKeeps
    <3>12. Mints(p, e)
      BY <3>6, <3>10, <3>11, MintsThenKeeps
    <3> QED
      BY <1>2, <2>2, <2>9, <3>12 DEF q
  <2>10. CASE ~(p.abandoned.sent /\ b.id # p.id)
    <3>1. q = EnsureAttached(b, TRUE) /\ q.last <= MaxAttach
      BY <2>2, <2>10 DEF q
    <3>2. Keeps(b, q)
      BY <2>8, <3>1, EnsureAttachedKeeps
    <3>3. Mints(p, q)
      BY <2>8, <3>2, MintsThenKeeps DEF Keeps
    <3> QED
      BY <1>2, <3>3 DEF q
  <2> QED
    BY <2>9, <2>10
<1> QED
  BY <1>1, <1>2

\* recoverRoute
LEMMA RecoverRouteKeeps ==
  ASSUME NEW p, Good(p), Sized(p), RecoverRoute(p).last <= MaxAttach
  PROVE  LET q == RecoverRoute(p)
         IN /\ Keeps(p, q) \/ Mints(p, q)
            /\ p.detachSentFor.id # p.id => Freed(p, q)
            /\ Ends(p, q) /\ q.stream = None
<1> DEFINE q == RecoverRoute(p)
           c == CloseStream(p)
           k == [c EXCEPT !.status = "failed"]
           f == FreshId(c)
           b == [f EXCEPT !.recoveries = @ + 1, !.status = "attaching"]
<1>1. Core(p) /\ (p.stream # None => p.stream \in Attachments)
  BY StreamIsAttachment DEF Good
<1>2. q = IF p.recoveries >= 1 THEN k ELSE EnsureAttached(b, TRUE)
  BY DEF RecoverRoute
<1>3. /\ Keeps(p, c) /\ c.stream = None /\ Ends(p, c)
      /\ p.detachSentFor.id # p.id => Freed(p, c)
  BY <1>1, CloseStreamKeeps
<1>4. Core(c) /\ c \in Planes /\ c.recoveries = p.recoveries
  <2>1. Core(c)
    BY <1>1, CloseStreamCore
  <2>2. c.recoveries = p.recoveries
    <3>1. p \in Planes
      BY DEF Sized
    <3> QED
      BY <3>1, SizedNumbers DEF CloseStream, Reset, SendDetach, Abandoned, Planes, Streams
  <2> QED
    BY <2>1, <2>2 DEF Core
<1> HIDE DEF c, q
<1>5. Sized(c)
  BY <1>3 DEF Keeps, Onward
<1>6. "attaching" \in {"attaching", "attached", "failed"}
      /\ "failed" \in {"attaching", "attached", "failed"}
  OBVIOUS
<1>7. CASE p.recoveries >= 1
  <2>1. k \in Planes
    BY <1>4, <1>6, Zenon DEF Planes
  <2>2. /\ k.streams = c.streams /\ k.outbox = c.outbox /\ k.id = c.id /\ k.minted = c.minted
        /\ k.recoveries = c.recoveries /\ k.resuming = c.resuming /\ k.abandoned = c.abandoned
        /\ k.stream = c.stream /\ k.detachSentFor = c.detachSentFor
    BY <1>4 DEF Planes
  <2> HIDE DEF k
  <2>3. Keeps(c, k)
    <3>1. /\ c.recoveries <= 1 /\ k.resuming <= c.resuming /\ c.abandoned.id <= c.minted
          /\ (c.abandoned.sent => c.abandoned.id # None) /\ SameHold(c, k)
      BY <1>5, <2>2, SizedNumbers DEF Sized, SameHold
    <3> QED
      BY <1>5, <2>1, <2>2, <3>1, RelabelledKeeps
  <2>4. Keeps(p, k)
    BY <1>3, <2>3, KeepsTwice
  <2>5. p.detachSentFor.id # p.id => Freed(p, k)
    BY <1>3, <2>2 DEF Freed, DetachAhead
  <2>6. Ends(p, k) /\ k.stream = None
    BY <1>3, <2>2 DEF Ends
  <2> QED
    BY <1>2, <1>7, <2>4, <2>5, <2>6 DEF q
<1>8. CASE ~(p.recoveries >= 1)
  <2>1. Mints(c, f) /\ f.stream = c.stream /\ f.recoveries = c.recoveries
    BY <1>4, <1>5, FreshIdMints
  <2>2. Core(f) /\ f \in Planes /\ f.recoveries + 1 \in Nat
    <3>1. Core(f)
      BY <1>4, FreshIdCore
    <3>2. f \in Planes
      BY <3>1 DEF Core
    <3> HIDE DEF f
    <3> QED
      BY <3>1, <3>2 DEF Planes
  <2> HIDE DEF f
  <2>3. b \in Planes
    BY <1>6, <2>2, Zenon DEF Planes
  <2>4. /\ SameRoute(f, b) /\ b.id = f.id /\ b.minted = f.minted /\ b.abandoned = f.abandoned
        /\ b.recoveries = f.recoveries + 1 /\ b.resuming = f.resuming
        /\ b.detachSentFor = f.detachSentFor
    BY <2>2 DEF Planes, SameRoute
  <2> HIDE DEF b
  <2>5. Sized(f)
    BY <2>1 DEF Mints, Onward
  <2>6. Keeps(f, b)
    <3>1. b.recoveries <= 1
      BY <1>4, <1>8, <2>1, <2>4, SizedNumbers
    <3>2. /\ b.resuming <= f.resuming /\ f.abandoned.id <= f.minted
          /\ (f.abandoned.sent => f.abandoned.id # None)
      BY <2>4, <2>5, SizedNumbers DEF Sized
    <3>3. b.streams = f.streams /\ b.outbox = f.outbox /\ SameHold(f, b)
      BY <2>4 DEF SameRoute, SameHold
    <3> QED
      BY <2>3, <2>4, <2>5, <3>1, <3>2, <3>3, RelabelledKeeps
  <2>7. Core(b) /\ Sized(b)
    BY <2>2, <2>3, <2>4, <2>6, RelabelledCore DEF Keeps, Onward
  <2>8. q = EnsureAttached(b, TRUE) /\ q.last <= MaxAttach
    BY <1>2, <1>8 DEF q
  <2>9. Keeps(b, q)
    BY <2>7, <2>8, EnsureAttachedKeeps
  <2>10. Mints(p, f)
    BY <1>3, <2>1, KeepsThenMints
  <2>11. Mints(p, b)
    BY <2>6, <2>10, MintsThenKeeps DEF Keeps
  <2>12. Mints(p, q)
    BY <2>9, <2>11, MintsThenKeeps DEF Keeps
  <2>13. LineKept(c, q)
    BY <2>1, <2>6, <2>9 DEF LineKept, Mints, Keeps
  <2>14. p.detachSentFor.id # p.id => Freed(p, q)
    BY <1>3, <2>13, SizedNumbers DEF Freed, LineKept
  <2>15. Ends(p, q)
    BY <1>1, <1>3, <2>1, <2>6, <2>9 DEF Ends, Mints, Keeps, Onward
  <2>16. q.stream = None
    BY <1>3, <2>1, <2>4, <2>7, <2>8, EnsureAttachedCore DEF SameRoute
  <2> QED
    BY <2>12, <2>14, <2>15, <2>16 DEF q
<1> QED
  BY <1>7, <1>8

\* What counts ids and recoveries is left alone.
SameNumbers(p, q) ==
  /\ q.id = p.id /\ q.minted = p.minted /\ q.recoveries = p.recoveries
  /\ q.resuming = p.resuming /\ q.abandoned = p.abandoned

\* A change of the attachments that sends nothing, over a line that has nothing new.
LEMMA ChangedOnward ==
  ASSUME NEW p, Sized(p), NEW q \in Planes, SameNumbers(p, q),
         \A a \in Attachments :
           /\ q.streams[a].id = p.streams[a].id /\ q.streams[a].sentOn = p.streams[a].sentOn
           /\ q.streams[a].live => p.streams[a].live
           /\ p.streams[a].phase = "gone" => q.streams[a].phase = "gone",
         \A i \in 1 .. Len(q.outbox) : \E j \in 1 .. Len(p.outbox) : q.outbox[i] = p.outbox[j]
  PROVE  Onward(p, q) /\ q.minted = p.minted
<1>1. p.minted \in Nat
  BY SizedNumbers
<1>2. \A i \in 1 .. Len(q.outbox) :
        q.outbox[i].n # 0 /\ (q.outbox[i].op = "detach" => q.outbox[i].n <= q.minted)
  BY SMTT(30) DEF Sized, SameNumbers
<1>3. \A a \in Attachments :
        q.streams[a].id <= q.minted /\ (q.streams[a].live => q.streams[a].id # None)
  BY DEF Sized, SameNumbers
<1>4. Sized(q)
  BY <1>2, <1>3 DEF Sized, SameNumbers
<1> QED
  BY <1>1, <1>4 DEF Onward, SameNumbers

\* The promise of an attachment rejects.
LEMMA RejectedKeeps ==
  ASSUME NEW p, Good(p), Sized(p), NEW a \in Attachments,
         p.streams[a].phase \in {"queued", "written", "reserved"}, NotInLine(p, a)
  PROVE  LET q == Rejected(p, a)
         IN /\ Keeps(p, q) /\ q.stream = p.stream /\ q.outbox = p.outbox
            /\ q.detachSentFor = p.detachSentFor
<1> DEFINE q == Rejected(p, a)
           u == [p.streams[a] EXCEPT !.phase = "failed", !.live = FALSE]
           st == [p.streams EXCEPT ![a] = u]
           pr == IF p.promise = a THEN None ELSE p.promise
           su == IF p.streams[a].visible THEN "failed" ELSE p.status
<1>1. p \in Planes /\ p.streams \in Streams /\ p.streams[a] \in StreamTypes
  BY SizedNumbers DEF Sized
<1>2. q \in Planes
  BY RejectedGood DEF Good, Core
<1>3. q = [p EXCEPT !.streams = st, !.promise = pr, !.status = su]
  <2>1. DOMAIN p.streams = Attachments
    BY <1>1 DEF Streams
  <2>2. [p EXCEPT !.streams[a].phase = "failed", !.streams[a].live = FALSE]
          = [p EXCEPT !.streams = st]
    BY <1>1, <2>1 DEF Planes
  <2>3. q = [[p EXCEPT !.streams[a].phase = "failed", !.streams[a].live = FALSE]
               EXCEPT !.promise = pr, !.status = su]
    BY <1>1 DEF Rejected, Planes
  <2> QED
    BY <2>2, <2>3
<1>4. /\ u.id = p.streams[a].id /\ u.sentOn = p.streams[a].sentOn /\ ~u.live
  BY <1>1 DEF StreamTypes
<1> HIDE DEF q, u, pr, su
<1>5. /\ q.streams = st /\ q.stream = p.stream /\ q.outbox = p.outbox
      /\ q.detachSentFor = p.detachSentFor /\ SameNumbers(p, q)
  BY <1>1, <1>3 DEF Planes, SameNumbers
<1>6. \A b \in Attachments :
        /\ q.streams[b].id = p.streams[b].id /\ q.streams[b].sentOn = p.streams[b].sentOn
        /\ q.streams[b].live => p.streams[b].live
        /\ p.streams[b].phase = "gone" => q.streams[b].phase = "gone"
  BY <1>1, <1>4, <1>5 DEF Streams
<1>7. Onward(p, q) /\ q.minted = p.minted
  BY <1>2, <1>5, <1>6, ChangedOnward
<1> QED
  BY <1>5, <1>7 DEF Keeps, LineKept, DetachAhead, SameHold, q

\* The requests and channels of a peer fail: the line is empty.
LEMMA FailPendingOnward ==
  ASSUME NEW p, Good(p), Sized(p)
  PROVE  LET q == FailPending(p)
         IN /\ Onward(p, q) /\ q.minted = p.minted /\ q.stream = p.stream
            /\ q.detachSentFor = p.detachSentFor
<1> DEFINE q == FailPending(p)
           st == [a \in Attachments |->
                    IF a \in Failing(p)
                    THEN [p.streams[a] EXCEPT !.phase = "failed", !.live = FALSE]
                    ELSE IF p.streams[a].phase = "open"
                    THEN [p.streams[a] EXCEPT !.phase = "gone"] ELSE p.streams[a]]
           pr == IF p.promise \in Failing(p) THEN None ELSE p.promise
           su == IF \E a \in Failing(p) : p.streams[a].visible THEN "failed" ELSE p.status
<1>1. p \in Planes /\ p.streams \in Streams
  BY SizedNumbers DEF Sized
<1>2. q \in Planes
  BY FailPendingGood DEF Good, Core
<1>3. q = [p EXCEPT !.outbox = <<>>, !.streams = st, !.promise = pr, !.status = su]
  BY <1>1 DEF FailPending, Planes
<1>4. \A a \in Attachments :
        /\ st[a].id = p.streams[a].id /\ st[a].sentOn = p.streams[a].sentOn
        /\ st[a].live => p.streams[a].live
        /\ p.streams[a].phase = "gone" => st[a].phase = "gone"
  <2> SUFFICES ASSUME NEW a \in Attachments
               PROVE  /\ st[a].id = p.streams[a].id /\ st[a].sentOn = p.streams[a].sentOn
                      /\ st[a].live => p.streams[a].live
                      /\ p.streams[a].phase = "gone" => st[a].phase = "gone"
    OBVIOUS
  <2> DEFINE t == p.streams[a]
  <2>1. t \in StreamTypes
    BY <1>1 DEF Streams
  <2>2. a \in Failing(p) => t.phase # "gone"
    BY DEF Failing
  <2>3. st[a] = IF a \in Failing(p) THEN [t EXCEPT !.phase = "failed", !.live = FALSE]
                ELSE IF t.phase = "open" THEN [t EXCEPT !.phase = "gone"] ELSE t
    OBVIOUS
  <2> HIDE DEF t, st
  <2>4. /\ st[a].id = t.id /\ st[a].sentOn = t.sentOn
        /\ st[a].live => t.live
        /\ t.phase = "gone" => st[a].phase = "gone"
    BY <2>1, <2>2, <2>3 DEF StreamTypes
  <2> QED
    BY <2>4 DEF t
<1> HIDE DEF q, st, pr, su
<1>5. /\ q.streams = st /\ q.stream = p.stream /\ q.outbox = <<>>
      /\ q.detachSentFor = p.detachSentFor /\ SameNumbers(p, q)
  BY <1>1, <1>3 DEF Planes, SameNumbers
<1>6. ~(\E i \in Nat : i \in 1 .. Len(q.outbox)) /\ Len(q.outbox) = 0
  BY <1>5
<1>7. Onward(p, q) /\ q.minted = p.minted
  BY <1>2, <1>4, <1>5, <1>6, ChangedOnward
<1> QED
  BY <1>5, <1>7 DEF q

\* detach: the stream that was held is on its way to be detached.
LEMMA DetachedOnward ==
  ASSUME NEW p, Good(p), Sized(p)
  PROVE  LET q == Detached(p)
         IN /\ Onward(p, q) /\ q.minted = p.minted /\ LineKept(p, q)
            /\ q.stream = None /\ q.detached
            /\ p.detachSentFor.id # p.id => DetachAhead(q, p.id)
<1> DEFINE q == Detached(p)
           b == [p EXCEPT !.detached = TRUE, !.lost = FALSE, !.listening = FALSE]
           c == Abandoned(b)
           d == Reset(c)
<1>1. p \in Planes /\ Core(p)
  BY DEF Good, Sized
<1>2. q = SendDetach(d, p.id, p.att)
  BY DEF Detached
<1>3. b \in Planes
  <2>1. TRUE \in BOOLEAN /\ FALSE \in BOOLEAN
    OBVIOUS
  <2> QED
    BY <1>1, <2>1, Zenon DEF Planes
<1>4. SameRoute(p, b) /\ SameNumbers(p, b) /\ b.detachSentFor = p.detachSentFor
  BY <1>1 DEF Planes, SameRoute, SameNumbers
<1> HIDE DEF b
<1>5. Keeps(p, b)
  <2>1. /\ b.streams = p.streams /\ b.outbox = p.outbox /\ b.id = p.id /\ b.minted = p.minted
        /\ b.recoveries <= 1 /\ b.resuming <= p.resuming /\ b.abandoned.id <= p.minted
        /\ (b.abandoned.sent => b.abandoned.id # None) /\ SameHold(p, b)
    BY <1>4, SizedNumbers DEF SameRoute, SameNumbers, Sized, SameHold
  <2> QED
    BY <1>3, <2>1, RelabelledKeeps
<1>6. Core(b) /\ Sized(b)
  BY <1>1, <1>3, <1>4, <1>5, RelabelledCore DEF Keeps, Onward
<1>7. Keeps(b, c) /\ c.detachSentFor = b.detachSentFor
  BY <1>6, AbandonedKeeps
<1> HIDE DEF c
<1>8. Keeps(p, c) /\ Sized(c)
  BY <1>5, <1>7, KeepsTwice DEF Keeps, Onward
<1>9. Keeps(c, d) /\ d.stream = None /\ d.detachSentFor = c.detachSentFor
  BY <1>8, ResetKeeps
<1> HIDE DEF d
<1>10. Keeps(p, d) /\ Sized(d)
  BY <1>8, <1>9, KeepsTwice DEF Keeps, Onward
<1>11. /\ p.id \in Nat /\ p.att \in Nat /\ p.id # None /\ p.id <= d.minted
  BY <1>10, SizedNumbers, Numbers DEF Sized, Keeps
<1>12. /\ Onward(d, q) /\ q.minted = d.minted /\ LineKept(d, q) /\ q.stream = d.stream
       /\ d.detachSentFor.id # p.id => DetachAhead(q, p.id)
  BY <1>2, <1>10, <1>11, SendDetachKeeps
<1>13. q.detached
  BY DetachedGood
<1> HIDE DEF q
<1>14. Onward(p, q)
  BY <1>10, <1>12, OnwardTwice DEF Keeps
<1>15. LineKept(p, q) /\ q.minted = p.minted /\ q.stream = None
  BY <1>9, <1>10, <1>12 DEF LineKept, Keeps
<1>16. p.detachSentFor.id # p.id => DetachAhead(q, p.id)
  BY <1>4, <1>7, <1>9, <1>12
<1> QED
  BY <1>13, <1>14, <1>15, <1>16 DEF q

\* A stream that was not in line moves on, or its channel is gone.
LEMMA AdvancedKeeps ==
  ASSUME NEW p, Good(p), Sized(p), NEW a \in Attachments, NEW ph \in {"reserved", "open", "gone"},
         p.streams[a].phase \in {"acquiring", "written", "reserved", "open"},
         ph # "gone" => p.streams[a].live /\ p.streams[a].phase # "acquiring",
         NEW pr \in {None, p.promise}, NEW q,
         q = WithPhase(p, a, ph, pr)
  PROVE  /\ Keeps(p, q) /\ q.stream = p.stream /\ q.outbox = p.outbox
         /\ q.detachSentFor = p.detachSentFor /\ q.streams[a].phase = ph
<1> DEFINE u == [p.streams[a] EXCEPT !.phase = ph]
           st == [p.streams EXCEPT ![a] = u]
<1>1. p \in Planes /\ p.streams \in Streams /\ p.streams[a] \in StreamTypes
  BY SizedNumbers DEF Sized
<1>2. q \in Planes
  BY AdvancedGood DEF Good, Core
<1>3. q = [p EXCEPT !.streams = st, !.promise = pr]
  <2>1. DOMAIN p.streams = Attachments
    BY <1>1 DEF Streams
  <2> QED
    BY <1>1, <2>1 DEF Planes, WithPhase
<1>4. /\ u.id = p.streams[a].id /\ u.sentOn = p.streams[a].sentOn
      /\ u.live = p.streams[a].live /\ u.phase = ph
  BY <1>1 DEF StreamTypes
<1> HIDE DEF u
<1>5. /\ q.streams = st /\ q.stream = p.stream /\ q.outbox = p.outbox
      /\ q.detachSentFor = p.detachSentFor /\ SameNumbers(p, q)
  BY <1>1, <1>3 DEF Planes, SameNumbers
<1>6. \A b \in Attachments :
        /\ q.streams[b].id = p.streams[b].id /\ q.streams[b].sentOn = p.streams[b].sentOn
        /\ q.streams[b].live => p.streams[b].live
        /\ p.streams[b].phase = "gone" => q.streams[b].phase = "gone"
  BY <1>1, <1>4, <1>5 DEF Streams
<1>7. Onward(p, q) /\ q.minted = p.minted
  BY <1>2, <1>5, <1>6, ChangedOnward, ZenonT(40)
<1>8. q.streams[a].phase = ph
  BY <1>1, <1>4, <1>5 DEF Streams
<1> QED
  BY <1>5, <1>7, <1>8 DEF Keeps, LineKept, DetachAhead, SameHold

\* The head of the line goes: every other Detach is still ahead.
LEMMA PoppedOnward ==
  ASSUME NEW p, Good(p), Sized(p), p.outbox # <<>>, NEW q, q = [p EXCEPT !.outbox = Tail(@)]
  PROVE  /\ Onward(p, q) /\ q.minted = p.minted /\ q.stream = p.stream
         /\ q.detachSentFor = p.detachSentFor
         /\ Head(p.outbox) \in Requests /\ Head(p.outbox).n # 0
         /\ \A id \in Nat : DetachAhead(p, id) =>
              DetachAhead(q, id) \/ Head(p.outbox) = [op |-> "detach", n |-> id]
<1> DEFINE ob == Tail(p.outbox)
           h == Head(p.outbox)
<1>1. p \in Planes /\ p.outbox \in Seq(Requests)
  BY SizedNumbers DEF Sized
<1>2. /\ ob \in Seq(Requests) /\ Len(ob) \in Nat /\ Len(p.outbox) = Len(ob) + 1
      /\ h \in Requests /\ h = p.outbox[1]
      /\ \A i \in 1 .. Len(ob) : ob[i] = p.outbox[i + 1]
  BY <1>1
<1>3. q = [p EXCEPT !.outbox = ob]
  BY <1>1 DEF Planes
<1> HIDE DEF ob, h
<1>4. q \in Planes
  BY <1>1, <1>2, <1>3, Zenon DEF Planes
<1>5. /\ q.streams = p.streams /\ q.stream = p.stream /\ q.outbox = ob
      /\ q.detachSentFor = p.detachSentFor /\ SameNumbers(p, q)
  BY <1>1, <1>3 DEF Planes, SameNumbers
<1>6. \A i \in 1 .. Len(ob) : i + 1 \in 1 .. Len(p.outbox)
  BY <1>2
<1>7. \A i \in 1 .. Len(q.outbox) : \E j \in 1 .. Len(p.outbox) : q.outbox[i] = p.outbox[j]
  BY <1>2, <1>5, <1>6
<1>8. Onward(p, q) /\ q.minted = p.minted
  BY <1>4, <1>5, <1>7, ChangedOnward
<1>9. ASSUME NEW id \in Nat, DetachAhead(p, id), h # [op |-> "detach", n |-> id]
      PROVE  DetachAhead(q, id)
  <2>1. PICK i \in 1 .. Len(p.outbox) : p.outbox[i] = [op |-> "detach", n |-> id]
    BY <1>9 DEF DetachAhead
  <2>2. i # 1
    BY <1>2, <1>9, <2>1
  <2>3. i - 1 \in 1 .. Len(ob) /\ ob[i - 1] = p.outbox[(i - 1) + 1] /\ (i - 1) + 1 = i
    BY <1>2, <2>2
  <2> QED
    BY <1>5, <2>1, <2>3 DEF DetachAhead
<1>10. h.n # 0
  BY <1>2, SMTT(30) DEF Sized
<1> QED
  BY <1>2, <1>5, <1>8, <1>9, <1>10 DEF h

\* A current attachment is acquired: the stream of the id the plane has.
LEMMA AcquiredOnward ==
  ASSUME NEW p, Good(p), Sized(p), NEW a \in Attachments, p.streams[a].phase = "acquiring",
         p.att = a, ~p.detached, p.listening, NEW q,
         q = WithAcquired(p, a)
  PROVE  /\ Onward(p, q) /\ q.minted = p.minted /\ q.stream = a /\ LineKept(p, q)
         /\ q.detachSentFor.id = None
<1> DEFINE u == [p.streams[a] EXCEPT !.phase = "queued", !.live = TRUE, !.id = p.id]
           st == [p.streams EXCEPT ![a] = u]
           r == [op |-> "attach", n |-> a]
           ob == Append(p.outbox, r)
           f == [id |-> None, att |-> None]
<1>1. p \in Planes /\ p.streams \in Streams /\ p.streams[a] \in StreamTypes /\ p.id \in Nat
      /\ p.outbox \in Seq(Requests) /\ p.minted \in Nat /\ a \in Nat /\ a # 0
  BY SizedNumbers, Numbers DEF Sized
<1>2. q \in Planes
  BY AcquiredGood DEF Good, Core
<1>3. q = [p EXCEPT !.stream = a, !.detachSentFor = f, !.streams = st, !.outbox = ob]
  <2> DEFINE c == [p EXCEPT !.stream = a, !.detachSentFor = f]
  <2>1. DOMAIN p.streams = Attachments
    BY <1>1 DEF Streams
  <2>2. c \in Planes /\ c.streams = p.streams
    <3>1. f \in [id : Nat, att : Nat]
      BY Numbers
    <3> HIDE DEF f
    <3> QED
      BY <1>1, <3>1, Zenon DEF Planes
  <2> HIDE DEF c
  <2>3. [c EXCEPT !.streams[a].phase = "queued", !.streams[a].live = TRUE, !.streams[a].id = p.id]
          = [c EXCEPT !.streams = st]
    BY <1>1, <2>1, <2>2, ZenonT(40) DEF Planes
  <2>4. q = [[c EXCEPT !.streams[a].phase = "queued", !.streams[a].live = TRUE,
                       !.streams[a].id = p.id] EXCEPT !.outbox = ob]
    BY <1>1 DEF Planes, WithAcquired, c
  <2>5. q = [[c EXCEPT !.streams = st] EXCEPT !.outbox = ob]
    BY <2>3, <2>4
  <2> QED
    BY <1>1, <2>5 DEF Planes, c
<1>4. u.id = p.id /\ u.sentOn = p.streams[a].sentOn
  BY <1>1 DEF StreamTypes
<1>5. /\ Len(ob) = Len(p.outbox) + 1 /\ ob[Len(ob)] = r /\ Len(p.outbox) \in Nat
      /\ \A i \in 1 .. Len(p.outbox) : ob[i] = p.outbox[i]
  <2>1. r \in Requests
    BY <1>1 DEF Requests
  <2> QED
    BY <1>1, <2>1
<1>6. r.op # "detach" /\ r.n = a /\ f.id = None
  OBVIOUS
<1> HIDE DEF u, ob, f, r
<1>7. /\ q.streams = st /\ q.stream = a /\ q.outbox = ob /\ q.detachSentFor = f
      /\ SameNumbers(p, q)
  BY <1>1, <1>3 DEF Planes, SameNumbers
<1>8. \A b \in Attachments : q.streams[b] = IF b = a THEN u ELSE p.streams[b]
  BY <1>1, <1>7 DEF Streams
<1>9. p.streams[a].sentOn = None
  BY DEF Good, Core, Delivers
<1>10. \A i \in 1 .. Len(ob) : (i \in 1 .. Len(p.outbox) /\ ob[i] = p.outbox[i]) \/ ob[i] = r
  BY <1>5
<1>11. Sized(q)
  <2>1. \A b \in Attachments :
          q.streams[b].id <= q.minted /\ (q.streams[b].live => q.streams[b].id # None)
    <3>1. p.id = p.minted /\ 1 <= p.minted /\ q.minted = p.minted
      BY <1>7 DEF Sized, SameNumbers
    <3>2. u.id <= q.minted /\ u.id # None
      BY <1>1, <1>4, <3>1, Numbers
    <3>3. \A b \in Attachments : b # a =>
            /\ q.streams[b].id <= q.minted
            /\ q.streams[b].live => q.streams[b].id # None
      BY <1>8, <3>1 DEF Sized
    <3> QED
      BY <1>8, <3>2, <3>3
  <2>2. \A i \in 1 .. Len(ob) :
          ob[i].n # 0 /\ (ob[i].op = "detach" => ob[i].n <= q.minted)
    BY <1>1, <1>6, <1>7, <1>10 DEF Sized, SameNumbers
  <2> QED
    BY <1>2, <1>7, <2>1, <2>2 DEF Sized, SameNumbers
<1>12. Onward(p, q)
  BY <1>1, <1>4, <1>7, <1>8, <1>9, <1>11 DEF Onward, SameNumbers
<1>13. LineKept(p, q)
  BY <1>5, <1>7 DEF LineKept, DetachAhead
<1> QED
  BY <1>6, <1>7, <1>12, <1>13 DEF SameNumbers

\* An Attach is written: nothing but its stream changes.
LEMMA WrittenSized ==
  ASSUME NEW p, Good(p), Sized(p), NEW a \in Attachments, p.streams[a].phase = "queued",
         NotInLine(p, a), NEW n \in Nat, NEW q,
         q = WithWritten(p, a, n)
  PROVE  /\ Sized(q) /\ SameNumbers(p, q) /\ q.stream = p.stream /\ q.outbox = p.outbox
         /\ q.detachSentFor = p.detachSentFor
         /\ q.streams[a].sentOn = n /\ q.streams[a].id = p.streams[a].id
         /\ \A b \in Attachments : b # a => q.streams[b] = p.streams[b]
<1> DEFINE u == [p.streams[a] EXCEPT !.phase = "written", !.sentOn = n]
           st == [p.streams EXCEPT ![a] = u]
<1>1. p \in Planes /\ p.streams \in Streams /\ p.streams[a] \in StreamTypes
  BY SizedNumbers DEF Sized
<1>2. q \in Planes
  BY WrittenGood DEF Good, Core
<1>3. q = [p EXCEPT !.streams = st]
  <2>1. DOMAIN p.streams = Attachments
    BY <1>1 DEF Streams
  <2> QED
    BY <1>1, <2>1 DEF Planes, WithWritten
<1>4. u.id = p.streams[a].id /\ u.sentOn = n /\ u.live = p.streams[a].live
  BY <1>1 DEF StreamTypes
<1> HIDE DEF u
<1>5. /\ q.streams = st /\ q.stream = p.stream /\ q.outbox = p.outbox
      /\ q.detachSentFor = p.detachSentFor /\ SameNumbers(p, q)
  BY <1>1, <1>3 DEF Planes, SameNumbers
<1>6. \A b \in Attachments : q.streams[b] = IF b = a THEN u ELSE p.streams[b]
  BY <1>1, <1>5 DEF Streams
<1>7. Sized(q)
  <2>1. \A b \in Attachments :
          q.streams[b].id <= q.minted /\ (q.streams[b].live => q.streams[b].id # None)
    BY <1>4, <1>5, <1>6 DEF Sized, SameNumbers
  <2> QED
    BY <1>2, <1>5, <2>1 DEF Sized, SameNumbers
<1> QED
  BY <1>4, <1>5, <1>6, <1>7

-----------------------------------------------------------------------------
(* The ledger of the ids.                                                  *)

\* Every id was minted for a peer or for an attachment that is over; a loss leaves a
\* peer to come; nothing was sent on a peer that is still to come.
Counted(pe, p, h, u) ==
  /\ Sized(p)
  /\ pe.n \in 1 .. MaxPeers /\ (~pe.up => pe.n < MaxPeers)
  /\ p.minted <= pe.n + Cardinality(Gone(p))
  /\ h \subseteq 1 .. p.minted
  /\ u \in [Ids -> 0 .. pe.n]
  /\ \A a \in Attachments :
       p.streams[a].sentOn <= pe.n /\ (p.streams[a].sentOn # None => p.streams[a].id # None)

\* An id that was attached over one peer was attached over no other.
UsedOnce(p, u) ==
  \A a \in Attachments : p.streams[a].sentOn # None => u[p.streams[a].id] = p.streams[a].sentOn

\* Where nothing interferes with a recovery: what the Hub holds is the stream of the
\* plane or on its way to be detached, and the id of the plane is new to its peer.
Tidy(pe, p, h, u) ==
  /\ ~pe.up => h = {} /\ (p.detached \/ p.lost)
  /\ \A i \in Ids : i > p.minted => u[i] = None
  /\ UsedOnce(p, u)
  /\ (pe.up /\ ~p.detached) => u[p.id] \in {None, pe.n}
  /\ \A id \in h : DetachAhead(p, id) \/ (p.stream # None /\ id = p.id)
  /\ p.stream # None => p.detachSentFor.id # p.id

Ledger ==
  /\ Counted(peer, plane, hub, usedOn)
  /\ environment = {} => Tidy(peer, plane, hub, usedOn)

\* The attachments that are over are counted, and one more counts for one.
LEMMA GoneGrows ==
  ASSUME NEW p, NEW q, Onward(p, q)
  PROVE  /\ Cardinality(Gone(p)) \in 0 .. MaxAttach
         /\ Cardinality(Gone(q)) \in 0 .. MaxAttach
         /\ Cardinality(Gone(p)) <= Cardinality(Gone(q))
         /\ \A a \in Attachments : p.streams[a].phase # "gone" /\ q.streams[a].phase = "gone" =>
              Cardinality(Gone(p)) + 1 <= Cardinality(Gone(q))
<1>1. IsFiniteSet(Attachments) /\ Cardinality(Attachments) = MaxAttach
  BY Numbers, FS_Interval DEF Attachments
<1>2. Gone(p) \subseteq Attachments /\ Gone(q) \subseteq Attachments
      /\ Gone(p) \subseteq Gone(q)
  BY DEF Gone, Onward
<1>3. /\ IsFiniteSet(Gone(p)) /\ Cardinality(Gone(p)) <= MaxAttach
      /\ IsFiniteSet(Gone(q)) /\ Cardinality(Gone(q)) <= MaxAttach
      /\ Cardinality(Gone(p)) <= Cardinality(Gone(q))
  BY <1>1, <1>2, FS_Subset
<1>4. Cardinality(Gone(p)) \in Nat /\ Cardinality(Gone(q)) \in Nat
  BY <1>3, FS_CardinalityType
<1>5. ASSUME NEW a \in Attachments, p.streams[a].phase # "gone", q.streams[a].phase = "gone"
      PROVE  Cardinality(Gone(p)) + 1 <= Cardinality(Gone(q))
  <2>1. a \notin Gone(p) /\ Gone(p) \cup {a} \subseteq Gone(q)
    BY <1>2, <1>5 DEF Gone
  <2>2. Cardinality(Gone(p) \cup {a}) = Cardinality(Gone(p)) + 1
    BY <1>3, <2>1, FS_AddElement
  <2> QED
    BY <1>3, <2>1, <2>2, FS_Subset
<1> QED
  BY <1>3, <1>4, <1>5, Numbers

\* What was minted is an id.
LEMMA MintedIds ==
  ASSUME NEW pe, NEW p, NEW h, NEW u, Counted(pe, p, h, u)
  PROVE  /\ p.minted \in Ids /\ p.id = p.minted /\ pe.n \in Nat /\ pe.n <= MaxPeers
         /\ 1 .. p.minted \subseteq Ids
<1>1. p.minted \in Nat /\ 1 <= p.minted /\ p.id = p.minted
  BY SizedNumbers DEF Counted, Sized
<1>2. Onward(p, p)
  BY <1>1 DEF Onward, Counted
<1>3. Cardinality(Gone(p)) \in Nat /\ Cardinality(Gone(p)) <= MaxAttach
  BY <1>2, GoneGrows, Numbers
<1>4. pe.n \in Nat /\ pe.n <= MaxPeers /\ p.minted <= pe.n + Cardinality(Gone(p))
  BY Numbers DEF Counted
<1>5. p.minted <= MaxPeers + MaxAttach
  <2> DEFINE g == Cardinality(Gone(p))
  <2>1. g \in Nat /\ g <= MaxAttach /\ p.minted <= pe.n + g
    BY <1>3, <1>4
  <2> HIDE DEF g
  <2> QED
    BY <1>1, <1>4, <2>1, Numbers
<1> QED
  BY <1>1, <1>4, <1>5, Numbers DEF Ids

\* What the Hub holds is a number.
LEMMA HubNumbers ==
  ASSUME NEW pe, NEW p, NEW h, NEW u, Counted(pe, p, h, u)
  PROVE  \A id \in h : id \in Nat
<1>1. p.minted \in Nat /\ h \subseteq 1 .. p.minted
  BY SizedNumbers DEF Counted
<1> QED
  BY <1>1

\* A step of the plane that sends nothing, and mints at most one id for an attachment
\* that it ends.
LEMMA CountedAfter ==
  ASSUME NEW pe, NEW p, NEW h, NEW u, Counted(pe, p, h, u), NEW q, Onward(p, q),
         NEW h2, h2 \subseteq h,
         \/ q.minted = p.minted
         \/ /\ q.minted = p.minted + 1
            /\ \E a \in Attachments : p.streams[a].phase # "gone" /\ q.streams[a].phase = "gone"
  PROVE  Counted(pe, q, h2, u)
<1> DEFINE g == Cardinality(Gone(p))
           k == Cardinality(Gone(q))
<1>1. Sized(p) /\ Sized(q) /\ p.minted \in Nat /\ q.minted \in Nat /\ p.minted <= q.minted
  BY SizedNumbers DEF Counted, Onward
<1>2. /\ g \in Nat /\ k \in Nat /\ g <= k /\ p.minted <= pe.n + g
      /\ q.minted = p.minted \/ (q.minted = p.minted + 1 /\ g + 1 <= k)
  BY GoneGrows, Numbers DEF Counted
<1> HIDE DEF g, k
<1>3. pe.n \in Nat
  BY MintedIds
<1>4. q.minted <= pe.n + k
  BY <1>1, <1>2, <1>3
<1>5. h2 \subseteq 1 .. q.minted
  BY <1>1 DEF Counted
<1>6. \A a \in Attachments :
        q.streams[a].sentOn <= pe.n /\ (q.streams[a].sentOn # None => q.streams[a].id # None)
  BY <1>3, Numbers DEF Counted, Onward
<1> QED
  BY <1>1, <1>4, <1>5, <1>6 DEF Counted, k

\* ... keeps a tidy plane tidy, if what the Hub still holds is held or detached.
LEMMA TidyAfter ==
  ASSUME NEW pe, NEW p, NEW h, NEW u, Counted(pe, p, h, u), Tidy(pe, p, h, u),
         pe.up \in BOOLEAN, p.detached \in BOOLEAN,
         NEW q, NEW h2, Counted(pe, q, h2, u), Onward(p, q), h2 \subseteq h,
         ~pe.up => q.detached \/ q.lost,
         p.detached => q.detached,
         \A id \in h2 : DetachAhead(p, id) => DetachAhead(q, id),
         p.stream # None /\ p.id \in h2 =>
           (q.stream # None /\ q.id = p.id) \/ DetachAhead(q, p.id),
         q.stream # None => q.detachSentFor.id # q.id
  PROVE  Tidy(pe, q, h2, u)
<1>1. /\ p.minted \in Nat /\ q.minted \in Nat /\ p.minted <= q.minted
      /\ q.minted \in Ids /\ q.id = q.minted /\ p.id = p.minted
  <2>1. p.minted \in Ids /\ p.id = p.minted /\ q.minted \in Ids /\ q.id = q.minted
    BY MintedIds
  <2>2. p.minted <= q.minted
    BY DEF Onward
  <2> QED
    BY <2>1, <2>2, Numbers DEF Ids
<1>2. \A i \in Ids : i \in Nat
  BY Numbers DEF Ids
<1>3. \A i \in Ids : i > q.minted => u[i] = None
  BY <1>1, <1>2 DEF Tidy
<1>4. UsedOnce(q, u)
  BY DEF Tidy, UsedOnce, Onward
<1>5. (pe.up /\ ~q.detached) => u[q.id] \in {None, pe.n}
  <2>1. CASE q.minted = p.minted
    BY <1>1, <2>1 DEF Tidy
  <2>2. CASE q.minted # p.minted
    BY <1>1, <2>2 DEF Tidy
  <2> QED
    BY <2>1, <2>2
<1>6. \A id \in h2 : DetachAhead(q, id) \/ (q.stream # None /\ id = q.id)
  BY DEF Tidy
<1>7. ~pe.up => h2 = {} /\ (q.detached \/ q.lost)
  BY DEF Tidy
<1> QED
  BY <1>3, <1>4, <1>5, <1>6, <1>7 DEF Tidy

\* The state of the ledger as the steps need it.
LEMMA LedgerFacts ==
  ASSUME IInv, Ledger
  PROVE  /\ Good(plane) /\ Core(plane) /\ Held(plane) /\ Sized(plane)
         /\ plane \in Planes /\ plane.detached \in BOOLEAN /\ plane.lost \in BOOLEAN
         /\ peer.up \in BOOLEAN /\ peer \in [n : Nat, up : BOOLEAN]
         /\ Counted(peer, plane, hub, usedOn)
         /\ environment = {} =>
              /\ Quiet(plane, peer.up) /\ OfPeer(plane, peer.up, peer.n)
              /\ Tidy(peer, plane, hub, usedOn)
<1>1. Good(plane) /\ plane \in Planes /\ peer \in [n : Nat, up : BOOLEAN]
  BY DEF IInv, Inv, Good, Core
<1>2. plane.detached \in BOOLEAN /\ plane.lost \in BOOLEAN /\ peer.up \in BOOLEAN
  BY <1>1 DEF Planes
<1> QED
  BY <1>1, <1>2 DEF IInv, Inv, Ledger, Good, Counted

\* A step of the view or of the plane on its own: the Hub holds no more than before.
LEMMA PlaneStep ==
  ASSUME IInv, Ledger, environment' = environment, peer' = peer, usedOn' = usedOn,
         hub' \subseteq hub, NEW q, plane' = q, Onward(plane, q), q.minted = plane.minted,
         environment = {} =>
           /\ ~peer.up => q.detached \/ q.lost
           /\ plane.detached => q.detached
           /\ \A id \in hub' : DetachAhead(plane, id) => DetachAhead(q, id)
           /\ plane.stream # None /\ plane.id \in hub' =>
                (q.stream # None /\ q.id = plane.id) \/ DetachAhead(q, plane.id)
           /\ q.stream # None => q.detachSentFor.id # q.id
  PROVE  Ledger'
<1>1. Counted(peer, plane, hub, usedOn) /\ peer.up \in BOOLEAN /\ plane.detached \in BOOLEAN
      /\ (environment = {} => Tidy(peer, plane, hub, usedOn))
  BY LedgerFacts
<1>2. Counted(peer, q, hub', usedOn)
  BY <1>1, CountedAfter
<1>3. environment = {} => Tidy(peer, q, hub', usedOn)
  BY <1>1, <1>2, TidyAfter
<1> QED
  BY <1>2, <1>3 DEF Ledger

\* A method that keeps the line and what it holds, or detaches it.
LEMMA KeepingStep ==
  ASSUME IInv, Ledger, environment' = environment, peer' = peer, usedOn' = usedOn,
         hub' \subseteq hub, NEW q, plane' = q, Keeps(plane, q),
         environment = {} =>
           /\ ~peer.up => q.detached \/ q.lost
           /\ plane.detached => q.detached
           /\ plane.id \in hub' => Freed(plane, q)
  PROVE  Ledger'
<1>1. Onward(plane, q) /\ q.minted = plane.minted /\ LineKept(plane, q) /\ SameHold(plane, q)
  BY DEF Keeps
<1>2. q.id = plane.id /\ \A id \in hub' : id \in Nat
  <2>1. Sized(plane) /\ Sized(q) /\ hub \subseteq 1 .. plane.minted /\ plane.minted \in Nat
    BY <1>1, LedgerFacts, SizedNumbers DEF Onward, Counted
  <2> QED
    BY <1>1, <2>1 DEF Sized
<1>3. environment = {} =>
        /\ \A id \in hub' : DetachAhead(plane, id) => DetachAhead(q, id)
        /\ plane.stream # None /\ plane.id \in hub' =>
             (q.stream # None /\ q.id = plane.id) \/ DetachAhead(q, plane.id)
        /\ q.stream # None => q.detachSentFor.id # q.id
  BY <1>1, <1>2, LedgerFacts DEF LineKept, Freed, SameHold, Tidy
<1> QED
  BY <1>1, <1>3, PlaneStep

-----------------------------------------------------------------------------
(* The actions keep the ledger.                                            *)

LEMMA SubscribeLedger == ASSUME IInv, Ledger, Subscribe PROVE Ledger'
<1> DEFINE p == plane
           b == [p EXCEPT !.listening = TRUE, !.status = "attaching"]
           q == EnsureAttached(b, TRUE)
<1>1. /\ Good(p) /\ Core(p) /\ Sized(p) /\ p \in Planes
      /\ environment = {} => Tidy(peer, p, hub, usedOn)
  BY LedgerFacts
<1>2. /\ plane' = q /\ environment' = environment /\ peer' = peer /\ usedOn' = usedOn
      /\ hub' = hub /\ q.last <= MaxAttach /\ ~p.detached
  BY DEF Subscribe, PeerRests, Bounded
<1>3. environment = {} => peer.up
  BY QuietPeer DEF Subscribe
<1> HIDE DEF p
<1>4. b \in Planes
  <2>1. TRUE \in BOOLEAN /\ "attaching" \in {"attaching", "attached", "failed"}
    OBVIOUS
  <2> QED
    BY <1>1, <2>1, Zenon DEF Planes
<1>5. SameRoute(p, b) /\ SameNumbers(p, b) /\ b.detachSentFor = p.detachSentFor
  BY <1>1 DEF Planes, SameRoute, SameNumbers
<1> HIDE DEF b
<1>6. Keeps(p, b)
  <2>1. /\ b.streams = p.streams /\ b.outbox = p.outbox /\ b.id = p.id /\ b.minted = p.minted
        /\ b.recoveries <= 1 /\ b.resuming <= p.resuming /\ b.abandoned.id <= p.minted
        /\ (b.abandoned.sent => b.abandoned.id # None) /\ SameHold(p, b)
    BY <1>1, <1>5, SizedNumbers DEF SameRoute, SameNumbers, Sized, SameHold
  <2> QED
    BY <1>1, <1>4, <2>1, RelabelledKeeps
<1>7. Core(b) /\ Sized(b)
  BY <1>1, <1>4, <1>5, <1>6, RelabelledCore DEF Keeps, Onward
<1>8. Keeps(b, q) /\ Freed(b, q)
  BY <1>2, <1>7, EnsureAttachedKeeps
<1> HIDE DEF q
<1>9. Keeps(p, q) /\ Freed(p, q)
  BY <1>1, <1>5, <1>6, <1>8, KeepsTwice DEF SameRoute, SameNumbers, Freed
<1> QED
  BY <1>2, <1>3, <1>9, KeepingStep DEF p

LEMMA UnsubscribeLedger == ASSUME IInv, Ledger, Unsubscribe PROVE Ledger'
<1> DEFINE p == plane
           b == [p EXCEPT !.listening = FALSE]
           q == CloseStream(b)
<1>1. /\ Core(p) /\ Sized(p) /\ p \in Planes
      /\ environment = {} => Tidy(peer, p, hub, usedOn)
  BY LedgerFacts
<1>2. /\ plane' = q /\ environment' = environment /\ peer' = peer /\ usedOn' = usedOn
      /\ hub' = hub
  BY DEF Unsubscribe, PeerRests
<1> HIDE DEF p
<1>3. b \in Planes
  <2>1. FALSE \in BOOLEAN
    OBVIOUS
  <2> QED
    BY <1>1, <2>1, Zenon DEF Planes
<1>4. /\ SameRoute(p, b) /\ SameNumbers(p, b) /\ b.detachSentFor = p.detachSentFor
      /\ b.lost = p.lost /\ b.detached = p.detached
  BY <1>1 DEF Planes, SameRoute, SameNumbers
<1> HIDE DEF b
<1>5. Keeps(p, b)
  <2>1. /\ b.streams = p.streams /\ b.outbox = p.outbox /\ b.id = p.id /\ b.minted = p.minted
        /\ b.recoveries <= 1 /\ b.resuming <= p.resuming /\ b.abandoned.id <= p.minted
        /\ (b.abandoned.sent => b.abandoned.id # None) /\ SameHold(p, b)
    BY <1>1, <1>4, SizedNumbers DEF SameRoute, SameNumbers, Sized, SameHold
  <2> QED
    BY <1>1, <1>3, <2>1, RelabelledKeeps
<1>6. Core(b) /\ Sized(b)
  BY <1>1, <1>3, <1>4, <1>5, RelabelledCore DEF Keeps, Onward
<1>7. Keeps(b, q) /\ (b.detachSentFor.id # b.id => Freed(b, q))
  BY <1>6, CloseStreamKeeps
<1>8. SameEnds(b, q)
  BY <1>6, CloseStreamCore
<1> HIDE DEF q
<1>9. Keeps(p, q)
  BY <1>1, <1>5, <1>7, KeepsTwice
<1>10. p.detachSentFor.id # p.id => Freed(p, q)
  BY <1>4, <1>7 DEF SameRoute, SameNumbers, Freed
<1>11. environment = {} =>
         /\ ~peer.up => q.detached \/ q.lost
         /\ p.detached => q.detached
         /\ Freed(p, q)
  <2> SUFFICES ASSUME environment = {}
               PROVE  /\ ~peer.up => q.detached \/ q.lost
                      /\ p.detached => q.detached
                      /\ Freed(p, q)
    OBVIOUS
  <2>1. Freed(p, q)
    BY <1>1, <1>10 DEF Tidy, Freed
  <2>2. ~peer.up => p.detached \/ p.lost
    BY <1>1 DEF Tidy
  <2> QED
    BY <1>4, <1>8, <2>1, <2>2 DEF SameEnds
<1> QED
  BY <1>2, <1>9, <1>11, KeepingStep DEF p

LEMMA InputLedger == ASSUME IInv, Ledger, Input PROVE Ledger'
<1> DEFINE q == EnsureAttached(plane, FALSE)
<1>1. Core(plane) /\ Sized(plane)
  BY LedgerFacts
<1>2. /\ plane' = q /\ environment' = environment /\ peer' = peer /\ usedOn' = usedOn
      /\ hub' = hub /\ q.last <= MaxAttach /\ ~plane.detached
  BY DEF Input, PeerRests, Bounded
<1>3. environment = {} => peer.up
  BY QuietPeer DEF Input
<1>4. Keeps(plane, q) /\ Freed(plane, q)
  BY <1>1, <1>2, EnsureAttachedKeeps
<1> QED
  BY <1>2, <1>3, <1>4, KeepingStep

LEMMA DetachLedger == ASSUME IInv, Ledger, Detach PROVE Ledger'
<1> DEFINE q == Detached(plane)
<1>1. /\ Good(plane) /\ Sized(plane) /\ Counted(peer, plane, hub, usedOn)
      /\ environment = {} => Tidy(peer, plane, hub, usedOn)
  BY LedgerFacts
<1>2. /\ plane' = q /\ environment' = environment /\ peer' = peer /\ usedOn' = usedOn
      /\ hub' = hub
  BY DEF Detach, PeerRests
<1>3. /\ Onward(plane, q) /\ q.minted = plane.minted /\ LineKept(plane, q)
      /\ q.stream = None /\ q.detached
      /\ plane.detachSentFor.id # plane.id => DetachAhead(q, plane.id)
  BY <1>1, DetachedOnward
<1> HIDE DEF q
<1>4. \A id \in hub : id \in Nat
  BY <1>1, HubNumbers
<1>5. environment = {} =>
        /\ \A id \in hub' : DetachAhead(plane, id) => DetachAhead(q, id)
        /\ plane.stream # None /\ plane.id \in hub' =>
             (q.stream # None /\ q.id = plane.id) \/ DetachAhead(q, plane.id)
        /\ q.stream # None => q.detachSentFor.id # q.id
  BY <1>1, <1>2, <1>3, <1>4 DEF LineKept, Tidy
<1> QED
  BY <1>2, <1>3, <1>5, PlaneStep

LEMMA AcquireLedger == ASSUME IInv, Ledger, NEW a \in Attachments, Acquire(a) PROVE Ledger'
<1> DEFINE p == plane
           q == plane'
<1>1. /\ Good(p) /\ Core(p) /\ Sized(p) /\ p \in Planes /\ p.streams[a].phase = "acquiring"
      /\ Counted(peer, p, hub, usedOn)
      /\ environment = {} => Tidy(peer, p, hub, usedOn)
  BY LedgerFacts DEF Acquire
<1>2. /\ environment' = environment /\ peer' = peer /\ usedOn' = usedOn /\ hub' = hub
  BY DEF Acquire, PeerRests
<1>3. CASE IsCurrent(p, a) /\ p.listening
  <2>1. p.att = a /\ ~p.detached /\ p.listening
    BY <1>3 DEF IsCurrent
  <2>2. q = WithAcquired(p, a)
    BY <1>3 DEF Acquire, WithAcquired
  <2> HIDE DEF p, q
  <2>3. /\ Onward(p, q) /\ q.minted = p.minted /\ q.stream = a /\ LineKept(p, q)
        /\ q.detachSentFor.id = None
    BY <1>1, <2>1, <2>2, AcquiredOnward
  <2>4. SameEnds(p, q)
    BY <1>1, <2>1, <2>2, AcquiredGood
  <2>5. q.id # None /\ \A id \in hub : id \in Nat
    <3>1. q.id = q.minted /\ 1 <= q.minted
      BY <2>3 DEF Onward, Sized
    <3> QED
      BY <1>1, <3>1, HubNumbers, Numbers
  <2>6. environment = {} =>
          /\ ~peer.up => q.detached \/ q.lost
          /\ p.detached => q.detached
          /\ \A id \in hub' : DetachAhead(p, id) => DetachAhead(q, id)
          /\ p.stream # None /\ p.id \in hub' =>
               (q.stream # None /\ q.id = p.id) \/ DetachAhead(q, p.id)
          /\ q.stream # None => q.detachSentFor.id # q.id
    BY <1>1, <1>2, <2>3, <2>4, <2>5, Numbers DEF SameEnds, LineKept, Tidy
  <2> QED
    BY <1>2, <2>3, <2>6, PlaneStep DEF p, q
<1>4. CASE ~(IsCurrent(p, a) /\ p.listening)
  <2> DEFINE pr == IF p.promise = a THEN None ELSE p.promise
  <2>1. q = WithPhase(p, a, "gone", pr)
    BY <1>1, <1>4 DEF Acquire, Planes, WithPhase
  <2>2. pr \in {None, p.promise}
    OBVIOUS
  <2> HIDE DEF p, q, pr
  <2>3. Keeps(p, q) /\ q.stream = p.stream
    BY <1>1, <2>1, <2>2, AdvancedKeeps
  <2>4. SameEnds(p, q)
    BY <1>1, <2>1, <2>2, AdvancedGood
  <2>5. environment = {} =>
          /\ ~peer.up => q.detached \/ q.lost
          /\ p.detached => q.detached
          /\ Freed(p, q)
    BY <1>1, <2>3, <2>4 DEF SameEnds, Freed, Tidy
  <2> QED
    BY <1>2, <2>3, <2>5, KeepingStep DEF p, q
<1> QED
  BY <1>3, <1>4

\* A method that keeps the ends of the plane and the stream it holds.
LEMMA SameEndsLedger ==
  ASSUME IInv, Ledger, environment' = environment, peer' = peer, usedOn' = usedOn,
         hub' \subseteq hub, NEW q, plane' = q, Keeps(plane, q), SameEnds(plane, q),
         q.stream = plane.stream
  PROVE  Ledger'
<1>1. environment = {} =>
        /\ ~peer.up => q.detached \/ q.lost
        /\ plane.detached => q.detached
        /\ plane.id \in hub' => Freed(plane, q)
  BY LedgerFacts DEF SameEnds, Freed, Tidy
<1> QED
  BY <1>1, KeepingStep

LEMMA AttachAnsweredLedger ==
  ASSUME IInv, Ledger, NEW a \in Attachments, AttachAnswered(a) PROVE Ledger'
<1> DEFINE p == plane
           q == plane'
           ph == IF p.streams[a].live THEN "reserved" ELSE "gone"
           pr == p.promise
<1>1. Good(p) /\ Sized(p) /\ p.streams[a].phase = "written" /\ p \in Planes
  BY LedgerFacts DEF AttachAnswered
<1>2. environment' = environment /\ peer' = peer /\ usedOn' = usedOn /\ hub' = hub
  BY DEF AttachAnswered, PeerRests
<1>3. q = [p EXCEPT !.streams[a].phase = ph]
  BY DEF AttachAnswered
<1>4. q = WithPhase(p, a, ph, pr)
  BY <1>1, <1>3 DEF Planes, WithPhase
<1>5. ph \in {"reserved", "open", "gone"} /\ pr \in {None, p.promise}
      /\ (ph # "gone" => p.streams[a].live /\ p.streams[a].phase # "acquiring")
  BY <1>1
<1> HIDE DEF p, q, ph, pr
<1>6. Keeps(p, q) /\ SameEnds(p, q) /\ q.stream = p.stream
  BY <1>1, <1>4, <1>5, AdvancedKeeps, AdvancedGood
<1> QED
  BY <1>2, <1>6, SameEndsLedger DEF p, q

LEMMA ChannelAdmittedLedger ==
  ASSUME IInv, Ledger, NEW a \in Attachments, ChannelAdmitted(a) PROVE Ledger'
<1> DEFINE p == plane
           q == plane'
           pr == IF p.promise = a THEN None ELSE p.promise
<1>1. Good(p) /\ Sized(p) /\ p.streams[a].phase = "reserved" /\ p \in Planes
  BY LedgerFacts DEF ChannelAdmitted
<1>2. environment' = environment /\ peer' = peer /\ usedOn' = usedOn /\ hub' = hub
  BY DEF ChannelAdmitted, PeerRests
<1>3. q = WithPhase(p, a, "open", pr)
  BY <1>1 DEF ChannelAdmitted, Planes, WithPhase
<1>4. pr \in {None, p.promise}
  OBVIOUS
<1> HIDE DEF p, q, pr
<1>5. p.streams[a].live /\ p.streams[a].phase # "acquiring"
  BY <1>1 DEF Good, Core, Delivers
<1>6. Keeps(p, q) /\ SameEnds(p, q) /\ q.stream = p.stream
  BY <1>1, <1>3, <1>4, <1>5, AdvancedKeeps, AdvancedGood
<1> QED
  BY <1>2, <1>6, SameEndsLedger DEF p, q

LEMMA AttachFailsLedger ==
  ASSUME IInv, Ledger, NEW a \in Attachments, AttachFails(a) PROVE Ledger'
<1> DEFINE p == plane
           q == plane'
<1>1. Good(p) /\ Sized(p) /\ p.streams[a].phase \in {"written", "reserved"}
  BY LedgerFacts DEF AttachFails
<1>2. /\ environment' = environment /\ peer' = peer /\ usedOn' = usedOn /\ hub' \subseteq hub
      /\ q = Rejected(p, a)
  BY DEF AttachFails
<1> HIDE DEF p, q
<1>3. NotInLine(p, a)
  <2>1. InLine(p.outbox, p.streams)
    BY <1>1 DEF Good, Core
  <2> SUFFICES ASSUME NEW i \in 1 .. Len(p.outbox), p.outbox[i] = [op |-> "attach", n |-> a]
               PROVE  FALSE
    BY DEF NotInLine
  <2>2. p.outbox[i].op = "attach" /\ p.outbox[i].n = a
    OBVIOUS
  <2> QED
    BY <1>1, <2>1, <2>2 DEF InLine
<1>4. Keeps(p, q) /\ SameEnds(p, q) /\ q.stream = p.stream
  BY <1>1, <1>2, <1>3, RejectedKeeps, RejectedGood
<1> QED
  BY <1>2, <1>4, SameEndsLedger DEF p, q

LEMMA ResumeLedger == ASSUME IInv, Ledger, Resume PROVE Ledger'
<1> DEFINE p == plane
           n == p.resuming - 1
           b == [p EXCEPT !.resuming = n]
           q == EnsureAttached(b, TRUE)
<1>1. /\ Core(p) /\ Sized(p) /\ p \in Planes /\ p.resuming > 0
      /\ environment = {} => Quiet(p, peer.up) /\ Tidy(peer, p, hub, usedOn)
  BY LedgerFacts DEF Resume
<1>2. /\ plane' = q /\ environment' = environment /\ peer' = peer /\ usedOn' = usedOn
      /\ hub' = hub /\ q.last <= MaxAttach
  BY <1>1 DEF Resume, PeerRests, Bounded, Planes
<1>3. n \in Nat /\ n <= p.resuming
  BY <1>1, SizedNumbers
<1> HIDE DEF p, n
<1>4. b \in Planes
  BY <1>1, <1>3, Zenon DEF Planes
<1>5. /\ SameRoute(p, b) /\ b.detachSentFor = p.detachSentFor /\ b.id = p.id
      /\ b.minted = p.minted /\ b.recoveries = p.recoveries /\ b.abandoned = p.abandoned
      /\ b.lost = p.lost /\ b.detached = p.detached /\ b.resuming = n
  BY <1>1 DEF Planes, SameRoute
<1> HIDE DEF b
<1>6. Keeps(p, b)
  <2>1. /\ b.streams = p.streams /\ b.outbox = p.outbox /\ b.id = p.id /\ b.minted = p.minted
        /\ b.recoveries <= 1 /\ b.resuming <= p.resuming /\ b.abandoned.id <= p.minted
        /\ (b.abandoned.sent => b.abandoned.id # None) /\ SameHold(p, b)
    BY <1>1, <1>3, <1>5, SizedNumbers DEF SameRoute, Sized, SameHold
  <2> QED
    BY <1>1, <1>4, <2>1, RelabelledKeeps
<1>7. Core(b) /\ Sized(b)
  BY <1>1, <1>4, <1>5, <1>6, RelabelledCore DEF Keeps, Onward
<1>8. Keeps(b, q) /\ Freed(b, q)
  BY <1>2, <1>7, EnsureAttachedKeeps
<1>9. SameEnds(b, q)
  BY <1>2, <1>7, EnsureAttachedCore
<1> HIDE DEF q
<1>10. Keeps(p, q) /\ Freed(p, q)
  BY <1>1, <1>5, <1>6, <1>8, KeepsTwice DEF SameRoute, Freed
<1>11. environment = {} =>
         /\ ~peer.up => q.detached \/ q.lost
         /\ p.detached => q.detached
  BY <1>1, <1>5, <1>9 DEF SameEnds, Tidy
<1> QED
  BY <1>2, <1>10, <1>11, KeepingStep DEF p

LEMMA ScreenRestoredLedger ==
  ASSUME IInv, Ledger, NEW a \in Attachments, ScreenRestored(a) PROVE Ledger'
<1> DEFINE p == plane
           q == plane'
           u == [p.streams[a] EXCEPT !.restored = TRUE]
           st == [p.streams EXCEPT ![a] = u]
<1>1. Sized(p) /\ p \in Planes
  BY LedgerFacts
<1>2. environment' = environment /\ peer' = peer /\ usedOn' = usedOn /\ hub' = hub
  BY DEF ScreenRestored, PeerRests
<1>3. p.streams \in Streams /\ p.streams[a] \in StreamTypes
  BY <1>1 DEF Planes, Streams
<1>4. q = [p EXCEPT !.streams = st, !.status = "attached"]
  BY <1>1, <1>3 DEF ScreenRestored, Planes, Streams
<1> HIDE DEF p, q
<1>5. u \in StreamTypes
  <2>1. TRUE \in BOOLEAN
    OBVIOUS
  <2> QED
    BY <1>3, <2>1, Zenon DEF StreamTypes
<1>6. /\ u.phase = p.streams[a].phase /\ u.live = p.streams[a].live
      /\ u.id = p.streams[a].id /\ u.sentOn = p.streams[a].sentOn
  BY <1>3 DEF StreamTypes
<1>7. st \in Streams /\ st[a] = u /\ \A c \in Attachments : c # a => st[c] = p.streams[c]
  BY <1>3, <1>5, Zenon DEF Streams
<1> HIDE DEF u, st
<1>8. q \in Planes
  <2>1. "attached" \in {"attaching", "attached", "failed"}
    OBVIOUS
  <2> QED
    BY <1>1, <1>4, <1>7, <2>1, Zenon DEF Planes
<1>9. /\ q.streams = st /\ q.stream = p.stream /\ q.outbox = p.outbox
      /\ q.detachSentFor = p.detachSentFor /\ SameNumbers(p, q) /\ SameEnds(p, q)
  BY <1>1, <1>4 DEF Planes, SameNumbers, SameEnds
<1>10. \A b \in Attachments :
         /\ q.streams[b].id = p.streams[b].id /\ q.streams[b].sentOn = p.streams[b].sentOn
         /\ q.streams[b].live => p.streams[b].live
         /\ p.streams[b].phase = "gone" => q.streams[b].phase = "gone"
  BY <1>6, <1>7, <1>9
<1>11. Onward(p, q) /\ q.minted = p.minted
  BY <1>1, <1>8, <1>9, <1>10, ChangedOnward
<1>12. Keeps(p, q)
  BY <1>9, <1>11 DEF Keeps, LineKept, DetachAhead, SameHold
<1> QED
  BY <1>2, <1>9, <1>12, SameEndsLedger DEF p, q

LEMMA ConnectFailsLedger == ASSUME IInv, Ledger, ConnectFails PROVE Ledger'
<1> DEFINE p == plane
           q == plane'
<1>1. /\ Good(p) /\ Sized(p) /\ Counted(peer, p, hub, usedOn)
      /\ environment = {} => Tidy(peer, p, hub, usedOn)
  BY LedgerFacts
<1>2. /\ environment' = environment /\ peer' = peer /\ usedOn' = usedOn /\ hub' = hub
      /\ q = FailPending(p) /\ ~peer.up
  BY DEF ConnectFails, PeerRests
<1> HIDE DEF p, q
<1>3. /\ Onward(p, q) /\ q.minted = p.minted /\ q.stream = p.stream
      /\ q.detachSentFor = p.detachSentFor
  BY <1>1, <1>2, FailPendingOnward
<1>4. SameEnds(p, q)
  BY <1>1, <1>2, FailPendingGood
<1>5. environment = {} =>
        /\ ~peer.up => q.detached \/ q.lost
        /\ p.detached => q.detached
        /\ \A id \in hub' : DetachAhead(p, id) => DetachAhead(q, id)
        /\ p.stream # None /\ p.id \in hub' =>
             (q.stream # None /\ q.id = p.id) \/ DetachAhead(q, p.id)
        /\ q.stream # None => q.detachSentFor.id # q.id
  BY <1>1, <1>2, <1>3, <1>4 DEF SameEnds, Tidy
<1> QED
  BY <1>2, <1>3, <1>5, PlaneStep DEF p, q

\* recoverRoute: the fresh id is that of the attachment whose channel was closed.
LEMMA ProgressTimesOutLedger ==
  ASSUME IInv, Ledger, NEW a \in Attachments, ProgressTimesOut(a) PROVE Ledger'
<1> DEFINE p == plane
           q == plane'
<1>1. /\ Good(p) /\ Core(p) /\ Sized(p) /\ p.stream = a /\ p.streams[a].phase = "open"
      /\ Counted(peer, p, hub, usedOn) /\ peer.up \in BOOLEAN /\ p.detached \in BOOLEAN
      /\ environment = {} => Tidy(peer, p, hub, usedOn)
  BY LedgerFacts DEF ProgressTimesOut
<1>2. /\ environment' = environment /\ peer' = peer /\ usedOn' = usedOn /\ hub' = hub
      /\ q = RecoverRoute(p) /\ q.last <= MaxAttach
  BY DEF ProgressTimesOut, PeerRests, Bounded
<1> HIDE DEF p, q
<1>3. /\ Keeps(p, q) \/ Mints(p, q)
      /\ p.detachSentFor.id # p.id => Freed(p, q)
      /\ Ends(p, q) /\ q.stream = None
  BY <1>1, <1>2, RecoverRouteKeeps
<1>4. q.detached = p.detached /\ q.lost = p.lost
  BY <1>1, <1>2, RecoverRouteGood
<1>5. Onward(p, q) /\ LineKept(p, q) /\ (q.minted = p.minted \/ q.minted = p.minted + 1)
  BY <1>3 DEF Keeps, Mints
<1>6. q.streams[a].phase = "gone"
  BY <1>1, <1>3, Numbers DEF Ends
<1>7. Counted(peer, q, hub, usedOn)
  BY <1>1, <1>5, <1>6, CountedAfter
<1>8. \A id \in hub : id \in Nat
  BY <1>1, HubNumbers
<1>9. ASSUME environment = {} PROVE Tidy(peer, q, hub, usedOn)
  <2>1. /\ ~peer.up => q.detached \/ q.lost
        /\ p.detached => q.detached
        /\ \A id \in hub : DetachAhead(p, id) => DetachAhead(q, id)
        /\ p.stream # None /\ p.id \in hub =>
             (q.stream # None /\ q.id = p.id) \/ DetachAhead(q, p.id)
        /\ q.stream # None => q.detachSentFor.id # q.id
    BY <1>1, <1>3, <1>4, <1>5, <1>8, <1>9 DEF Tidy, LineKept, Freed
  <2> QED
    BY <1>1, <1>5, <1>7, <1>9, <2>1, TidyAfter
<1> QED
  BY <1>2, <1>7, <1>9 DEF Ledger, q

LEMMA HubClosesRouteLedger ==
  ASSUME IInv, Ledger, NEW a \in Attachments, HubClosesRoute(a) PROVE Ledger'
<1> DEFINE p == plane
           q == plane'
           b == [p EXCEPT !.status = "failed"]
           c == Abandoned(b)
<1>1. /\ Good(p) /\ Core(p) /\ Sized(p) /\ p \in Planes
      /\ environment = {} => Tidy(peer, p, hub, usedOn)
  BY LedgerFacts
<1>2. /\ environment' = environment /\ peer' = peer /\ usedOn' = usedOn
      /\ hub' = hub \ {p.id} /\ (q = CloseStream(b) \/ q = Reset(c))
  BY DEF HubClosesRoute
<1> HIDE DEF p, q
<1>3. "failed" \in {"attaching", "attached", "failed"} /\ b = [p EXCEPT !.status = "failed"]
  OBVIOUS
<1>4. b \in Planes
  BY <1>1, <1>3, Zenon DEF Planes
<1>5. SameRoute(p, b) /\ SameNumbers(p, b) /\ b.detachSentFor = p.detachSentFor
  BY <1>1 DEF Planes, SameRoute, SameNumbers
<1> HIDE DEF b
<1>6. Good(b) /\ SameEnds(p, b) /\ Core(b)
  BY <1>1, <1>3, StatusGood DEF Good
<1>7. Keeps(p, b)
  <2>1. /\ b.streams = p.streams /\ b.outbox = p.outbox /\ b.id = p.id /\ b.minted = p.minted
        /\ b.recoveries <= 1 /\ b.resuming <= p.resuming /\ b.abandoned.id <= p.minted
        /\ (b.abandoned.sent => b.abandoned.id # None) /\ SameHold(p, b)
    BY <1>1, <1>5, SizedNumbers DEF SameRoute, SameNumbers, Sized, SameHold
  <2> QED
    BY <1>1, <1>4, <2>1, RelabelledKeeps
<1>8. Sized(b)
  BY <1>7 DEF Keeps, Onward
<1>9. Keeps(b, q) /\ SameEnds(b, q)
  <2>1. CASE q = CloseStream(b)
    BY <1>6, <1>8, <2>1, CloseStreamKeeps, CloseStreamCore
  <2>2. CASE q = Reset(c)
    <3>1. Keeps(b, c) /\ Core(c) /\ Silent(c) /\ SameEnds(b, c)
      BY <1>6, <1>8, AbandonedKeeps, AbandonedCore
    <3> HIDE DEF c
    <3>2. Sized(c)
      BY <3>1 DEF Keeps, Onward
    <3>3. Keeps(c, q) /\ SameEnds(c, q)
      BY <2>2, <3>1, <3>2, ResetKeeps, ResetCore
    <3> QED
      BY <1>8, <3>1, <3>3, KeepsTwice DEF SameEnds
  <2> QED
    BY <1>2, <2>1, <2>2
<1>10. Keeps(p, q)
  BY <1>1, <1>7, <1>9, KeepsTwice
<1>11. environment = {} =>
         /\ ~peer.up => q.detached \/ q.lost
         /\ p.detached => q.detached
         /\ p.id \in hub' => Freed(p, q)
  BY <1>1, <1>2, <1>6, <1>9 DEF SameEnds, Tidy
<1> QED
  BY <1>2, <1>10, <1>11, KeepingStep DEF p, q

\* A closed channel is a loss of its route: one id for the attachment that is over.
LEMMA ChannelClosesLedger ==
  ASSUME IInv, Ledger, NEW a \in Attachments, ChannelCloses(a) PROVE Ledger'
<1> DEFINE p == plane
           q == plane'
           b == [p EXCEPT !.streams[a].phase = "gone"]
           l == LoseTransport(b)
<1>1. /\ Good(p) /\ Sized(p) /\ p \in Planes /\ Counted(peer, p, hub, usedOn)
      /\ p.streams[a].phase = "open" /\ p.streams[a].live /\ p.stream = a
      /\ peer.up \in BOOLEAN /\ p.detached \in BOOLEAN
      /\ environment = {} => /\ Quiet(p, peer.up) /\ OfPeer(p, peer.up, peer.n)
                             /\ Tidy(peer, p, hub, usedOn)
  <2>1. p.streams[a].phase = "open"
    BY DEF ChannelCloses
  <2> QED
    BY <2>1, LedgerFacts DEF Core, Delivers
<1>2. /\ environment' = environment /\ peer' = peer /\ usedOn' = usedOn
      /\ hub' = hub \ {p.streams[a].id}
      /\ q = IF b.streams[a].id = b.id /\ ~b.lost THEN RecoverTransport(l) ELSE b
      /\ q.last <= MaxAttach
  BY DEF ChannelCloses, Bounded
<1>3. b = WithPhase(p, a, "gone", p.promise)
  BY <1>1 DEF Planes, WithPhase
<1> HIDE DEF p, q, b
<1>4. /\ Keeps(p, b) /\ b.stream = p.stream /\ b.streams[a].phase = "gone"
      /\ Good(b) /\ SameEnds(p, b) /\ b.streams[a].id = p.streams[a].id
  BY <1>1, <1>3, AdvancedKeeps, AdvancedGood
<1>5. Sized(b) /\ Onward(p, b) /\ b.minted = p.minted
  BY <1>4 DEF Keeps, Onward
<1>6. Keeps(b, l) /\ Good(l) /\ l.detached = b.detached
      /\ (~b.detached /\ ~b.lost => NoneAttaching(l))
  BY <1>4, <1>5, LoseTransportKeeps, LoseTransportGood
<1>7. Sized(l) /\ Onward(b, l) /\ l.minted = b.minted /\ LineKept(b, l)
  BY <1>6 DEF Keeps, Onward
<1> HIDE DEF l
<1>8. CASE q = b
  <2>1. environment = {} =>
          /\ ~peer.up => q.detached \/ q.lost
          /\ p.detached => q.detached
          /\ p.id \in hub' => Freed(p, q)
    BY <1>1, <1>4, <1>8 DEF SameEnds, Tidy, Freed
  <2> QED
    BY <1>2, <1>4, <1>8, <2>1, KeepingStep DEF p, q
<1>9. CASE q = RecoverTransport(l) /\ ~b.lost /\ b.streams[a].id = b.id
  <2>1. /\ Onward(l, q) /\ (q.minted = l.minted \/ q.minted = l.minted + 1)
        /\ LineKept(l, q)
    <3>1. q.last <= MaxAttach
      BY <1>2
    <3>2. IF l.detached \/ ~l.lost \/ ~l.listening THEN q = l ELSE Mints(l, q)
      BY <1>6, <1>7, <1>9, <3>1, RecoverTransportMints
    <3>3. l.minted \in Nat
      BY <1>7, SizedNumbers
    <3> QED
      BY <1>7, <3>2, <3>3 DEF Mints, Onward, LineKept
  <2>2. q.stream = l.stream /\ q.detached = l.detached
    BY <1>2, <1>6, <1>9, RecoverTransportGood
  <2>3. Onward(p, l)
    BY <1>1, <1>5, <1>7, OnwardTwice
  <2>4. Onward(p, q)
    BY <1>1, <2>1, <2>3, OnwardTwice
  <2>5. q.streams[a].phase = "gone" /\ p.streams[a].phase # "gone"
    BY <1>1, <1>4, <1>7, <2>1 DEF Onward
  <2>6. Counted(peer, q, hub', usedOn)
    <3>1. q.minted = p.minted \/ q.minted = p.minted + 1
      BY <1>5, <1>7, <2>1
    <3> QED
      BY <1>1, <1>2, <2>4, <2>5, <3>1, CountedAfter
  <2>7. \A id \in hub : id \in Nat
    BY <1>1, HubNumbers
  <2>8. ASSUME environment = {} PROVE Tidy(peer, q, hub', usedOn)
    <3>1. peer.up
      BY <1>1, <2>8 DEF OfPeer, OnPeer
    <3>2. ~p.detached /\ b.detached = p.detached /\ q.stream = None
      BY <1>1, <1>4, <1>6, <1>9, <2>2, Numbers DEF Good, Held, SameEnds, NoneAttaching
    <3>3. p.id \notin hub'
      BY <1>1, <1>2, <1>4, <1>9 DEF SameEnds
    <3>4. LineKept(p, b)
      BY <1>4 DEF Keeps
    <3>5. \A id \in hub' : DetachAhead(p, id) => DetachAhead(q, id)
      BY <1>2, <1>7, <2>1, <2>7, <3>4 DEF LineKept
    <3>6. /\ Tidy(peer, p, hub, usedOn) /\ hub' \subseteq hub
      BY <1>1, <1>2, <2>8
    <3> QED
      BY <1>1, <2>4, <2>6, <3>1, <3>2, <3>3, <3>5, <3>6, TidyAfter
  <2> QED
    BY <1>2, <2>6, <2>8 DEF Ledger, q
<1> QED
  BY <1>2, <1>8, <1>9

\* The next request is written: a Detach ends what it names, an Attach gives the Hub the
\* stream the plane holds.
LEMMA WriteLedger == ASSUME IInv, Ledger, Write PROVE Ledger'
<1> DEFINE p == plane
           q == plane'
           r == Head(p.outbox)
           b == [p EXCEPT !.outbox = Tail(@)]
           id == p.streams[r.n].id
<1>1. /\ Good(p) /\ Sized(p) /\ Counted(peer, p, hub, usedOn) /\ p.outbox # <<>> /\ peer.up
      /\ peer.n \in Nat /\ p.detached \in BOOLEAN /\ peer.up \in BOOLEAN
      /\ environment = {} => Quiet(p, peer.up) /\ Tidy(peer, p, hub, usedOn)
  BY LedgerFacts DEF Write
<1>2. environment' = environment /\ peer' = peer
  BY DEF Write
<1>3. \/ r.op = "detach" /\ q = b /\ hub' = hub \ {r.n} /\ usedOn' = usedOn
      \/ /\ r.op = "attach" /\ p.streams[r.n].live /\ q = WithWritten(b, r.n, peer.n)
         /\ hub' = hub \cup {id}
         /\ usedOn' = [usedOn EXCEPT ![id] = IF @ = None THEN peer.n ELSE @]
      \/ r.op = "attach" /\ q = Rejected(b, r.n) /\ hub' = hub /\ usedOn' = usedOn
  BY DEF Write, WithWritten
<1> HIDE DEF p, q, b
<1>4. b = [p EXCEPT !.outbox = Tail(@)]
  BY DEF b
<1>5. /\ Good(b) /\ SameEnds(p, b) /\ b.stream = p.stream /\ b.streams = p.streams
      /\ r.op = "attach" =>
           /\ r.n \in Attachments /\ p.streams[r.n].phase = "queued"
           /\ NotInLine(b, r.n)
  BY <1>1, <1>4, PoppedGood
<1>6. /\ Onward(p, b) /\ b.minted = p.minted /\ b.detachSentFor = p.detachSentFor
      /\ r \in Requests
      /\ \A i \in Nat : DetachAhead(p, i) =>
           DetachAhead(b, i) \/ r = [op |-> "detach", n |-> i]
  BY <1>1, <1>4, PoppedOnward
<1> HIDE DEF r, id
<1>7. Sized(b) /\ b.id = p.id /\ p.id = p.minted /\ p.minted \in Nat
  BY <1>1, <1>6, SizedNumbers DEF Onward, Sized
<1>8. \A i \in hub : i \in Nat
  BY <1>1, HubNumbers
<1>9. CASE r.op = "detach" /\ q = b /\ hub' = hub \ {r.n} /\ usedOn' = usedOn
  <2>1. \A i \in hub' : DetachAhead(p, i) => DetachAhead(q, i)
    <3> SUFFICES ASSUME NEW i \in hub', DetachAhead(p, i)
                 PROVE  DetachAhead(q, i)
      OBVIOUS
    <3>1. i \in Nat /\ i # r.n
      BY <1>8, <1>9
    <3> QED
      BY <1>6, <1>9, <3>1
  <2>2. environment = {} =>
          /\ ~peer.up => q.detached \/ q.lost
          /\ p.detached => q.detached
          /\ \A i \in hub' : DetachAhead(p, i) => DetachAhead(q, i)
          /\ p.stream # None /\ p.id \in hub' =>
               (q.stream # None /\ q.id = p.id) \/ DetachAhead(q, p.id)
          /\ q.stream # None => q.detachSentFor.id # q.id
    BY <1>1, <1>5, <1>6, <1>7, <1>9, <2>1 DEF SameEnds, Tidy
  <2> QED
    BY <1>2, <1>6, <1>9, <2>2, PlaneStep DEF p, q
<1>10. CASE r.op = "attach" /\ q = Rejected(b, r.n) /\ hub' = hub /\ usedOn' = usedOn
  <2>1. /\ r.n \in Attachments /\ b.streams[r.n].phase = "queued"
        /\ NotInLine(b, r.n)
    BY <1>5, <1>10
  <2>2. Keeps(b, q) /\ q.stream = b.stream /\ q.detachSentFor = b.detachSentFor
        /\ q.outbox = b.outbox
    BY <1>5, <1>7, <1>10, <2>1, RejectedKeeps
  <2>3. SameEnds(b, q)
    BY <1>5, <1>10, <2>1, RejectedGood
  <2>4. Onward(p, q) /\ q.minted = p.minted
    BY <1>1, <1>6, <2>2, OnwardTwice DEF Keeps
  <2>5. \A i \in hub' : DetachAhead(p, i) => DetachAhead(q, i)
    <3> SUFFICES ASSUME NEW i \in hub', DetachAhead(p, i)
                 PROVE  DetachAhead(q, i)
      OBVIOUS
    <3>1. i \in Nat /\ r # [op |-> "detach", n |-> i]
      BY <1>8, <1>10
    <3>2. DetachAhead(b, i)
      BY <1>6, <3>1
    <3> QED
      BY <2>2, <3>2 DEF DetachAhead
  <2>6. environment = {} =>
          /\ ~peer.up => q.detached \/ q.lost
          /\ p.detached => q.detached
          /\ \A i \in hub' : DetachAhead(p, i) => DetachAhead(q, i)
          /\ p.stream # None /\ p.id \in hub' =>
               (q.stream # None /\ q.id = p.id) \/ DetachAhead(q, p.id)
          /\ q.stream # None => q.detachSentFor.id # q.id
    BY <1>1, <1>5, <1>6, <1>7, <2>2, <2>3, <2>5 DEF SameEnds, Tidy
  <2> QED
    BY <1>2, <1>10, <2>4, <2>6, PlaneStep DEF p, q
<1>11. CASE /\ r.op = "attach" /\ p.streams[r.n].live /\ q = WithWritten(b, r.n, peer.n)
            /\ hub' = hub \cup {id}
            /\ usedOn' = [usedOn EXCEPT ![id] = IF @ = None THEN peer.n ELSE @]
  <2>1. /\ r.n \in Attachments /\ b.streams[r.n].phase = "queued"
        /\ NotInLine(b, r.n)
    BY <1>5, <1>11
  <2>2. /\ Sized(q) /\ SameNumbers(b, q) /\ q.stream = b.stream /\ q.outbox = b.outbox
        /\ q.detachSentFor = b.detachSentFor
        /\ q.streams[r.n].sentOn = peer.n /\ q.streams[r.n].id = id
        /\ \A c \in Attachments : c # r.n => q.streams[c] = p.streams[c]
    <3>1. q = WithWritten(b, r.n, peer.n)
      BY <1>11
    <3> QED
      BY <1>1, <1>5, <1>7, <2>1, <3>1, WrittenSized DEF id
  <2>3. /\ SameEnds(b, q)
        /\ \A c \in Attachments : p.streams[c].phase = "gone" => q.streams[c].phase = "gone"
    <3>1. q = WithWritten(b, r.n, peer.n)
      BY <1>11
    <3>2. SameEnds(b, q)
      BY <1>1, <1>5, <2>1, <3>1, WrittenGood
    <3> QED
      BY <1>5, <2>1, <2>2, <3>2
  <2>4. /\ p.minted \in Ids /\ 1 .. p.minted \subseteq Ids /\ q.minted = p.minted
        /\ q.id = p.id
    BY <1>1, <1>6, <1>7, <2>2, MintedIds DEF SameNumbers
  <2>5. id \in 1 .. p.minted
    <3>1. id \in Nat /\ id <= p.minted /\ id # None
      <4>1. p.streams[r.n] \in StreamTypes
        BY <1>1, <2>1, SizedNumbers
      <4> QED
        BY <1>1, <1>11, <2>1, <4>1 DEF Sized, StreamTypes, id
    <3> QED
      BY <1>7, <3>1, Numbers
  <2>6. /\ usedOn' \in [Ids -> 0 .. peer.n]
        /\ usedOn'[id] = IF usedOn[id] = None THEN peer.n ELSE usedOn[id]
        /\ \A i \in Ids : i # id => usedOn'[i] = usedOn[i]
        /\ \A i \in Ids : usedOn[i] # None => usedOn'[i] = usedOn[i]
    <3>1. usedOn \in [Ids -> 0 .. peer.n] /\ id \in Ids /\ peer.n \in 0 .. peer.n
      BY <1>1, <2>4, <2>5 DEF Counted
    <3> QED
      BY <1>11, <3>1
  <2>7. Counted(peer, q, hub', usedOn')
    <3>1. q.minted <= peer.n + Cardinality(Gone(q))
      <4> DEFINE g == Cardinality(Gone(p))
                 k == Cardinality(Gone(q))
      <4>1. Gone(p) = Gone(q)
        <5>1. q.streams[r.n].phase = "written"
          <6>1. b.streams \in Streams /\ b \in Planes /\ b.streams[r.n] \in StreamTypes
            BY <1>7, <2>1, SizedNumbers DEF Sized
          <6> QED
            BY <1>11, <2>1, <6>1 DEF WithWritten, Planes, Streams, StreamTypes
        <5> QED
          BY <2>1, <2>2, <2>3, <5>1 DEF Gone
      <4>2. p.minted <= peer.n + g
        BY <1>1 DEF Counted
      <4> QED
        BY <2>4, <4>1, <4>2
    <3>2. \A c \in Attachments :
            q.streams[c].sentOn <= peer.n /\ (q.streams[c].sentOn # None => q.streams[c].id # None)
      <4>1. id # None
        BY <1>7, <2>5, Numbers
      <4> QED
        BY <1>1, <2>2, <4>1 DEF Counted
    <3>3. hub' \subseteq 1 .. q.minted
      BY <1>1, <1>11, <2>4, <2>5 DEF Counted
    <3> QED
      BY <1>1, <2>2, <2>6, <3>1, <3>2, <3>3 DEF Counted
  <2>8. ASSUME environment = {} PROVE Tidy(peer, q, hub', usedOn')
    <3>1. p.stream = r.n /\ p.stream # None /\ ~p.detached /\ id = p.id
      <4>1. p.stream = r.n /\ r.n # None
        BY <1>1, <1>5, <1>11, <2>1, Numbers DEF Good, Core, Delivers
      <4> QED
        BY <1>1, <2>8, <4>1 DEF Good, Held, Quiet, id
    <3>2. Tidy(peer, p, hub, usedOn)
      BY <1>1, <2>8
    <3>3. usedOn'[id] = peer.n
      BY <1>1, <2>6, <3>1, <3>2 DEF Tidy
    <3>4. \A i \in Ids : i > q.minted => usedOn'[i] = None
      BY <1>7, <2>4, <2>5, <2>6, <3>2 DEF Tidy
    <3>5. UsedOnce(q, usedOn')
      <4> SUFFICES ASSUME NEW c \in Attachments, q.streams[c].sentOn # None
                   PROVE  usedOn'[q.streams[c].id] = q.streams[c].sentOn
        BY DEF UsedOnce
      <4>1. CASE c = r.n
        BY <2>2, <3>3, <4>1
      <4>2. CASE c # r.n
        <5>1. q.streams[c] = p.streams[c] /\ usedOn[p.streams[c].id] = p.streams[c].sentOn
          BY <2>2, <3>2, <4>2 DEF Tidy, UsedOnce
        <5>2. p.streams[c].id \in Ids
          <6>1. p.streams[c].id \in Nat /\ p.streams[c].id # 0 /\ p.streams[c].id <= p.minted
            BY <1>1, <2>2, <4>2, SizedNumbers, Numbers DEF Counted, Sized, StreamTypes
          <6> QED
            BY <1>7, <2>4, <6>1
        <5> QED
          BY <2>2, <2>6, <4>2, <5>1, <5>2
      <4> QED
        BY <4>1, <4>2
    <3>6. \A i \in hub' : DetachAhead(q, i) \/ (q.stream # None /\ i = q.id)
      <4> SUFFICES ASSUME NEW i \in hub', i # p.id
                   PROVE  DetachAhead(q, i)
        BY <1>5, <2>2, <2>4, <3>1
      <4>1. i \in hub /\ i \in Nat /\ r # [op |-> "detach", n |-> i]
        BY <1>8, <1>11, <3>1
      <4>2. DetachAhead(p, i)
        BY <3>2, <4>1 DEF Tidy
      <4>3. DetachAhead(b, i)
        BY <1>6, <4>1, <4>2
      <4> QED
        BY <2>2, <4>3 DEF DetachAhead
    <3>7. q.stream # None => q.detachSentFor.id # q.id
      BY <1>5, <1>6, <2>2, <2>4, <3>2 DEF Tidy
    <3>8. usedOn'[q.id] \in {None, peer.n}
      BY <2>4, <3>1, <3>3
    <3> QED
      BY <1>1, <3>4, <3>5, <3>6, <3>7, <3>8 DEF Tidy
  <2> QED
    BY <1>2, <2>7, <2>8 DEF Ledger, q
<1> QED
  BY <1>3, <1>9, <1>10, <1>11

\* A lost peer: what the plane held is over with it, and so is what the Hub held.
LEMMA PeerLostLedger == ASSUME IInv, Ledger, PeerLost PROVE Ledger'
<1> DEFINE p == plane
           q == plane'
           l == LoseTransport(p)
           pe == [peer EXCEPT !.up = FALSE]
<1>1. /\ Good(p) /\ Sized(p) /\ Counted(peer, p, hub, usedOn)
      /\ peer \in [n : Nat, up : BOOLEAN] /\ peer.n < MaxPeers
      /\ p.detached \in BOOLEAN /\ p.lost \in BOOLEAN
      /\ environment = {} => Tidy(peer, p, hub, usedOn)
  BY LedgerFacts DEF PeerLost
<1>2. /\ environment' = environment /\ peer' = pe /\ q = FailPending(l) /\ hub' = {}
      /\ usedOn' = usedOn
  BY DEF PeerLost
<1>3. pe.n = peer.n /\ ~pe.up
  BY <1>1
<1> HIDE DEF p, q, pe
<1>4. Keeps(p, l) /\ Good(l) /\ l.detached = p.detached
  BY <1>1, LoseTransportKeeps, LoseTransportGood
<1>5. Sized(l) /\ Onward(p, l) /\ l.minted = p.minted
  BY <1>4 DEF Keeps, Onward
<1>6. ~p.detached => l.lost
  <2>1. CASE p.lost
    BY <2>1 DEF LoseTransport, l
  <2>2. CASE ~p.lost /\ ~p.detached
    <3> DEFINE k == [p EXCEPT !.lost = TRUE, !.status = "attaching",
                       !.abandoned = [id |-> p.id, att |-> p.att,
                         sent |-> p.stream # None /\ p.streams[p.stream].sentOn # None]]
    <3>1. l = Reset(Abandoned(k))
      BY <2>2 DEF LoseTransport, l
    <3>2. k.lost = TRUE
      BY <1>1 DEF Sized, Planes
    <3> HIDE DEF k
    <3>3. Abandoned(k).lost = k.lost
      BY DEF Abandoned
    <3>4. Reset(Abandoned(k)).lost = Abandoned(k).lost
      BY DEF Reset
    <3> QED
      BY <3>1, <3>2, <3>3, <3>4
  <2> QED
    BY <1>1, <2>1, <2>2
<1> HIDE DEF l
<1>7. /\ Onward(l, q) /\ q.minted = l.minted /\ q.stream = l.stream
      /\ q.detachSentFor = l.detachSentFor
  BY <1>2, <1>4, <1>5, FailPendingOnward
<1>8. SameEnds(l, q)
  BY <1>2, <1>4, FailPendingGood
<1>9. Onward(p, q) /\ q.minted = p.minted
  BY <1>1, <1>5, <1>7, OnwardTwice
<1>10. Counted(peer, q, {}, usedOn)
  BY <1>1, <1>9, CountedAfter
<1>11. Counted(pe, q, {}, usedOn)
  BY <1>1, <1>3, <1>10 DEF Counted
<1>12. ASSUME environment = {} PROVE Tidy(pe, q, {}, usedOn)
  <2>1. \A i \in Ids : i > q.minted => usedOn[i] = None
    BY <1>1, <1>9, <1>12 DEF Tidy
  <2>2. UsedOnce(q, usedOn)
    BY <1>1, <1>9, <1>12 DEF Tidy, UsedOnce, Onward
  <2>3. q.detached \/ q.lost
    BY <1>1, <1>4, <1>6, <1>8 DEF SameEnds
  <2>4. q.stream # None => q.detachSentFor.id # q.id
    <3>1. q.id = p.id
      BY <1>1, <1>9 DEF Onward, Sized
    <3> QED
      BY <1>1, <1>4, <1>7, <1>12, <3>1 DEF Tidy, Keeps, SameHold
  <2> QED
    BY <1>3, <2>1, <2>2, <2>3, <2>4 DEF Tidy
<1> QED
  BY <1>2, <1>11, <1>12 DEF Ledger, q

\* The next peer: the plane that waited for it has an id that was used on no other.
LEMMA PeerRecoversLedger == ASSUME IInv, Ledger, PeerRecovers PROVE Ledger'
<1> DEFINE p == plane
           q == plane'
           pe == [n |-> peer.n + 1, up |-> TRUE]
<1>1. /\ Good(p) /\ Sized(p) /\ Counted(peer, p, hub, usedOn)
      /\ peer \in [n : Nat, up : BOOLEAN] /\ ~peer.up
      /\ p.detached \in BOOLEAN /\ p.lost \in BOOLEAN
      /\ environment = {} => /\ Quiet(p, peer.up) /\ Tidy(peer, p, hub, usedOn)
                             /\ p.listening \/ p.detached
  BY LedgerFacts DEF PeerRecovers
<1>2. /\ environment' = environment /\ peer' = pe /\ q = RecoverTransport(p)
      /\ q.last <= MaxAttach /\ hub' = hub /\ usedOn' = usedOn
  BY DEF PeerRecovers, Bounded
<1>3. /\ pe.n = peer.n + 1 /\ pe.up /\ peer.n \in Nat /\ peer.n < MaxPeers
  BY <1>1 DEF Counted
<1> HIDE DEF p, q, pe
<1>4. /\ IF p.detached \/ ~p.lost \/ ~p.listening THEN q = p ELSE Mints(p, q)
  BY <1>1, <1>2, RecoverTransportMints
<1>5. q.stream = p.stream /\ q.detached = p.detached
  BY <1>1, <1>2, RecoverTransportGood
<1>6. Onward(p, q) /\ (q.minted = p.minted \/ q.minted = p.minted + 1) /\ p.minted \in Nat
  <2>1. p.minted \in Nat
    BY <1>1, SizedNumbers
  <2> QED
    BY <1>1, <1>4, <2>1 DEF Mints, Onward
<1>7. Counted(pe, q, hub, usedOn)
  <2> DEFINE g == Cardinality(Gone(p))
             k == Cardinality(Gone(q))
  <2>1. g \in Nat /\ k \in Nat /\ g <= k /\ p.minted <= peer.n + g
    BY <1>1, <1>6, GoneGrows, Numbers DEF Counted
  <2> HIDE DEF g, k
  <2>2. q.minted <= pe.n + k
    BY <1>3, <1>6, <2>1
  <2>3. hub \subseteq 1 .. q.minted
    BY <1>1, <1>6 DEF Counted
  <2>4. usedOn \in [Ids -> 0 .. pe.n]
    BY <1>1, <1>3 DEF Counted
  <2>5. \A a \in Attachments :
          q.streams[a].sentOn <= pe.n /\ (q.streams[a].sentOn # None => q.streams[a].id # None)
    <3> SUFFICES ASSUME NEW a \in Attachments
                 PROVE  q.streams[a].sentOn <= pe.n
                        /\ (q.streams[a].sentOn # None => q.streams[a].id # None)
      OBVIOUS
    <3>1. q.streams[a].sentOn # None =>
            q.streams[a].sentOn = p.streams[a].sentOn /\ q.streams[a].id = p.streams[a].id
      BY <1>6 DEF Onward
    <3>2. p.streams[a].sentOn \in Nat /\ p.streams[a].sentOn <= peer.n
          /\ (p.streams[a].sentOn # None => p.streams[a].id # None)
      BY <1>1, SizedNumbers DEF Counted, StreamTypes
    <3> QED
      BY <1>3, <3>1, <3>2, Numbers
  <2>6. pe.n \in 1 .. MaxPeers /\ Sized(q)
    BY <1>3, <1>6, Numbers DEF Onward
  <2> QED
    BY <1>3, <2>2, <2>3, <2>4, <2>5, <2>6 DEF Counted, k
<1>8. ASSUME environment = {} PROVE Tidy(pe, q, hub, usedOn)
  <2>1. Tidy(peer, p, hub, usedOn) /\ hub = {} /\ (p.detached \/ p.lost)
    BY <1>1, <1>8 DEF Tidy
  <2>2. p.stream = None
    BY <1>1, <1>8, <2>1 DEF Good, Held, Quiet, NoneAttaching
  <2>3. \A i \in Ids : i > q.minted => usedOn[i] = None
    <3>1. \A i \in Ids : i \in Nat
      BY Numbers DEF Ids
    <3> QED
      BY <1>6, <2>1, <3>1 DEF Tidy
  <2>4. UsedOnce(q, usedOn)
    BY <1>6, <2>1 DEF Tidy, UsedOnce, Onward
  <2>5. ~q.detached => usedOn[q.id] = None
    <3> SUFFICES ASSUME ~q.detached
                 PROVE  usedOn[q.id] = None
      OBVIOUS
    <3>1. Mints(p, q)
      BY <1>1, <1>4, <1>5, <1>8, <2>1
    <3>2. q.id = q.minted /\ q.minted \in Ids
      BY <1>7, MintedIds
    <3>3. q.minted > p.minted
      BY <1>6, <3>1 DEF Mints
    <3> QED
      BY <2>1, <3>2, <3>3 DEF Tidy
  <2> QED
    BY <1>3, <1>5, <2>1, <2>2, <2>3, <2>4, <2>5 DEF Tidy
<1> QED
  BY <1>2, <1>7, <1>8 DEF Ledger, q

LEMMA InitLedger == ASSUME Init PROVE Ledger
<1> DEFINE p == plane
<1>1. peer = [n |-> 1, up |-> TRUE] /\ hub = {} /\ usedOn = [i \in Ids |-> None]
  BY DEF Init
<1>2. p = [id |-> 1, minted |-> 1, att |-> None, last |-> 0, stream |-> None,
           promise |-> None, lost |-> FALSE, abandoned |-> NoLoss, recoveries |-> 0,
           resuming |-> 0, listening |-> FALSE, detached |-> FALSE, status |-> "attaching",
           detachSentFor |-> [id |-> None, att |-> None], outbox |-> <<>>,
           streams |-> [a \in Attachments |-> NoStream]]
  BY DEF Init
<1>3. p \in Planes
  BY InitIInv DEF IInv, Inv, Good, Core
<1> HIDE DEF p
<1>4. /\ p.id = 1 /\ p.minted = 1 /\ p.recoveries = 0 /\ p.resuming = 0 /\ p.stream = None
      /\ p.abandoned = NoLoss /\ p.outbox = <<>> /\ Len(<<>>) = 0
      /\ \A a \in Attachments : p.streams[a] = NoStream
  BY <1>2
<1>5. /\ NoStream.id = None /\ ~NoStream.live /\ NoStream.sentOn = None
      /\ NoLoss.id = None /\ ~NoLoss.sent
  BY DEF NoStream, NoLoss
<1>6. Sized(p)
  BY <1>3, <1>4, <1>5, Numbers DEF Sized
<1>7. Cardinality(Gone(p)) \in Nat
  <2>1. Onward(p, p)
    BY <1>4, <1>6 DEF Onward
  <2> QED
    BY <2>1, GoneGrows, Numbers
<1>8. peer.n = 1 /\ peer.up /\ 1 \in 1 .. MaxPeers /\ None \in 0 .. 1
  BY <1>1, Numbers
<1>9. usedOn \in [Ids -> 0 .. peer.n]
  BY <1>1, <1>8
<1>10. Counted(peer, p, hub, usedOn)
  <2> DEFINE g == Cardinality(Gone(p))
  <2>1. g \in Nat
    BY <1>7
  <2>2. p.minted <= peer.n + g
    <3> HIDE DEF g
    <3> QED
      BY <1>4, <1>8, <2>1
  <2>3. \A a \in Attachments :
          p.streams[a].sentOn <= peer.n /\ (p.streams[a].sentOn # None => p.streams[a].id # None)
    BY <1>4, <1>5, <1>8, Numbers
  <2> QED
    BY <1>1, <1>6, <1>8, <1>9, <2>2, <2>3 DEF Counted
<1>11. Tidy(peer, p, hub, usedOn)
  <2>1. p.id \in Ids
    BY <1>10, MintedIds
  <2> QED
    BY <1>1, <1>4, <1>5, <1>8, <2>1 DEF Tidy, UsedOnce
<1> QED
  BY <1>10, <1>11 DEF Ledger, p

LEMMA NextLedger == ASSUME IInv, Ledger, [Next]_vars PROVE Ledger'
<1>1. CASE Subscribe
  BY <1>1, SubscribeLedger
<1>2. CASE Unsubscribe
  BY <1>2, UnsubscribeLedger
<1>3. CASE Input
  BY <1>3, InputLedger
<1>4. CASE Detach
  BY <1>4, DetachLedger
<1>5. CASE Write
  BY <1>5, WriteLedger
<1>6. CASE Resume
  BY <1>6, ResumeLedger
<1>7. ASSUME NEW a \in Attachments, Acquire(a) PROVE Ledger'
  BY <1>7, AcquireLedger
<1>8. ASSUME NEW a \in Attachments, AttachAnswered(a) PROVE Ledger'
  BY <1>8, AttachAnsweredLedger
<1>9. ASSUME NEW a \in Attachments, ChannelAdmitted(a) PROVE Ledger'
  BY <1>9, ChannelAdmittedLedger
<1>10. ASSUME NEW a \in Attachments, AttachFails(a) PROVE Ledger'
  BY <1>10, AttachFailsLedger
<1>11. ASSUME NEW a \in Attachments, ScreenRestored(a) PROVE Ledger'
  BY <1>11, ScreenRestoredLedger
<1>12. ASSUME NEW a \in Attachments, ProgressTimesOut(a) PROVE Ledger'
  BY <1>12, ProgressTimesOutLedger
<1>13. ASSUME NEW a \in Attachments, HubClosesRoute(a) PROVE Ledger'
  BY <1>13, HubClosesRouteLedger
<1>14. ASSUME NEW a \in Attachments, ChannelCloses(a) PROVE Ledger'
  BY <1>14, ChannelClosesLedger
<1>15. CASE PeerLost
  BY <1>15, PeerLostLedger
<1>16. CASE PeerRecovers
  BY <1>16, PeerRecoversLedger
<1>17. CASE ConnectFails
  BY <1>17, ConnectFailsLedger
<1>18. CASE UNCHANGED vars
  BY <1>18 DEF vars, Ledger
<1> QED
  BY <1>1, <1>2, <1>3, <1>4, <1>5, <1>6, <1>7, <1>8, <1>9, <1>10, <1>11, <1>12, <1>13, <1>14,
     <1>15, <1>16, <1>17, <1>18 DEF Next

\* The ledger holds in every state: every id is accounted for by a peer or by an
\* attachment that is over, and where nothing interferes what the Hub holds is the
\* stream of the plane or about to be detached.
THEOREM LedgerIsKept == Spec => []Ledger
<1>1. Init => Ledger
  BY InitLedger
<1>2. IInv /\ Ledger /\ [Next]_vars => Ledger'
  BY NextLedger
<1> QED
  BY <1>1, <1>2, RouteInvariant, PTL DEF Spec

\* Types; the current id is the last one minted, and no more are minted than peers and
\* attachments there are.
THEOREM TypeCorrect == Spec => []TypeOK
<1>1. IInv /\ Ledger => TypeOK
  <2> SUFFICES ASSUME IInv, Ledger
               PROVE  TypeOK
    OBVIOUS
  <2> DEFINE p == plane
  <2>1. /\ Core(p) /\ Sized(p) /\ p \in Planes /\ Counted(peer, p, hub, usedOn)
        /\ environment \in Environments /\ peer \in [n : Nat, up : BOOLEAN]
    BY LedgerFacts DEF IInv, Inv
  <2>2. /\ p.minted \in Ids /\ p.id = p.minted /\ peer.n \in Nat /\ peer.n <= MaxPeers
        /\ 1 .. p.minted \subseteq Ids
    BY <2>1, MintedIds
  <2> HIDE DEF p
  <2>3. p.minted \in Nat /\ p.minted <= MaxPeers + MaxAttach
    BY <2>2, Numbers DEF Ids
  <2>4. peer \in [n : 1 .. MaxPeers, up : BOOLEAN]
    BY <2>1 DEF Counted
  <2>5. hub \subseteq Ids
    BY <2>1, <2>2 DEF Counted
  <2>6. usedOn \in [Ids -> 0 .. MaxPeers]
    <3>1. 0 .. peer.n \subseteq 0 .. MaxPeers
      BY <2>2, Numbers
    <3> QED
      BY <2>1, <3>1 DEF Counted
  <2>7. /\ p.att \in 0 .. MaxAttach /\ p.last \in 0 .. MaxAttach
        /\ p.stream \in {None, p.att} /\ p.promise \in {None, p.att}
    BY <2>1, Numbers DEF Core, Planes
  <2>8. /\ p.lost \in BOOLEAN /\ p.listening \in BOOLEAN /\ p.detached \in BOOLEAN
        /\ p.status \in {"attaching", "attached", "failed"}
    BY <2>1 DEF Planes
  <2>9. p.recoveries \in 0 .. 1 /\ p.resuming \in 0 .. MaxPeers + MaxAttach
    BY <2>1, <2>3, SizedNumbers, Numbers DEF Sized
  <2>10. p.streams \in [Attachments -> [id : Ids \cup {None}, phase : Phases, live : BOOLEAN,
                           visible : BOOLEAN, sentOn : 0 .. MaxPeers, restored : BOOLEAN]]
    <3>1. p.streams \in Streams
      BY <2>1 DEF Planes
    <3> SUFFICES ASSUME NEW a \in Attachments
                 PROVE  p.streams[a] \in [id : Ids \cup {None}, phase : Phases, live : BOOLEAN,
                           visible : BOOLEAN, sentOn : 0 .. MaxPeers, restored : BOOLEAN]
      BY <3>1 DEF Streams
    <3>2. p.streams[a] \in StreamTypes
      BY <3>1 DEF Streams
    <3>3. p.streams[a].id \in Nat /\ p.streams[a].id <= p.minted
          /\ p.streams[a].sentOn \in Nat /\ p.streams[a].sentOn <= peer.n
      BY <2>1, <3>2 DEF Counted, Sized, StreamTypes
    <3>4. p.streams[a].id \in Ids \cup {None} /\ p.streams[a].sentOn \in 0 .. MaxPeers
      BY <2>2, <2>3, <3>3, Numbers
    <3> QED
      BY <3>2, <3>4, Zenon DEF StreamTypes
  <2>11. p.outbox \in Seq([op : {"attach", "detach"}, n : Ids])
    <3>1. p.outbox \in Seq(Requests) /\ InLine(p.outbox, p.streams)
      BY <2>1 DEF Core, Planes
    <3>2. \A i \in 1 .. Len(p.outbox) : p.outbox[i] \in [op : {"attach", "detach"}, n : Ids]
      <4> SUFFICES ASSUME NEW i \in 1 .. Len(p.outbox)
                   PROVE  p.outbox[i] \in [op : {"attach", "detach"}, n : Ids]
        OBVIOUS
      <4>1. p.outbox[i] \in Requests
        BY <3>1
      <4>2. p.outbox[i].n \in Ids
        <5>1. CASE p.outbox[i].op = "attach"
          <6>1. p.outbox[i].n \in Attachments
            BY <3>1, <5>1 DEF InLine
          <6> QED
            BY <6>1, Numbers DEF Attachments, Ids
        <5>2. CASE p.outbox[i].op = "detach"
          <6>1. p.outbox[i].n \in Nat /\ p.outbox[i].n # 0 /\ p.outbox[i].n <= p.minted
            BY <2>1, <4>1, <5>2 DEF Sized, Requests
          <6> QED
            BY <2>2, <2>3, <6>1
        <5> QED
          BY <4>1, <5>1, <5>2 DEF Requests
      <4> QED
        BY <4>1, <4>2 DEF Requests
    <3> DEFINE T == [op : {"attach", "detach"}, n : Ids]
    <3>3. Len(p.outbox) \in Nat /\ p.outbox = [i \in 1 .. Len(p.outbox) |-> p.outbox[i]]
      BY <3>1
    <3>4. \A i \in 1 .. Len(p.outbox) : p.outbox[i] \in T
      BY <3>2
    <3> HIDE DEF T
    <3>5. p.outbox \in Seq(T)
      BY <3>3, <3>4
    <3> QED
      BY <3>5 DEF T
  <2> QED
    BY <2>1, <2>2, <2>4, <2>5, <2>6, <2>7, <2>8, <2>9, <2>10, <2>11 DEF TypeOK, p
<1> QED
  BY <1>1, RouteInvariant, LedgerIsKept, PTL

\* Over any number of losses, recoveries, timeouts and remounts that nothing interferes
\* with (handleTransportRecovered, recoverRoute, sendDetachRequestOnce): no subscription
\* id is attached over two peers, the stream a plane holds is of the id it accepts, and
\* what a detached plane leaves with the Hub is on its way to be detached.
THEOREM QuietRecovery == Spec => []QuietRecoveryIsClean
<1>1. IInv /\ Ledger => QuietRecoveryIsClean
  <2> SUFFICES ASSUME IInv, Ledger, environment = {}
               PROVE  NewIdOnNewPeer /\ StreamMatchesId /\ DetachReleasesRoute
    BY DEF QuietRecoveryIsClean, Undisturbed
  <2>1. /\ Held(plane) /\ plane \in Planes /\ Quiet(plane, peer.up)
        /\ Tidy(peer, plane, hub, usedOn)
    BY LedgerFacts
  <2>2. NewIdOnNewPeer
    BY <2>1 DEF Tidy, UsedOnce, NewIdOnNewPeer
  <2>3. StreamMatchesId
    BY <2>1 DEF Quiet, StreamMatchesId
  <2>4. DetachReleasesRoute
    <3> SUFFICES ASSUME plane.detached, NEW id \in hub
                 PROVE  \E i \in DOMAIN plane.outbox :
                          plane.outbox[i] = [op |-> "detach", n |-> id]
      BY DEF DetachReleasesRoute
    <3>1. DetachAhead(plane, id)
      BY <2>1 DEF Tidy, Held
    <3>2. DOMAIN plane.outbox = 1 .. Len(plane.outbox)
      BY <2>1 DEF Planes
    <3> QED
      BY <3>1, <3>2 DEF DetachAhead
  <2> QED
    BY <2>2, <2>3, <2>4
<1> QED
  BY <1>1, RouteInvariant, LedgerIsKept, PTL

=============================================================================
