----------------------- MODULE TerminalHydration_proofs -----------------------
(***************************************************************************)
(* The terminal data plane refines OrderedTerminal for every number of     *)
(* attachments, epochs, pages and frames under way.                        *)
(*                                                                         *)
(* The argument is about the line of frames of the current attachment: in  *)
(* each epoch the pieces shown follow each other without a hole, the first *)
(* of them the piece after those the plane has taken, and the epochs open  *)
(* one after the other.                                                    *)
(***************************************************************************)
EXTENDS TerminalHydration, TLAPS

Frames == [kind : Kinds, epoch : 0 .. MaxEpoch, n : Nat]

\* A READY shows the output up to its piece, an OUTPUT one piece.
Shows(f) == f.kind \in {"ready", "output"}

\* The pieces in line q for a plane that accepts epoch e and has taken the output up to
\* tip, in that epoch if taken holds; the session has produced top pieces.  None is older
\* than what was taken, an epoch has one READY before its output, and no piece is left out.
Line(q, e, taken, tip, top) ==
  /\ \A j \in 1 .. Len(q) : Shows(q[j]) =>
       /\ tip <= q[j].n /\ q[j].n <= top
       /\ taken /\ q[j].epoch = e => q[j].kind = "output" /\ tip < q[j].n
  /\ \A j \in 1 .. Len(q) : \A i \in 1 .. j - 1 : Shows(q[i]) /\ Shows(q[j]) =>
       /\ q[i].n <= q[j].n
       /\ q[i].epoch = q[j].epoch => q[j].kind = "output" /\ q[i].n < q[j].n
  /\ \A j \in 1 .. Len(q) : q[j].kind = "output" /\ e <= q[j].epoch =>
       \/ \E i \in 1 .. j - 1 : Shows(q[i]) /\ q[i].epoch = q[j].epoch /\ q[j].n = q[i].n + 1
       \/ taken /\ q[j].epoch = e /\ q[j].n = tip + 1

Opens(f, epoch) ==
  \/ f.kind = "resync" /\ f.epoch = epoch
  \/ f.kind = "attached" /\ epoch = 0

\* The epochs in line q follow e one after the other, each opened before its frames.
Chain(q, e) ==
  /\ \A j \in 1 .. Len(q) : q[j].kind = "resync" =>
       /\ e < q[j].epoch /\ q[j].epoch = q[j].n + 1
       /\ \A i \in 1 .. j - 1 : q[i].epoch < q[j].epoch
       /\ q[j].n = e \/ \E i \in 1 .. j - 1 : Opens(q[i], q[j].n)
  /\ \A j \in 1 .. Len(q) : q[j].kind \in StreamKinds /\ e < q[j].epoch =>
       \E i \in 1 .. j - 1 : Opens(q[i], q[j].epoch)
  /\ \A j \in 1 .. Len(q) : q[j].kind = "attached" => j = 1 /\ e = NoEpoch

\* The last piece of the session is in line or taken while core c serves the route, and
\* after its exit was sent no more come.
Sent(c, q, e, taken, tip) ==
  /\ e <= c.epoch
  /\ \A j \in 1 .. Len(q) : q[j].epoch <= c.epoch
  /\ c.stage # "idle" => e = c.epoch \/ \E i \in 1 .. Len(q) : Opens(q[i], c.epoch)
  /\ c.stage = "attached" =>
       /\ ~(taken /\ e = c.epoch)
       /\ \A j \in 1 .. Len(q) : Shows(q[j]) => q[j].epoch # c.epoch
  /\ c.stage \in {"history", "live"} \/ c.exitSent =>
       \/ \E i \in 1 .. Len(q) : Shows(q[i]) /\ q[i].epoch = c.epoch /\ q[i].n = c.produced
       \/ taken /\ e = c.epoch /\ tip = c.produced
  /\ \A j \in 1 .. Len(q) : q[j].kind = "exit" =>
       /\ c.exitSent /\ q[j].epoch = c.epoch
       /\ \A i \in j .. Len(q) : ~(Shows(q[i]) /\ q[i].epoch = c.epoch)

-----------------------------------------------------------------------------
(* Lines.                                                                  *)

LEMMA TailFacts ==
  ASSUME NEW q \in Seq(Frames), q # <<>>
  PROVE  /\ Tail(q) \in Seq(Frames) /\ Len(q) \in Nat /\ 1 \in 1 .. Len(q)
         /\ Len(Tail(q)) = Len(q) - 1 /\ Len(Tail(q)) \in Nat
         /\ \A i \in 1 .. Len(Tail(q)) : i + 1 \in 1 .. Len(q) /\ Tail(q)[i] = q[i + 1]
         /\ \A i \in 1 .. Len(q) : i # 1 => i - 1 \in 1 .. Len(Tail(q)) /\ q[i] = Tail(q)[i - 1]
         /\ Head(q) = q[1] /\ q[1] \in Frames
         /\ \A i \in 1 .. Len(q) : q[i] \in Frames /\ q[i].epoch \in Nat /\ q[i].n \in Nat
<1>1. \A f \in Frames : f.epoch \in Nat /\ f.n \in Nat
  BY BoundsAssumption DEF Frames
<1>2. \A i \in 1 .. Len(q) : q[i] \in Frames
  OBVIOUS
<1>3. /\ Tail(q) \in Seq(Frames) /\ Len(q) \in Nat /\ 1 \in 1 .. Len(q)
      /\ Len(Tail(q)) = Len(q) - 1 /\ Len(Tail(q)) \in Nat
      /\ \A i \in 1 .. Len(Tail(q)) : i + 1 \in 1 .. Len(q) /\ Tail(q)[i] = q[i + 1]
      /\ \A i \in 1 .. Len(q) : i # 1 => i - 1 \in 1 .. Len(Tail(q)) /\ q[i] = Tail(q)[i - 1]
      /\ Head(q) = q[1] /\ q[1] \in Frames
  OBVIOUS
<1> QED
  BY <1>1, <1>2, <1>3

LEMMA FrameFacts ==
  ASSUME NEW q \in Seq(Frames), NEW i \in 1 .. Len(q)
  PROVE  q[i] \in Frames /\ q[i].epoch \in Nat /\ q[i].n \in Nat
<1>1. \A f \in Frames : f.epoch \in Nat /\ f.n \in Nat
  BY BoundsAssumption DEF Frames
<1>2. q[i] \in Frames
  OBVIOUS
<1> QED
  BY <1>1, <1>2

LEMMA AppendFacts ==
  ASSUME NEW q \in Seq(Frames), NEW x \in Frames
  PROVE  /\ Append(q, x) \in Seq(Frames) /\ Len(q) \in Nat /\ Len(Append(q, x)) = Len(q) + 1
         /\ \A i \in 1 .. Len(q) : Append(q, x)[i] = q[i] /\ q[i] \in Frames
         /\ Append(q, x)[Len(q) + 1] = x
         /\ \A i \in 1 .. Len(Append(q, x)) : i \in 1 .. Len(q) \/ i = Len(q) + 1
OBVIOUS

LEMMA PrefixFacts ==
  ASSUME NEW q \in Seq(Frames), NEW k \in 0 .. Len(q)
  PROVE  /\ SubSeq(q, 1, k) \in Seq(Frames) /\ Len(q) \in Nat /\ Len(SubSeq(q, 1, k)) = k
         /\ \A i \in 1 .. k : i \in 1 .. Len(q) /\ SubSeq(q, 1, k)[i] = q[i]
OBVIOUS

\* A first frame that shows nothing the plane accepts leaves the line.
LEMMA LineDrops ==
  ASSUME NEW q \in Seq(Frames), q # <<>>, NEW e \in Int, NEW taken \in BOOLEAN, NEW tip \in Nat,
         NEW top \in Nat, Line(q, e, taken, tip, top), ~Shows(q[1]) \/ q[1].epoch < e
  PROVE  Line(Tail(q), e, taken, tip, top)
<1> DEFINE t == Tail(q)
<1>1. /\ Len(q) \in Nat /\ 1 \in 1 .. Len(q) /\ Len(t) = Len(q) - 1 /\ Len(t) \in Nat
      /\ \A i \in 1 .. Len(t) : i + 1 \in 1 .. Len(q) /\ t[i] = q[i + 1]
      /\ \A i \in 1 .. Len(q) : i # 1 => i - 1 \in 1 .. Len(t) /\ q[i] = t[i - 1]
      /\ \A i \in 1 .. Len(q) : q[i].epoch \in Nat /\ q[i].n \in Nat
  BY TailFacts
<1> HIDE DEF t
<1>2. ASSUME NEW j \in 1 .. Len(t), Shows(t[j])
      PROVE  /\ tip <= t[j].n /\ t[j].n <= top
             /\ taken /\ t[j].epoch = e => t[j].kind = "output" /\ tip < t[j].n
  <2>1. j + 1 \in 1 .. Len(q) /\ t[j] = q[j + 1]
    BY <1>1
  <2> QED
    BY <1>2, <2>1 DEF Line
<1>3. ASSUME NEW j \in 1 .. Len(t), NEW i \in 1 .. j - 1, Shows(t[i]) /\ Shows(t[j])
      PROVE  /\ t[i].n <= t[j].n
             /\ t[i].epoch = t[j].epoch => t[j].kind = "output" /\ t[i].n < t[j].n
  <2>1. i \in 1 .. Len(t) /\ i + 1 \in 1 .. (j + 1) - 1 /\ j + 1 \in 1 .. Len(q)
    BY <1>1
  <2>2. t[i] = q[i + 1] /\ t[j] = q[j + 1]
    BY <1>1, <2>1
  <2> QED
    BY <1>3, <2>1, <2>2 DEF Line
<1>4. ASSUME NEW j \in 1 .. Len(t), t[j].kind = "output", e <= t[j].epoch
      PROVE  \/ \E i \in 1 .. j - 1 : Shows(t[i]) /\ t[i].epoch = t[j].epoch /\ t[j].n = t[i].n + 1
             \/ taken /\ t[j].epoch = e /\ t[j].n = tip + 1
  <2>1. j + 1 \in 1 .. Len(q) /\ t[j] = q[j + 1] /\ j \in Nat /\ t[j].epoch \in Nat
    BY <1>1, SMTT(30)
  <2>2. CASE taken /\ t[j].epoch = e /\ t[j].n = tip + 1
    BY <2>2
  <2>3. ASSUME NEW i \in 1 .. j, Shows(q[i]), q[i].epoch = t[j].epoch, t[j].n = q[i].n + 1
        PROVE  \E k \in 1 .. j - 1 : Shows(t[k]) /\ t[k].epoch = t[j].epoch /\ t[j].n = t[k].n + 1
    <3>1. i # 1
      BY <1>4, <2>1, <2>3
    <3>2. i - 1 \in 1 .. j - 1 /\ q[i] = t[i - 1]
      BY <1>1, <2>1, <3>1
    <3> QED
      BY <2>3, <3>2
  <2>4. (j + 1) - 1 = j
    BY <2>1
  <2> QED
    BY <1>4, <2>1, <2>2, <2>3, <2>4 DEF Line
<1> QED
  BY <1>2, <1>3, <1>4 DEF Line, t

\* The first frame is the READY of the epoch, or its next piece.
LEMMA LineTakes ==
  ASSUME NEW q \in Seq(Frames), q # <<>>, NEW e \in Int, NEW taken \in BOOLEAN, NEW tip \in Nat,
         NEW top \in Nat, Line(q, e, taken, tip, top), Shows(q[1]), q[1].epoch = e
  PROVE  /\ Line(Tail(q), e, TRUE, q[1].n, top)
         /\ tip <= q[1].n /\ q[1].n <= top
         /\ IF taken THEN q[1].kind = "output" /\ q[1].n = tip + 1 ELSE q[1].kind = "ready"
<1> DEFINE t == Tail(q)
<1>1. /\ Len(q) \in Nat /\ 1 \in 1 .. Len(q) /\ Len(t) = Len(q) - 1 /\ Len(t) \in Nat
      /\ \A i \in 1 .. Len(t) : i + 1 \in 1 .. Len(q) /\ t[i] = q[i + 1]
      /\ \A i \in 1 .. Len(q) : i # 1 => i - 1 \in 1 .. Len(t) /\ q[i] = t[i - 1]
      /\ \A i \in 1 .. Len(q) : q[i].epoch \in Nat /\ q[i].n \in Nat
  BY TailFacts
<1> HIDE DEF t
<1>a. /\ tip <= q[1].n /\ q[1].n <= top
      /\ taken => q[1].kind = "output" /\ tip < q[1].n
      /\ q[1].kind = "output" => taken /\ q[1].n = tip + 1
  <2>1. 1 .. 1 - 1 = {}
    OBVIOUS
  <2> QED
    BY <1>1, <2>1 DEF Line
<1>b. IF taken THEN q[1].kind = "output" /\ q[1].n = tip + 1 ELSE q[1].kind = "ready"
  BY <1>a DEF Shows
<1>2. ASSUME NEW j \in 1 .. Len(t), Shows(t[j])
      PROVE  /\ q[1].n <= t[j].n /\ t[j].n <= top
             /\ t[j].epoch = e => t[j].kind = "output" /\ q[1].n < t[j].n
  <2>1. 1 \in 1 .. (j + 1) - 1 /\ j + 1 \in 1 .. Len(q) /\ t[j] = q[j + 1]
    BY <1>1
  <2> QED
    BY <1>1, <1>2, <2>1 DEF Line
<1>3. ASSUME NEW j \in 1 .. Len(t), NEW i \in 1 .. j - 1, Shows(t[i]) /\ Shows(t[j])
      PROVE  /\ t[i].n <= t[j].n
             /\ t[i].epoch = t[j].epoch => t[j].kind = "output" /\ t[i].n < t[j].n
  <2>1. i \in 1 .. Len(t) /\ i + 1 \in 1 .. (j + 1) - 1 /\ j + 1 \in 1 .. Len(q)
    BY <1>1
  <2>2. t[i] = q[i + 1] /\ t[j] = q[j + 1]
    BY <1>1, <2>1
  <2> QED
    BY <1>3, <2>1, <2>2 DEF Line
<1>4. ASSUME NEW j \in 1 .. Len(t), t[j].kind = "output", e <= t[j].epoch
      PROVE  \/ \E i \in 1 .. j - 1 : Shows(t[i]) /\ t[i].epoch = t[j].epoch /\ t[j].n = t[i].n + 1
             \/ t[j].epoch = e /\ t[j].n = q[1].n + 1
  <2>1. j + 1 \in 1 .. Len(q) /\ t[j] = q[j + 1] /\ j \in Nat /\ t[j].epoch \in Nat /\ Shows(t[j])
        /\ t[j].n \in Nat /\ q[1].n \in Nat
    BY <1>1, <1>4 DEF Shows
  <2>2. CASE taken /\ t[j].epoch = e /\ t[j].n = tip + 1
    BY <1>2, <1>b, <2>1, <2>2
  <2>3. ASSUME NEW i \in 1 .. j, Shows(q[i]), q[i].epoch = t[j].epoch, t[j].n = q[i].n + 1
        PROVE  \/ \E k \in 1 .. j - 1 : Shows(t[k]) /\ t[k].epoch = t[j].epoch /\ t[j].n = t[k].n + 1
               \/ t[j].epoch = e /\ t[j].n = q[1].n + 1
    <3>1. CASE i = 1
      BY <2>3, <3>1
    <3>2. CASE i # 1
      <4>1. i - 1 \in 1 .. j - 1 /\ q[i] = t[i - 1]
        BY <1>1, <2>1, <3>2
      <4> QED
        BY <2>3, <4>1
    <3> QED
      BY <3>1, <3>2
  <2>4. (j + 1) - 1 = j
    BY <2>1
  <2> QED
    BY <1>4, <2>1, <2>2, <2>3, <2>4 DEF Line
<1> QED
  BY <1>a, <1>b, <1>2, <1>3, <1>4 DEF Line, t

\* The first frame opens a later epoch, of which nothing was taken.
LEMMA LineOpens ==
  ASSUME NEW q \in Seq(Frames), q # <<>>, NEW e \in Int, NEW taken \in BOOLEAN, NEW tip \in Nat,
         NEW top \in Nat, Line(q, e, taken, tip, top), ~Shows(q[1]),
         NEW next \in Int, e < next, NEW shown \in Nat, shown <= tip
  PROVE  Line(Tail(q), next, FALSE, shown, top)
<1> DEFINE t == Tail(q)
<1>1. /\ t \in Seq(Frames) /\ Len(t) \in Nat
      /\ \A i \in 1 .. Len(t) : t[i] \in Frames /\ t[i].epoch \in Nat /\ t[i].n \in Nat
  <2>1. t \in Seq(Frames) /\ Len(t) \in Nat
    BY TailFacts
  <2>2. \A i \in 1 .. Len(t) : t[i] \in Frames
    BY <2>1
  <2> QED
    BY <2>1, <2>2, BoundsAssumption, SMTT(30) DEF Frames
<1>2. Line(t, e, taken, tip, top)
  BY LineDrops
<1> HIDE DEF t
<1>3. ASSUME NEW j \in 1 .. Len(t), Shows(t[j]) PROVE shown <= t[j].n /\ t[j].n <= top
  <2>1. tip <= t[j].n /\ t[j].n <= top
    BY <1>2, <1>3 DEF Line
  <2> QED
    BY <1>1, <2>1
<1>4. ASSUME NEW j \in 1 .. Len(t), t[j].kind = "output", next <= t[j].epoch
      PROVE  \E i \in 1 .. j - 1 : Shows(t[i]) /\ t[i].epoch = t[j].epoch /\ t[j].n = t[i].n + 1
  <2>1. e <= t[j].epoch /\ t[j].epoch # e
    BY <1>1, <1>4
  <2> QED
    BY <1>2, <1>4, <2>1 DEF Line
<1> QED
  BY <1>2, <1>3, <1>4 DEF Line, t

\* A frame joins the line.
LEMMA LineAppends ==
  ASSUME NEW q \in Seq(Frames), NEW x \in Frames, NEW e \in Int, NEW taken \in BOOLEAN,
         NEW tip \in Nat, NEW top \in Nat, NEW more \in Nat, top <= more,
         Line(q, e, taken, tip, top),
         Shows(x) => /\ tip <= x.n /\ top <= x.n /\ x.n <= more
                     /\ taken /\ x.epoch = e => x.kind = "output" /\ tip < x.n
                     /\ \A i \in 1 .. Len(q) : Shows(q[i]) /\ q[i].epoch = x.epoch =>
                          x.kind = "output" /\ q[i].n < x.n,
         x.kind = "output" =>
           \/ \E i \in 1 .. Len(q) : Shows(q[i]) /\ q[i].epoch = x.epoch /\ x.n = q[i].n + 1
           \/ taken /\ x.epoch = e /\ x.n = tip + 1
  PROVE  Line(Append(q, x), e, taken, tip, more)
<1> DEFINE r == Append(q, x)
<1>1. /\ Len(q) \in Nat /\ Len(r) = Len(q) + 1
      /\ \A i \in 1 .. Len(q) : r[i] = q[i] /\ q[i] \in Frames
      /\ r[Len(q) + 1] = x
      /\ \A i \in 1 .. Len(r) : i \in 1 .. Len(q) \/ i = Len(q) + 1
  BY AppendFacts
<1> HIDE DEF r
<1>a. x.n \in Nat /\ \A i \in 1 .. Len(q) : q[i].n \in Nat
  BY <1>1, BoundsAssumption DEF Frames
<1>2. ASSUME NEW j \in 1 .. Len(r), Shows(r[j])
      PROVE  /\ tip <= r[j].n /\ r[j].n <= more
             /\ taken /\ r[j].epoch = e => r[j].kind = "output" /\ tip < r[j].n
  <2>1. CASE j \in 1 .. Len(q)
    <3>1. /\ tip <= q[j].n /\ q[j].n <= top
          /\ taken /\ q[j].epoch = e => q[j].kind = "output" /\ tip < q[j].n
      BY <1>1, <1>2, <2>1 DEF Line
    <3> QED
      BY <1>1, <1>a, <2>1, <3>1
  <2>2. CASE j = Len(q) + 1
    BY <1>1, <1>2, <2>2
  <2> QED
    BY <1>1, <2>1, <2>2
<1>3. ASSUME NEW j \in 1 .. Len(r), NEW i \in 1 .. j - 1, Shows(r[i]) /\ Shows(r[j])
      PROVE  /\ r[i].n <= r[j].n
             /\ r[i].epoch = r[j].epoch => r[j].kind = "output" /\ r[i].n < r[j].n
  <2>0. i \in 1 .. Len(q) /\ r[i] = q[i]
    BY <1>1
  <2>1. CASE j \in 1 .. Len(q)
    BY <1>1, <1>3, <2>0, <2>1 DEF Line
  <2>2. CASE j = Len(q) + 1
    <3>1. q[i].n <= top /\ r[j] = x
      BY <1>1, <1>3, <2>0, <2>2 DEF Line
    <3> QED
      BY <1>1, <1>3, <1>a, <2>0, <3>1
  <2> QED
    BY <1>1, <2>1, <2>2
<1>4. ASSUME NEW j \in 1 .. Len(r), r[j].kind = "output", e <= r[j].epoch
      PROVE  \/ \E i \in 1 .. j - 1 : Shows(r[i]) /\ r[i].epoch = r[j].epoch /\ r[j].n = r[i].n + 1
             \/ taken /\ r[j].epoch = e /\ r[j].n = tip + 1
  <2>1. CASE j \in 1 .. Len(q)
    <3>1. \A i \in 1 .. j - 1 : i \in 1 .. Len(q) /\ r[i] = q[i]
      BY <1>1, <2>1
    <3> QED
      BY <1>1, <1>4, <2>1, <3>1 DEF Line
  <2>2. CASE j = Len(q) + 1
    <3>1. j - 1 = Len(q) /\ r[j] = x
      BY <1>1, <2>2
    <3> QED
      BY <1>1, <1>4, <3>1
  <2> QED
    BY <1>1, <2>1, <2>2
<1> QED
  BY <1>2, <1>3, <1>4 DEF Line, r

\* The end of the line is dropped.
LEMMA LinePrefix ==
  ASSUME NEW q \in Seq(Frames), NEW k \in 0 .. Len(q), NEW e \in Int, NEW taken \in BOOLEAN,
         NEW tip \in Nat, NEW top \in Nat, Line(q, e, taken, tip, top)
  PROVE  Line(SubSeq(q, 1, k), e, taken, tip, top)
<1> DEFINE r == SubSeq(q, 1, k)
<1>1. /\ Len(q) \in Nat /\ Len(r) = k /\ k \in Nat
      /\ \A i \in 1 .. k : i \in 1 .. Len(q) /\ r[i] = q[i]
  BY PrefixFacts
<1> HIDE DEF r
<1>2. \A j \in 1 .. k : \A i \in 1 .. j - 1 : i \in 1 .. k
  BY <1>1
<1> QED
  BY <1>1, <1>2 DEF Line, r

\* A frame that opens no epoch leaves the line.
LEMMA ChainDrops ==
  ASSUME NEW q \in Seq(Frames), q # <<>>, NEW e \in Int, Chain(q, e),
         q[1].kind \notin {"attached", "resync"}
  PROVE  Chain(Tail(q), e) /\ (q[1].kind \in StreamKinds => q[1].epoch <= e)
<1> DEFINE t == Tail(q)
<1>1. /\ Len(q) \in Nat /\ 1 \in 1 .. Len(q) /\ Len(t) = Len(q) - 1 /\ Len(t) \in Nat
      /\ \A i \in 1 .. Len(t) : i + 1 \in 1 .. Len(q) /\ t[i] = q[i + 1]
      /\ \A i \in 1 .. Len(q) : i # 1 => i - 1 \in 1 .. Len(t) /\ q[i] = t[i - 1]
      /\ \A i \in 1 .. Len(q) : q[i].epoch \in Nat /\ q[i].n \in Nat
  BY TailFacts
<1> HIDE DEF t
<1>2. ASSUME NEW j \in 1 .. Len(t), NEW epoch,
             \E i \in 1 .. (j + 1) - 1 : Opens(q[i], epoch)
      PROVE  \E i \in 1 .. j - 1 : Opens(t[i], epoch)
  <2>1. PICK i \in 1 .. (j + 1) - 1 : Opens(q[i], epoch)
    BY <1>2
  <2>2. i # 1
    BY <2>1 DEF Opens
  <2>3. i \in 1 .. Len(q) /\ i - 1 \in 1 .. j - 1
    BY <1>1, <2>2
  <2> QED
    BY <1>1, <2>1, <2>2, <2>3
<1>3. \A j \in 1 .. Len(t) : j + 1 \in 1 .. Len(q) /\ t[j] = q[j + 1] /\ j + 1 # 1
  BY <1>1
<1>4. ASSUME NEW j \in 1 .. Len(t), t[j].kind = "resync"
      PROVE  /\ e < t[j].epoch /\ t[j].epoch = t[j].n + 1
             /\ \A i \in 1 .. j - 1 : t[i].epoch < t[j].epoch
             /\ t[j].n = e \/ \E i \in 1 .. j - 1 : Opens(t[i], t[j].n)
  <2>1. /\ e < t[j].epoch /\ t[j].epoch = t[j].n + 1
        /\ \A i \in 1 .. (j + 1) - 1 : q[i].epoch < t[j].epoch
        /\ t[j].n = e \/ \E i \in 1 .. (j + 1) - 1 : Opens(q[i], t[j].n)
    BY <1>3, <1>4 DEF Chain
  <2>2. \A i \in 1 .. j - 1 : i + 1 \in 1 .. (j + 1) - 1 /\ t[i] = q[i + 1]
    BY <1>1
  <2> QED
    BY <1>2, <2>1, <2>2
<1>5. ASSUME NEW j \in 1 .. Len(t), t[j].kind \in StreamKinds, e < t[j].epoch
      PROVE  \E i \in 1 .. j - 1 : Opens(t[i], t[j].epoch)
  BY <1>2, <1>3, <1>5 DEF Chain
<1>6. ASSUME NEW j \in 1 .. Len(t), t[j].kind = "attached" PROVE FALSE
  BY <1>3, <1>6 DEF Chain
<1>7. q[1].kind \in StreamKinds => q[1].epoch <= e
  <2>1. 1 .. 1 - 1 = {}
    OBVIOUS
  <2> QED
    BY <1>1, <2>1 DEF Chain
<1> QED
  BY <1>4, <1>5, <1>6, <1>7 DEF Chain, t

\* The frame that opens the next epoch is taken.
LEMMA ChainOpens ==
  ASSUME NEW q \in Seq(Frames), q # <<>>, NEW e \in Int, Chain(q, e), NEW next \in Nat,
         Opens(q[1], next)
  PROVE  /\ Chain(Tail(q), next) /\ e < next
         /\ q[1].kind = "resync" => q[1].n = e /\ q[1].n # q[1].epoch
         /\ q[1].kind = "attached" => e = NoEpoch
<1> DEFINE t == Tail(q)
<1>1. /\ Len(q) \in Nat /\ 1 \in 1 .. Len(q) /\ Len(t) = Len(q) - 1 /\ Len(t) \in Nat
      /\ \A i \in 1 .. Len(t) : i + 1 \in 1 .. Len(q) /\ t[i] = q[i + 1]
      /\ \A i \in 1 .. Len(q) : i # 1 => i - 1 \in 1 .. Len(t) /\ q[i] = t[i - 1]
      /\ \A i \in 1 .. Len(q) : q[i].epoch \in Nat /\ q[i].n \in Nat
  BY TailFacts
<1> HIDE DEF t
<1>0. /\ e < next
      /\ q[1].kind = "resync" => q[1].epoch = next /\ q[1].n = e /\ q[1].n # q[1].epoch
      /\ q[1].kind = "attached" => next = 0 /\ e = NoEpoch
  <2>1. 1 .. 1 - 1 = {}
    OBVIOUS
  <2> QED
    BY <1>1, <2>1 DEF Chain, Opens, NoEpoch
<1>2. ASSUME NEW j \in 1 .. Len(t), NEW epoch \in Nat,
             \E i \in 1 .. (j + 1) - 1 : Opens(q[i], epoch)
      PROVE  epoch = next \/ \E i \in 1 .. j - 1 : Opens(t[i], epoch)
  <2>1. PICK i \in 1 .. (j + 1) - 1 : Opens(q[i], epoch)
    BY <1>2
  <2>2. CASE i = 1
    BY <2>1, <2>2 DEF Opens
  <2>3. CASE i # 1
    <3>1. i \in 1 .. Len(q) /\ i - 1 \in 1 .. j - 1
      BY <1>1, <2>3
    <3> QED
      BY <1>1, <2>1, <2>3, <3>1
  <2> QED
    BY <2>2, <2>3
<1>3. \A j \in 1 .. Len(t) : j + 1 \in 1 .. Len(q) /\ t[j] = q[j + 1] /\ j + 1 # 1
        /\ t[j].epoch \in Nat /\ t[j].n \in Nat /\ 1 \in 1 .. (j + 1) - 1
  BY <1>1
<1>4. ASSUME NEW j \in 1 .. Len(t), t[j].kind = "resync"
      PROVE  /\ next < t[j].epoch /\ t[j].epoch = t[j].n + 1
             /\ \A i \in 1 .. j - 1 : t[i].epoch < t[j].epoch
             /\ t[j].n = next \/ \E i \in 1 .. j - 1 : Opens(t[i], t[j].n)
  <2>1. /\ e < t[j].epoch /\ t[j].epoch = t[j].n + 1
        /\ \A i \in 1 .. (j + 1) - 1 : q[i].epoch < t[j].epoch
        /\ t[j].n = e \/ \E i \in 1 .. (j + 1) - 1 : Opens(q[i], t[j].n)
    <3>1. j + 1 \in 1 .. Len(q) /\ t[j] = q[j + 1] /\ q[j + 1].kind = "resync"
      BY <1>3, <1>4
    <3> DEFINE k == j + 1
    <3>2. k \in 1 .. Len(q) /\ q[k].kind = "resync"
      BY <3>1
    <3> HIDE DEF k
    <3>3. /\ e < q[k].epoch /\ q[k].epoch = q[k].n + 1
          /\ \A i \in 1 .. k - 1 : q[i].epoch < q[k].epoch
          /\ q[k].n = e \/ \E i \in 1 .. k - 1 : Opens(q[i], q[k].n)
      BY <3>2 DEF Chain
    <3> QED
      BY ONLY <3>1, <3>3 DEF k
  <2>2. \A i \in 1 .. j - 1 : i + 1 \in 1 .. (j + 1) - 1 /\ t[i] = q[i + 1]
    <3>1. \A i \in 1 .. j - 1 : i \in 1 .. Len(t) /\ i + 1 \in 1 .. (j + 1) - 1
      BY <1>1
    <3> QED
      BY <1>1, <3>1
  <2>3. next < t[j].epoch
    <3>1. CASE q[1].kind = "resync"
      BY <1>0, <1>3, <2>1, <3>1
    <3>2. CASE q[1].kind = "attached"
      BY <1>0, <1>3, <2>1, <3>2
    <3> QED
      BY <3>1, <3>2 DEF Opens
  <2>4. t[j].n # e
    <3>1. CASE q[1].kind = "resync"
      BY <1>0, <1>1, <1>3, <2>1, <2>3, <3>1
    <3>2. CASE q[1].kind = "attached"
      BY <1>0, <1>3, <3>2 DEF NoEpoch
    <3> QED
      BY <3>1, <3>2 DEF Opens
  <2> QED
    BY <1>2, <1>3, <2>1, <2>2, <2>3, <2>4
<1>5. ASSUME NEW j \in 1 .. Len(t), t[j].kind \in StreamKinds, next < t[j].epoch
      PROVE  \E i \in 1 .. j - 1 : Opens(t[i], t[j].epoch)
  <2>1. e < t[j].epoch /\ t[j].epoch # next
    BY <1>0, <1>3, <1>5
  <2> QED
    BY <1>2, <1>3, <1>5, <2>1 DEF Chain
<1>6. ASSUME NEW j \in 1 .. Len(t), t[j].kind = "attached" PROVE FALSE
  BY <1>3, <1>6 DEF Chain
<1> QED
  BY <1>0, <1>4, <1>5, <1>6 DEF Chain, t

LEMMA ChainAppends ==
  ASSUME NEW q \in Seq(Frames), NEW x \in Frames, NEW e \in Int, Chain(q, e),
         x.kind # "attached",
         x.kind = "resync" => /\ e < x.epoch /\ x.epoch = x.n + 1
                              /\ \A i \in 1 .. Len(q) : q[i].epoch < x.epoch
                              /\ x.n = e \/ \E i \in 1 .. Len(q) : Opens(q[i], x.n),
         x.kind \in StreamKinds => \/ x.epoch <= e
                                   \/ \E i \in 1 .. Len(q) : Opens(q[i], x.epoch)
  PROVE  Chain(Append(q, x), e)
<1> DEFINE r == Append(q, x)
<1>1. /\ Len(q) \in Nat /\ Len(r) = Len(q) + 1
      /\ \A i \in 1 .. Len(q) : r[i] = q[i] /\ q[i] \in Frames
      /\ r[Len(q) + 1] = x
      /\ \A i \in 1 .. Len(r) : i \in 1 .. Len(q) \/ i = Len(q) + 1
  BY AppendFacts
<1> HIDE DEF r
<1>2. ASSUME NEW j \in 1 .. Len(q)
      PROVE  r[j] = q[j] /\ \A i \in 1 .. j - 1 : i \in 1 .. Len(q) /\ r[i] = q[i]
  BY <1>1
<1>3. (Len(q) + 1) - 1 = Len(q) /\ x.epoch \in Nat
  BY <1>1, BoundsAssumption DEF Frames
<1>4. ASSUME NEW j \in 1 .. Len(r), r[j].kind = "resync"
      PROVE  /\ e < r[j].epoch /\ r[j].epoch = r[j].n + 1
             /\ \A i \in 1 .. j - 1 : r[i].epoch < r[j].epoch
             /\ r[j].n = e \/ \E i \in 1 .. j - 1 : Opens(r[i], r[j].n)
  <2>1. CASE j \in 1 .. Len(q)
    BY <1>2, <1>4, <2>1 DEF Chain
  <2>2. CASE j = Len(q) + 1
    BY <1>1, <1>3, <1>4, <2>2
  <2> QED
    BY <1>1, <2>1, <2>2
<1>5. ASSUME NEW j \in 1 .. Len(r), r[j].kind \in StreamKinds, e < r[j].epoch
      PROVE  \E i \in 1 .. j - 1 : Opens(r[i], r[j].epoch)
  <2>1. CASE j \in 1 .. Len(q)
    BY <1>2, <1>5, <2>1 DEF Chain
  <2>2. CASE j = Len(q) + 1
    BY <1>1, <1>3, <1>5, <2>2
  <2> QED
    BY <1>1, <2>1, <2>2
<1>6. ASSUME NEW j \in 1 .. Len(r), r[j].kind = "attached" PROVE j = 1 /\ e = NoEpoch
  BY <1>1, <1>2, <1>6 DEF Chain
<1> QED
  BY <1>4, <1>5, <1>6 DEF Chain, r

LEMMA ChainPrefix ==
  ASSUME NEW q \in Seq(Frames), NEW k \in 0 .. Len(q), NEW e \in Int, Chain(q, e)
  PROVE  Chain(SubSeq(q, 1, k), e)
<1> DEFINE r == SubSeq(q, 1, k)
<1>1. /\ Len(q) \in Nat /\ Len(r) = k /\ k \in Nat
      /\ \A i \in 1 .. k : i \in 1 .. Len(q) /\ r[i] = q[i]
  BY PrefixFacts
<1> HIDE DEF r
<1>2. \A j \in 1 .. k : \A i \in 1 .. j - 1 : i \in 1 .. k
  BY <1>1
<1> QED
  BY <1>1, <1>2 DEF Chain, r

Cores == [produced : 0 .. MaxOutput, ended : BOOLEAN, route : 0 .. MaxAttach,
          epoch : 0 .. MaxEpoch, stage : {"idle", "attached", "history", "live"},
          pages : 0 .. MaxPages, histDone : BOOLEAN, exitSent : BOOLEAN]

\* A frame leaves the line: one the plane does not accept, one it takes, or one that
\* opens the next epoch.
LEMMA SentAdvances ==
  ASSUME NEW q \in Seq(Frames), q # <<>>, NEW c \in Cores, NEW e \in Int, NEW taken \in BOOLEAN,
         NEW tip \in Nat, Sent(c, q, e, taken, tip),
         NEW next \in Int, NEW after \in BOOLEAN, NEW shown \in Nat,
         \/ /\ next = e /\ after = taken /\ shown = tip
            /\ q[1].kind \notin {"attached", "resync"}
            /\ Shows(q[1]) => q[1].epoch < e
         \/ /\ next = e /\ after = TRUE /\ shown = q[1].n
            /\ Shows(q[1]) /\ q[1].epoch = e
            /\ taken => tip < q[1].n
            /\ q[1].n <= c.produced
         \/ /\ Opens(q[1], next) /\ e < next /\ after = FALSE
  PROVE  Sent(c, Tail(q), next, after, shown)
<1> DEFINE t == Tail(q)
<1>1. /\ Len(q) \in Nat /\ 1 \in 1 .. Len(q) /\ Len(t) = Len(q) - 1 /\ Len(t) \in Nat
      /\ \A i \in 1 .. Len(t) : i + 1 \in 1 .. Len(q) /\ t[i] = q[i + 1]
      /\ \A i \in 1 .. Len(q) : i # 1 => i - 1 \in 1 .. Len(t) /\ q[i] = t[i - 1]
      /\ \A i \in 1 .. Len(q) : q[i].epoch \in Nat /\ q[i].n \in Nat
  BY TailFacts
<1>c. c.epoch \in Nat /\ c.produced \in Nat
  BY BoundsAssumption DEF Cores
<1> HIDE DEF t
<1>2. next <= c.epoch
  <2>1. CASE Opens(q[1], next)
    <3>1. q[1].epoch <= c.epoch
      BY <1>1 DEF Sent
    <3> QED
      BY <1>c, <2>1, <3>1 DEF Opens
  <2> QED
    BY <2>1 DEF Sent
<1>3. \A j \in 1 .. Len(t) : t[j].epoch <= c.epoch
  BY <1>1 DEF Sent
<1>4. ASSUME c.stage # "idle"
      PROVE  next = c.epoch \/ \E i \in 1 .. Len(t) : Opens(t[i], c.epoch)
  <2>1. CASE e = c.epoch
    BY <1>c, <1>2, <2>1
  <2>2. ASSUME NEW i \in 1 .. Len(q), Opens(q[i], c.epoch)
        PROVE  next = c.epoch \/ \E k \in 1 .. Len(t) : Opens(t[k], c.epoch)
    <3>1. CASE i = 1
      BY <2>2, <3>1 DEF Opens, Shows
    <3>2. CASE i # 1
      BY <1>1, <2>2, <3>2
    <3> QED
      BY <3>1, <3>2
  <2> QED
    BY <1>4, <2>1, <2>2 DEF Sent
<1>5. ASSUME c.stage = "attached"
      PROVE  /\ ~(after /\ next = c.epoch)
             /\ \A j \in 1 .. Len(t) : Shows(t[j]) => t[j].epoch # c.epoch
  <2>1. /\ ~(taken /\ e = c.epoch)
        /\ \A j \in 1 .. Len(q) : Shows(q[j]) => q[j].epoch # c.epoch
    BY <1>5 DEF Sent
  <2> QED
    BY <1>1, <2>1
<1>6. ASSUME c.stage \in {"history", "live"} \/ c.exitSent
      PROVE  \/ \E i \in 1 .. Len(t) : Shows(t[i]) /\ t[i].epoch = c.epoch /\ t[i].n = c.produced
             \/ after /\ next = c.epoch /\ shown = c.produced
  <2>1. CASE taken /\ e = c.epoch /\ tip = c.produced
    <3>1. CASE next = e /\ after = taken /\ shown = tip
      BY <2>1, <3>1
    <3>2. CASE taken => tip < q[1].n /\ q[1].n <= c.produced
      <4>1. q[1].n \in Nat
        BY <1>1
      <4> QED
        BY <1>c, <2>1, <3>2, <4>1
    <3>3. CASE e < next
      BY <1>c, <1>2, <2>1, <3>3
    <3> QED
      BY <3>1, <3>2, <3>3
  <2>2. ASSUME NEW i \in 1 .. Len(q), Shows(q[i]), q[i].epoch = c.epoch, q[i].n = c.produced
        PROVE  \/ \E k \in 1 .. Len(t) : Shows(t[k]) /\ t[k].epoch = c.epoch /\ t[k].n = c.produced
               \/ after /\ next = c.epoch /\ shown = c.produced
    <3>1. CASE i = 1
      <4>1. e <= c.epoch
        BY DEF Sent
      <4> QED
        BY <1>c, <2>2, <3>1, <4>1 DEF Opens, Shows
    <3>2. CASE i # 1
      BY <1>1, <2>2, <3>2
    <3> QED
      BY <3>1, <3>2
  <2> QED
    BY <1>6, <2>1, <2>2 DEF Sent
<1>7. ASSUME NEW j \in 1 .. Len(t), t[j].kind = "exit"
      PROVE  /\ c.exitSent /\ t[j].epoch = c.epoch
             /\ \A i \in j .. Len(t) : ~(Shows(t[i]) /\ t[i].epoch = c.epoch)
  <2>a. j \in Nat
    BY <1>1
  <2>b. j + 1 \in 1 .. Len(q) /\ t[j] = q[j + 1]
    BY <1>1
  <2>0. j \in Nat /\ j + 1 \in 1 .. Len(q) /\ t[j] = q[j + 1]
    BY <2>a, <2>b
  <2>1. \A i \in j .. Len(t) : i \in 1 .. Len(t) /\ i + 1 \in j + 1 .. Len(q)
    BY <1>1, <2>0
  <2>2. \A i \in j .. Len(t) : i + 1 \in j + 1 .. Len(q) /\ t[i] = q[i + 1]
    BY <1>1, <2>1
  <2> QED
    BY <1>7, <2>0, <2>2 DEF Sent
<1> QED
  BY <1>2, <1>3, <1>4, <1>5, <1>6, <1>7 DEF Sent, t

LEMMA SentDrops ==
  ASSUME NEW q \in Seq(Frames), q # <<>>, NEW c \in Cores, NEW e \in Int, NEW taken \in BOOLEAN,
         NEW tip \in Nat, Sent(c, q, e, taken, tip),
         q[1].kind \notin {"attached", "resync"}, Shows(q[1]) => q[1].epoch < e
  PROVE  Sent(c, Tail(q), e, taken, tip)
BY SentAdvances

LEMMA SentTakes ==
  ASSUME NEW q \in Seq(Frames), q # <<>>, NEW c \in Cores, NEW e \in Int, NEW taken \in BOOLEAN,
         NEW tip \in Nat, Sent(c, q, e, taken, tip),
         Shows(q[1]), q[1].epoch = e, taken => tip < q[1].n, q[1].n <= c.produced
  PROVE  Sent(c, Tail(q), e, TRUE, q[1].n)
<1>1. q[1].n \in Nat
  BY TailFacts
<1> QED
  BY <1>1, SentAdvances

LEMMA SentOpens ==
  ASSUME NEW q \in Seq(Frames), q # <<>>, NEW c \in Cores, NEW e \in Int, NEW taken \in BOOLEAN,
         NEW tip \in Nat, Sent(c, q, e, taken, tip),
         NEW next \in Nat, Opens(q[1], next), e < next, NEW shown \in Nat
  PROVE  Sent(c, Tail(q), next, FALSE, shown)
<1>1. next \in Int /\ FALSE \in BOOLEAN
  OBVIOUS
<1> QED
  BY <1>1, SentAdvances

\* What no frame in line is, no frame of the rest is.
LEMMA NothingShown ==
  ASSUME NEW q \in Seq(Frames), q # <<>>, NEW e,
         \A i \in 1 .. Len(q) : ~(Shows(q[i]) /\ q[i].epoch = e)
  PROVE  \A i \in 1 .. Len(Tail(q)) : ~(Shows(Tail(q)[i]) /\ Tail(q)[i].epoch = e)
BY TailFacts

-----------------------------------------------------------------------------
(* The invariant.                                                          *)

Planes == [att : 0 .. MaxAttach, last : Attachments, epoch : NoEpoch .. MaxEpoch,
           ready : BOOLEAN, decoderFinished : BOOLEAN, incomplete : BOOLEAN,
           completed : BOOLEAN, buffered : Seq(1 .. MaxOutput), pendingExit : BOOLEAN,
           recoveries : 0 .. 1, timer : BOOLEAN, opening : BOOLEAN, failed : BOOLEAN]

Typed ==
  /\ core \in Cores
  /\ wire \in [Attachments -> Seq(Frames)]
  /\ reading \in [Attachments -> Frames]
  /\ plane \in Planes /\ Len(plane.buffered) <= MaxPending
  /\ flushing \in BOOLEAN /\ screen \in 0 .. MaxOutput /\ exited \in BOOLEAN

\* The plane has taken the READY of its epoch, and the output up to Tip.
Reading == reading[plane.att]
Taken == plane.ready \/ Reading.kind = "ready"
Tip == IF Reading.kind = "ready" THEN Reading.n ELSE screen + Len(plane.buffered)

\* An attachment Core does not serve yet has sent nothing.
Fresh ==
  /\ plane.att \in {None, plane.last} /\ core.route <= plane.last
  /\ \A a \in Attachments : plane.last < a \/ (a = plane.att /\ a # core.route) =>
       wire[a] = <<>> /\ reading[a] = NoFrame
  /\ plane.att = None \/ plane.att # core.route => plane.epoch = NoEpoch

\* How far the hydration is; a read under way is the only one of its attachment.
Hydration ==
  /\ plane.completed => plane.ready
  /\ plane.ready => plane.epoch # NoEpoch
  /\ ~plane.ready => ~plane.incomplete /\ ~plane.decoderFinished
  /\ HeldFollowsScreen
  /\ plane.completed /\ ~flushing => plane.buffered = <<>>
  /\ flushing => plane.att # None /\ plane.completed
  /\ plane.att # None /\ Reading # NoFrame =>
       /\ ~plane.completed /\ plane.epoch # NoEpoch
       /\ Reading.kind = "ready" => ~plane.ready /\ screen <= Reading.n /\ Reading.n <= core.produced
       /\ Reading.kind # "ready" => Reading.kind = "history" /\ plane.ready

\* An exit held back is the one Core sent on this route, after its last output.
HeldExit ==
  plane.pendingExit =>
    /\ plane.att # None /\ plane.epoch = core.epoch /\ core.exitSent
    /\ \A i \in 1 .. Len(wire[plane.att]) :
         ~(Shows(wire[plane.att][i]) /\ wire[plane.att][i].epoch = core.epoch)

Stream ==
  plane.att # None /\ plane.att = core.route =>
    /\ Tip <= core.produced
    /\ Line(wire[plane.att], plane.epoch, Taken, Tip, core.produced)
    /\ Chain(wire[plane.att], plane.epoch)
    /\ Sent(core, wire[plane.att], plane.epoch, Taken, Tip)

Ends ==
  /\ core.exitSent => core.ended
  /\ core.stage = "attached" => ~core.exitSent
  /\ screen <= core.produced

\* The inductive invariant: what the plane has taken and what is in line make up the
\* output of the session, so a piece is applied only after the one before it.
IInv == Typed /\ Fresh /\ Hydration /\ HeldExit /\ Stream /\ Ends

-----------------------------------------------------------------------------
(* The abstract steps.                                                     *)

View == IF plane.completed THEN "live" ELSE IF plane.ready THEN "restored" ELSE "cold"

AbsStep == [Terminal!Next]_(Terminal!absVars)

LEMMA AbsRests ==
  ASSUME core'.produced = core.produced, core'.ended = core.ended,
         UNCHANGED <<screen, exited>>, View' = View
  PROVE  AbsStep
BY DEF AbsStep, View, Terminal!absVars

LEMMA AbsInterrupt ==
  ASSUME UNCHANGED <<core, screen, exited>>, View' = "cold"
  PROVE  AbsStep
BY DEF AbsStep, View, Terminal!Next, Terminal!Interrupt

LEMMA AbsProduce ==
  ASSUME ~core.ended, core'.produced = core.produced + 1, core'.ended = core.ended,
         UNCHANGED <<screen, exited, plane>>
  PROVE  AbsStep
BY DEF AbsStep, Terminal!Next, Terminal!Produce

LEMMA AbsEnd ==
  ASSUME core'.produced = core.produced, core'.ended = TRUE, UNCHANGED <<screen, exited, plane>>
  PROVE  AbsStep
BY DEF AbsStep, Terminal!Next, Terminal!End

LEMMA AbsRestore ==
  ASSUME UNCHANGED <<core, exited>>, View = "cold", View' = "restored",
         screen' \in screen .. core.produced
  PROVE  AbsStep
BY DEF AbsStep, View, Terminal!Next, Terminal!Restore

LEMMA AbsGoLive ==
  ASSUME UNCHANGED <<core, screen, exited>>, View = "restored", View' = "live"
  PROVE  AbsStep
BY DEF AbsStep, View, Terminal!Next, Terminal!GoLive

LEMMA AbsApply ==
  ASSUME UNCHANGED <<core, exited>>, View = "live", View' = "live",
         screen < core.produced, screen' = screen + 1
  PROVE  AbsStep
BY DEF AbsStep, View, Terminal!Next, Terminal!Apply

LEMMA AbsExit ==
  ASSUME UNCHANGED <<core, screen>>, View = "live", View' = "live", core.ended,
         screen = core.produced, exited' = TRUE
  PROVE  AbsStep
BY DEF AbsStep, View, Terminal!Next, Terminal!ReportExit

-----------------------------------------------------------------------------
(* Leaving an attachment.                                                  *)

\* No attachment, or a new one of which nothing was received.
Left(p, r) ==
  /\ r \in Planes
  /\ ~r.ready /\ ~r.completed /\ ~r.incomplete /\ ~r.decoderFinished /\ ~r.pendingExit
  /\ r.buffered = <<>> /\ r.epoch = NoEpoch
  /\ \/ r.att = None /\ r.last = p.last
     \/ p.last < MaxAttach /\ r.att = p.last + 1 /\ r.last = p.last + 1

LEMMA HydratingFields ==
  ASSUME NEW p \in Planes
  PROVE  LET h == Hydrating(p)
         IN /\ h \in Planes /\ h.att = p.att /\ h.last = p.last /\ h.epoch = p.epoch
            /\ h.recoveries = p.recoveries /\ h.opening = p.opening /\ h.failed = p.failed
            /\ h.ready = FALSE /\ h.completed = FALSE /\ h.incomplete = FALSE
            /\ h.decoderFinished = FALSE /\ h.pendingExit = FALSE /\ h.buffered = <<>>
            /\ h.timer = FALSE
<1>1. FALSE \in BOOLEAN /\ <<>> \in Seq(1 .. MaxOutput)
  OBVIOUS
<1>2. Hydrating(p) \in Planes
  BY <1>1, Zenon DEF Hydrating, Planes
<1>3. LET h == Hydrating(p)
      IN /\ h.att = p.att /\ h.last = p.last /\ h.epoch = p.epoch
         /\ h.recoveries = p.recoveries /\ h.opening = p.opening /\ h.failed = p.failed
         /\ h.ready = FALSE /\ h.completed = FALSE /\ h.incomplete = FALSE
         /\ h.decoderFinished = FALSE /\ h.pendingExit = FALSE /\ h.buffered = <<>>
         /\ h.timer = FALSE
  BY SMT DEF Hydrating, Planes
<1> QED
  BY <1>2, <1>3

LEMMA ClosedIsLeft ==
  ASSUME NEW p \in Planes
  PROVE  Left(p, Closed(p))
<1> DEFINE h == Hydrating(p)
           r == [h EXCEPT !.att = None, !.epoch = NoEpoch, !.opening = FALSE]
<1>1. /\ h \in Planes /\ h.att = p.att /\ h.last = p.last /\ h.epoch = p.epoch
      /\ h.ready = FALSE /\ h.completed = FALSE /\ h.incomplete = FALSE
      /\ h.decoderFinished = FALSE /\ h.pendingExit = FALSE /\ h.buffered = <<>>
  BY HydratingFields
<1>2. Closed(p) = r
  BY DEF Closed
<1> HIDE DEF h
<1>3. None \in 0 .. MaxAttach /\ NoEpoch \in NoEpoch .. MaxEpoch /\ FALSE \in BOOLEAN
  BY BoundsAssumption DEF None, NoEpoch
<1>4. r \in Planes
  BY <1>1, <1>3, Zenon DEF Planes
<1>5. /\ r.att = None /\ r.last = p.last /\ r.epoch = NoEpoch
      /\ ~r.ready /\ ~r.completed /\ ~r.incomplete /\ ~r.decoderFinished /\ ~r.pendingExit
      /\ r.buffered = <<>>
  BY <1>1, SMT DEF Planes
<1> QED
  BY <1>2, <1>4, <1>5 DEF Left

LEMMA AttachedIsLeft ==
  ASSUME NEW p \in Planes, p.last < MaxAttach
  PROVE  Left(p, Attached(p)) /\ Attached(p).recoveries = p.recoveries
<1> DEFINE h == Hydrating(p)
           r == [h EXCEPT !.att = p.last + 1, !.last = p.last + 1, !.epoch = NoEpoch,
                          !.opening = TRUE, !.failed = FALSE]
<1>1. /\ h \in Planes /\ h.recoveries = p.recoveries
      /\ h.ready = FALSE /\ h.completed = FALSE /\ h.incomplete = FALSE
      /\ h.decoderFinished = FALSE /\ h.pendingExit = FALSE /\ h.buffered = <<>>
  BY HydratingFields
<1>2. Attached(p) = r
  BY DEF Attached
<1> HIDE DEF h
<1>3. /\ p.last + 1 \in 0 .. MaxAttach /\ p.last + 1 \in Attachments
      /\ NoEpoch \in NoEpoch .. MaxEpoch /\ FALSE \in BOOLEAN /\ TRUE \in BOOLEAN
  BY BoundsAssumption DEF Planes, Attachments, NoEpoch
<1>4. r \in Planes
  BY <1>1, <1>3, Zenon DEF Planes
<1>5. /\ r.att = p.last + 1 /\ r.last = p.last + 1 /\ r.epoch = NoEpoch
      /\ ~r.ready /\ ~r.completed /\ ~r.incomplete /\ ~r.decoderFinished /\ ~r.pendingExit
      /\ r.buffered = <<>> /\ r.recoveries = p.recoveries
  BY <1>1, SMT DEF Planes
<1> QED
  BY <1>2, <1>4, <1>5 DEF Left

\* The number of fresh attaches does not matter here.
LEMMA RecountIsLeft ==
  ASSUME NEW p, NEW r, Left(p, r), NEW n \in 0 .. 1
  PROVE  Left(p, [r EXCEPT !.recoveries = n])
<1> DEFINE s == [r EXCEPT !.recoveries = n]
<1>1. r \in Planes
  BY DEF Left
<1>2. s \in Planes
  BY <1>1, Zenon DEF Planes
<1>3. /\ s.att = r.att /\ s.last = r.last /\ s.epoch = r.epoch /\ s.ready = r.ready
      /\ s.completed = r.completed /\ s.incomplete = r.incomplete
      /\ s.decoderFinished = r.decoderFinished /\ s.pendingExit = r.pendingExit
      /\ s.buffered = r.buffered
  BY <1>1, SMT DEF Planes
<1> QED
  BY <1>2, <1>3 DEF Left

LEMMA RecoverIsLeft ==
  ASSUME NEW p \in Planes
  PROVE  Left(p, Recover(p))
<1>1. CASE p.recoveries >= 1 \/ p.last = MaxAttach
  BY <1>1, ClosedIsLeft DEF Recover
<1>2. CASE ~(p.recoveries >= 1 \/ p.last = MaxAttach)
  <2>1. p.last < MaxAttach /\ p.recoveries + 1 \in 0 .. 1
    BY <1>2, BoundsAssumption DEF Planes, Attachments
  <2>2. Left(p, Attached(p)) /\ Attached(p).recoveries = p.recoveries
    BY <2>1, AttachedIsLeft
  <2>3. Recover(p) = [Attached(p) EXCEPT !.recoveries = p.recoveries + 1]
    BY <1>2, <2>2 DEF Recover, Left
  <2>4. Left(p, [Attached(p) EXCEPT !.recoveries = p.recoveries + 1])
    BY <2>1, <2>2, RecountIsLeft, Zenon
  <2> QED
    BY <2>3, <2>4
<1> QED
  BY <1>1, <1>2

LEMMA FailIsLeft ==
  ASSUME NEW p \in Planes
  PROVE  Left(p, FailRoute(p))
BY ClosedIsLeft DEF FailRoute

\* Whatever the state of the attachment was, nothing of it is left.
LEMMA LeftStep ==
  ASSUME IInv, Left(plane, plane'), flushing' = FALSE, UNCHANGED <<core, screen, exited>>,
         wire' \in [Attachments -> Seq(Frames)], reading' \in [Attachments -> Frames],
         \A a \in Attachments : plane.last < a => wire'[a] = wire[a] /\ reading'[a] = reading[a]
  PROVE  IInv' /\ AbsStep
<1>0. /\ plane \in Planes /\ plane.last \in Attachments /\ core.route \in Nat
      /\ plane.last \in Nat /\ core.route <= plane.last /\ plane' \in Planes /\ MaxPending \in Nat
  BY BoundsAssumption DEF IInv, Typed, Fresh, Planes, Attachments, Cores, Left
<1>1. Typed'
  <2>1. Len(<<>>) <= MaxPending
    BY <1>0
  <2> QED
    BY <1>0, <2>1 DEF IInv, Typed, Left
<1>2. /\ plane'.last \in Nat /\ plane.last <= plane'.last
      /\ plane'.att = None \/ (plane'.att = plane'.last /\ plane.last < plane'.att)
  BY <1>0 DEF Left
<1>3. Fresh'
  <2>1. \A a \in Attachments : plane'.last < a \/ (a = plane'.att /\ a # core.route) => plane.last < a
    BY <1>0, <1>2 DEF Attachments, None
  <2>2. plane'.att \in {None, plane'.last} /\ core.route <= plane'.last /\ plane'.epoch = NoEpoch
    BY <1>0, <1>2 DEF Left
  <2>3. \A a \in Attachments : plane.last < a => wire'[a] = <<>> /\ reading'[a] = NoFrame
    BY DEF IInv, Fresh
  <2> QED
    BY <2>1, <2>2, <2>3 DEF Fresh
<1>4. plane'.att # None => reading'[plane'.att] = NoFrame
  <2>1. plane'.att # None => plane'.att \in Attachments
    BY <1>0 DEF Planes, Attachments, None
  <2> QED
    BY <1>2, <2>1 DEF IInv, Fresh
<1>5. Hydration'
  <2>1. HeldFollowsScreen'
    BY DEF Left, HeldFollowsScreen
  <2> QED
    BY <1>4, <2>1 DEF Left, Hydration, Reading
<1>6. HeldExit'
  BY DEF Left, HeldExit
<1>7. Stream'
  <2>1. plane'.att # None => plane'.att # core'.route
    BY <1>0, <1>2
  <2> QED
    BY <2>1 DEF Stream
<1>8. Ends'
  BY DEF IInv, Ends
<1>9. View' = "cold"
  BY DEF Left, View
<1>10. IInv'
  BY <1>1, <1>3, <1>5, <1>6, <1>7, <1>8 DEF IInv
<1> QED
  BY <1>9, <1>10, AbsInterrupt

-----------------------------------------------------------------------------
(* Core.                                                                   *)

\* What the steps of Core know of the plane.
LEMMA CoreFacts ==
  ASSUME IInv
  PROVE  /\ core \in Cores /\ core.produced \in Nat /\ core.epoch \in Nat /\ core.route \in Nat
         /\ plane.epoch \in Int /\ plane.last \in Attachments /\ plane.last \in Nat
         /\ Taken \in BOOLEAN /\ screen \in Nat /\ Len(plane.buffered) \in Nat
         /\ plane.att # None => Tip \in Nat /\ plane.att = plane.last /\ plane.att \in Attachments
         /\ \A a \in Attachments : wire[a] \in Seq(Frames) /\ reading[a] \in Frames
<1>1. /\ core \in Cores /\ core.produced \in Nat /\ core.epoch \in Nat /\ core.route \in Nat
  BY BoundsAssumption DEF IInv, Typed, Cores
<1>2. /\ plane.epoch \in Int /\ plane.last \in Attachments /\ plane.last \in Nat
      /\ plane.ready \in BOOLEAN /\ screen \in Nat /\ plane.buffered \in Seq(1 .. MaxOutput)
  BY BoundsAssumption DEF IInv, Typed, Planes, Attachments, NoEpoch
<1>3. Taken \in BOOLEAN
  BY <1>2 DEF Taken
<1>4. Len(plane.buffered) \in Nat
  BY <1>2
<1>5. \A a \in Attachments : wire[a] \in Seq(Frames) /\ reading[a] \in Frames
  BY DEF IInv, Typed
<1>6. plane.att # None => plane.att = plane.last
  BY DEF IInv, Fresh
<1>7. plane.att # None => Tip \in Nat
  <2>1. plane.att # None => Reading.n \in Nat
    BY <1>2, <1>5, <1>6 DEF Reading, Frames
  <2> QED
    BY <1>2, <1>4, <2>1 DEF Tip
<1> QED
  BY <1>1, <1>2, <1>3, <1>4, <1>5, <1>6, <1>7

\* A step of Core that extends the line of the route it serves.
LEMMA CoreStep ==
  ASSUME IInv, PlaneRests, core' \in Cores, core'.route = core.route,
         core.produced <= core'.produced, core'.exitSent => core'.ended,
         core'.stage = "attached" => ~core'.exitSent,
         wire' \in [Attachments -> Seq(Frames)],
         \A a \in Attachments : a # core.route => wire'[a] = wire[a],
         plane.att # None /\ plane.att = core.route =>
           /\ Line(wire'[plane.att], plane.epoch, Taken, Tip, core'.produced)
           /\ Chain(wire'[plane.att], plane.epoch)
           /\ Sent(core', wire'[plane.att], plane.epoch, Taken, Tip)
           /\ plane.pendingExit =>
                /\ plane.epoch = core'.epoch /\ core'.exitSent
                /\ \A i \in 1 .. Len(wire'[plane.att]) :
                     ~(Shows(wire'[plane.att][i]) /\ wire'[plane.att][i].epoch = core'.epoch)
  PROVE  IInv'
<1>0. /\ core.produced \in Nat /\ core'.produced \in Nat /\ screen \in Nat
      /\ plane.last \in Nat /\ core.route \in Nat /\ core.route <= plane.last
      /\ plane.att # None => Tip \in Nat
  BY CoreFacts, BoundsAssumption DEF Cores, IInv, Fresh
<1>p. UNCHANGED <<plane, reading, flushing, screen, exited>>
  BY DEF PlaneRests
<1>1. Typed'
  BY <1>p DEF IInv, Typed
<1>2. Fresh'
  <2>1. \A a \in Attachments : plane.last < a \/ (a = plane.att /\ a # core.route) => a # core.route
    BY <1>0 DEF Attachments
  <2> QED
    BY <1>p, <2>1 DEF IInv, Fresh
<1>3. HeldFollowsScreen'
  BY <1>p DEF IInv, Hydration, HeldFollowsScreen
<1>4. Hydration'
  <2>1. plane.att # None => Reading.n \in Nat
    BY CoreFacts DEF Reading, Frames
  <2>2. plane.att # None /\ Reading.n <= core.produced => Reading.n <= core'.produced
    BY <1>0, <2>1
  <2> QED
    BY <1>p, <1>3, <2>2 DEF IInv, Hydration, Reading
<1>5. Taken' = Taken /\ Tip' = Tip
  BY <1>p DEF Taken, Tip, Reading
<1>6. HeldExit'
  <2>1. plane.pendingExit => plane.att = core.route
    <3>1. plane.pendingExit => plane.epoch \in Nat
      BY CoreFacts DEF IInv, HeldExit
    <3> QED
      BY <3>1 DEF IInv, Fresh, NoEpoch
  <2> QED
    BY <1>p, <2>1 DEF IInv, HeldExit
<1>7. Stream'
  <2>1. plane.att # None /\ plane.att = core.route => Tip <= core'.produced
    <3>1. plane.att # None /\ plane.att = core.route => Tip <= core.produced
      BY DEF IInv, Stream
    <3> QED
      BY <1>0, <3>1
  <2> QED
    BY <1>p, <1>5, <2>1 DEF Stream
<1>8. Ends'
  <2>1. screen <= core.produced
    BY DEF IInv, Ends
  <2>2. screen <= core'.produced
    BY <1>0, <2>1
  <2> QED
    BY <1>p, <2>2 DEF Ends
<1> QED
  BY <1>1, <1>2, <1>4, <1>6, <1>7, <1>8 DEF IInv

\* Core sends a frame of its epoch.
LEMMA SendStep ==
  ASSUME IInv, PlaneRests, Serving, NEW kind \in StreamKinds \cup {"closed"}, NEW n \in Nat,
         Send(kind, n), core' \in Cores, core'.route = core.route, core'.epoch = core.epoch,
         core.stage # "idle", core'.stage # "attached",
         core.exitSent => core'.exitSent, core'.exitSent => core'.ended,
         kind = "exit" => core'.exitSent,
         kind = "ready" => n = core'.produced /\ core.stage = "attached" /\ core'.produced = core.produced,
         kind = "output" => /\ n = core'.produced /\ core'.produced = core.produced + 1
                            /\ core.stage \in {"history", "live"} /\ ~core.exitSent,
         kind \notin {"ready", "output"} =>
           /\ core'.produced = core.produced
           /\ core'.stage \in {"history", "live"} \/ core'.exitSent =>
                core.stage \in {"history", "live"} \/ core.exitSent
  PROVE  IInv'
<1> DEFINE x == Frame(kind, core.epoch, n)
           q == wire[core.route]
<1>0. /\ core \in Cores /\ core.produced \in Nat /\ core'.produced \in Nat /\ core.epoch \in Nat
      /\ core.epoch \in 0 .. MaxEpoch
      /\ core.route \in Attachments /\ core.produced <= core'.produced
      /\ plane.epoch \in Int /\ Taken \in BOOLEAN
      /\ wire \in [Attachments -> Seq(Frames)] /\ q \in Seq(Frames)
  <2>1. core.route \in Attachments /\ core \in Cores /\ wire \in [Attachments -> Seq(Frames)]
    BY CoreFacts DEF Serving, IInv, Typed
  <2>2. core.produced \in Nat /\ core'.produced \in Nat
    BY CoreFacts, BoundsAssumption DEF Cores
  <2>3. core.produced <= core'.produced
    <3>1. kind \in {"ready", "output"} \/ kind \notin {"ready", "output"}
      OBVIOUS
    <3> QED
      BY <2>2, <3>1
  <2> QED
    BY <2>1, <2>2, <2>3, CoreFacts DEF Cores
<1>1. /\ x \in Frames /\ x.kind = kind /\ x.epoch = core.epoch /\ x.n = n
      /\ x.kind # "attached" /\ x.kind # "resync"
  <2>1. kind \in Kinds /\ kind # "attached" /\ kind # "resync"
    BY DEF Kinds, StreamKinds, Unfenced
  <2> QED
    BY <1>0, <2>1 DEF Frame, Frames
<1>s. Shows(x) => ~core.exitSent /\ n = core'.produced
  BY <1>1 DEF Shows, IInv, Ends
<1>2. wire' = [wire EXCEPT ![core.route] = Append(q, x)]
  BY DEF Send
<1> HIDE DEF x, q
<1>3. Append(q, x) \in Seq(Frames)
  BY <1>0, <1>1
<1>4. wire' \in [Attachments -> Seq(Frames)] /\ wire'[core.route] = Append(q, x)
      /\ \A a \in Attachments : a # core.route => wire'[a] = wire[a]
  BY <1>0, <1>2, <1>3
<1>5. ASSUME plane.att # None, plane.att = core.route
      PROVE  /\ Line(Append(q, x), plane.epoch, Taken, Tip, core'.produced)
             /\ Chain(Append(q, x), plane.epoch)
             /\ Sent(core', Append(q, x), plane.epoch, Taken, Tip)
             /\ plane.pendingExit =>
                  /\ plane.epoch = core'.epoch /\ core'.exitSent
                  /\ \A i \in 1 .. Len(Append(q, x)) :
                       ~(Shows(Append(q, x)[i]) /\ Append(q, x)[i].epoch = core'.epoch)
  <2>0. /\ Line(q, plane.epoch, Taken, Tip, core.produced) /\ Chain(q, plane.epoch)
        /\ Sent(core, q, plane.epoch, Taken, Tip) /\ Tip <= core.produced /\ Tip \in Nat
    BY <1>5, CoreFacts DEF IInv, Stream, q
  <2>1. /\ Len(q) \in Nat /\ Len(Append(q, x)) = Len(q) + 1
        /\ \A i \in 1 .. Len(q) : Append(q, x)[i] = q[i] /\ q[i] \in Frames
        /\ Append(q, x)[Len(q) + 1] = x
        /\ \A i \in 1 .. Len(Append(q, x)) : i \in 1 .. Len(q) \/ i = Len(q) + 1
    BY <1>0, <1>1, AppendFacts
  <2>2. Line(Append(q, x), plane.epoch, Taken, Tip, core'.produced)
    <3>1. ASSUME Shows(x)
          PROVE  /\ Tip <= x.n /\ core.produced <= x.n /\ x.n <= core'.produced
                 /\ Taken /\ x.epoch = plane.epoch => x.kind = "output" /\ Tip < x.n
                 /\ \A i \in 1 .. Len(q) : Shows(q[i]) /\ q[i].epoch = x.epoch =>
                      x.kind = "output" /\ q[i].n < x.n
      <4>1. CASE kind = "ready"
        BY <1>0, <1>1, <2>0, <4>1 DEF Sent
      <4>2. CASE kind = "output"
        <5>1. \A i \in 1 .. Len(q) : Shows(q[i]) => q[i].n \in Nat /\ q[i].n <= core.produced
          BY <2>0, <2>1 DEF Line, Frames
        <5> QED
          BY <1>0, <1>1, <2>0, <4>2, <5>1
      <4> QED
        BY <1>1, <3>1, <4>1, <4>2 DEF Shows
    <3>2. ASSUME x.kind = "output"
          PROVE  \/ \E i \in 1 .. Len(q) : Shows(q[i]) /\ q[i].epoch = x.epoch /\ x.n = q[i].n + 1
                 \/ Taken /\ x.epoch = plane.epoch /\ x.n = Tip + 1
      BY <1>1, <2>0, <3>2 DEF Sent
    <3> QED
      BY <1>0, <1>1, <2>0, <3>1, <3>2, LineAppends
  <2>3. Chain(Append(q, x), plane.epoch)
    <3>1. x.epoch <= plane.epoch \/ \E i \in 1 .. Len(q) : Opens(q[i], x.epoch)
      BY <1>0, <1>1, <2>0 DEF Sent
    <3> QED
      BY <1>0, <1>1, <2>0, <3>1, ChainAppends
  <2>4. Sent(core', Append(q, x), plane.epoch, Taken, Tip)
    <3>1. plane.epoch <= core'.epoch /\ \A j \in 1 .. Len(Append(q, x)) : Append(q, x)[j].epoch <= core'.epoch
      BY <1>0, <1>1, <2>0, <2>1 DEF Sent
    <3>2. plane.epoch = core'.epoch \/ \E i \in 1 .. Len(Append(q, x)) : Opens(Append(q, x)[i], core'.epoch)
      BY <2>0, <2>1 DEF Sent
    <3>3. ASSUME core'.stage \in {"history", "live"} \/ core'.exitSent
          PROVE  \/ \E i \in 1 .. Len(Append(q, x)) :
                      /\ Shows(Append(q, x)[i]) /\ Append(q, x)[i].epoch = core'.epoch
                      /\ Append(q, x)[i].n = core'.produced
                 \/ Taken /\ plane.epoch = core'.epoch /\ Tip = core'.produced
      <4>1. CASE Shows(x)
        <5>1. Len(q) + 1 \in 1 .. Len(Append(q, x))
          BY <2>1
        <5> QED
          BY <1>1, <1>s, <2>1, <4>1, <5>1
      <4>2. CASE ~Shows(x)
        <5>1. /\ core'.produced = core.produced
              /\ core.stage \in {"history", "live"} \/ core.exitSent
          BY <1>1, <3>3, <4>2 DEF Shows
        <5>2. \A i \in 1 .. Len(q) : i \in 1 .. Len(Append(q, x)) /\ Append(q, x)[i] = q[i]
          BY <2>1
        <5> QED
          BY <2>0, <5>1, <5>2 DEF Sent
      <4> QED
        BY <4>1, <4>2
    <3>4. ASSUME NEW j \in 1 .. Len(Append(q, x)), Append(q, x)[j].kind = "exit"
          PROVE  /\ core'.exitSent /\ Append(q, x)[j].epoch = core'.epoch
                 /\ \A i \in j .. Len(Append(q, x)) :
                      ~(Shows(Append(q, x)[i]) /\ Append(q, x)[i].epoch = core'.epoch)
      <4>1. CASE j \in 1 .. Len(q)
        <5>1. /\ core.exitSent /\ q[j].epoch = core.epoch /\ Append(q, x)[j] = q[j]
              /\ \A i \in j .. Len(q) : ~(Shows(q[i]) /\ q[i].epoch = core.epoch)
          BY <2>0, <2>1, <3>4, <4>1 DEF Sent
        <5>2. \A i \in j .. Len(Append(q, x)) :
                (i \in j .. Len(q) /\ Append(q, x)[i] = q[i]) \/ Append(q, x)[i] = x
          BY <2>1, <4>1
        <5> QED
          BY <1>s, <5>1, <5>2
      <4>2. CASE j = Len(q) + 1
        <5>1. Append(q, x)[j] = x /\ ~Shows(x) /\ kind = "exit"
          BY <1>1, <2>1, <3>4, <4>2 DEF Shows
        <5>2. \A i \in j .. Len(Append(q, x)) : i = j
          BY <2>1, <4>2
        <5> QED
          BY <1>1, <5>1, <5>2
      <4> QED
        BY <2>1, <4>1, <4>2
    <3> QED
      BY <3>1, <3>2, <3>3, <3>4 DEF Sent
  <2>5. ASSUME plane.pendingExit
        PROVE  /\ plane.epoch = core'.epoch /\ core'.exitSent
               /\ \A i \in 1 .. Len(Append(q, x)) :
                    ~(Shows(Append(q, x)[i]) /\ Append(q, x)[i].epoch = core'.epoch)
    <3>1. /\ plane.epoch = core.epoch /\ core.exitSent
          /\ \A i \in 1 .. Len(q) : ~(Shows(q[i]) /\ q[i].epoch = core.epoch)
      BY <1>5, <2>5 DEF IInv, HeldExit, q
    <3> QED
      BY <1>s, <2>1, <3>1
  <2> QED
    BY <2>2, <2>3, <2>4, <2>5
<1> QED
  BY <1>0, <1>4, <1>5, CoreStep

LEMMA EmptyLine ==
  ASSUME NEW e \in Int, NEW taken \in BOOLEAN, NEW tip \in Nat, NEW top \in Nat
  PROVE  Line(<<>>, e, taken, tip, top) /\ Chain(<<>>, e)
BY DEF Line, Chain

\* The first frame of an attachment.
LEMMA AttachesPreserves ==
  ASSUME IInv, CoreAttaches
  PROVE  IInv' /\ AbsStep
<1> DEFINE a == plane.last
<1>0. /\ core \in Cores /\ a \in Attachments /\ a \in Nat /\ core.route # a /\ screen \in Nat
      /\ wire \in [Attachments -> Seq(Frames)] /\ wire[a] \in Seq(Frames) /\ core.produced \in Nat
      /\ UNCHANGED <<plane, reading, flushing, screen, exited>>
  BY CoreFacts DEF CoreAttaches, PlaneRests, IInv, Typed
<1>1. PICK kind \in {"attached", "failed"} :
        /\ core' = [core EXCEPT !.route = a, !.epoch = 0, !.pages = 0,
                     !.histDone = FALSE, !.exitSent = FALSE,
                     !.stage = IF kind = "attached" THEN "attached" ELSE "idle"]
        /\ wire' = [wire EXCEPT ![a] = Append(@, Frame(kind, 0, 0))]
  BY DEF CoreAttaches
<1> HIDE DEF a
<1>2. /\ core' \in Cores
  <2>1. /\ a \in 0 .. MaxAttach /\ 0 \in 0 .. MaxEpoch /\ 0 \in 0 .. MaxPages /\ FALSE \in BOOLEAN
        /\ (IF kind = "attached" THEN "attached" ELSE "idle") \in {"idle", "attached", "history", "live"}
    BY <1>0, BoundsAssumption DEF Attachments
  <2> QED
    BY <1>0, <1>1, <2>1, Zenon DEF Cores
<1>3. /\ core'.route = a /\ core'.epoch = 0 /\ core'.exitSent = FALSE
      /\ core'.stage = IF kind = "attached" THEN "attached" ELSE "idle"
      /\ core'.produced = core.produced /\ core'.ended = core.ended
  BY <1>0, <1>1, SMT DEF Cores
<1> DEFINE x == Frame(kind, 0, 0)
<1>4. x \in Frames /\ x.kind = kind /\ x.epoch = 0 /\ x.n = 0 /\ ~Shows(x)
  <2>1. kind \in Kinds /\ 0 \in 0 .. MaxEpoch
    BY BoundsAssumption DEF Kinds, Unfenced
  <2> QED
    BY <2>1 DEF Frame, Frames, Shows
<1> HIDE DEF x
<1>5. /\ wire' \in [Attachments -> Seq(Frames)] /\ wire'[a] = Append(wire[a], x)
      /\ \A b \in Attachments : b # a => wire'[b] = wire[b]
  <2>1. wire' = [wire EXCEPT ![a] = Append(@, x)]
    BY <1>1 DEF x
  <2>2. Append(wire[a], x) \in Seq(Frames)
    BY <1>0, <1>4
  <2> QED
    BY <1>0, <2>1, <2>2
<1>6. plane.att # None => /\ plane.att = a /\ wire[a] = <<>> /\ reading[a] = NoFrame
                          /\ plane.epoch = NoEpoch
  BY <1>0 DEF IInv, Fresh, a
<1>e. plane.epoch = NoEpoch /\ ~plane.ready
  <2>1. plane.epoch = NoEpoch
    BY <1>6 DEF IInv, Fresh
  <2> QED
    BY <2>1 DEF IInv, Hydration
<1>7. Typed'
  BY <1>0, <1>2, <1>5 DEF IInv, Typed
<1>8. Fresh'
  <2>1. \A b \in Attachments : plane.last < b \/ (b = plane.att /\ b # core'.route) => b # a /\ plane.last < b
    BY <1>0, <1>3, <1>6 DEF Attachments, None, a
  <2>2. plane.att \in {None, plane.last} /\ core'.route <= plane.last
    BY <1>0, <1>3 DEF IInv, Fresh, a
  <2> QED
    BY <1>0, <1>5, <1>e, <2>1, <2>2 DEF IInv, Fresh
<1>9. Hydration'
  <2>1. HeldFollowsScreen'
    BY <1>0 DEF IInv, Hydration, HeldFollowsScreen
  <2> QED
    BY <1>0, <1>3, <2>1 DEF IInv, Hydration, Reading
<1>10. HeldExit'
  <2>1. ~plane.pendingExit
    BY <1>0, <1>e, BoundsAssumption DEF IInv, HeldExit, Cores, NoEpoch
  <2> QED
    BY <1>0, <2>1 DEF HeldExit
<1>11. Stream'
  <2> SUFFICES ASSUME plane.att # None PROVE Stream'
    BY <1>0 DEF Stream
  <2>1. /\ plane' = plane /\ plane.att = a /\ wire'[a] = Append(<<>>, x)
        /\ Reading' = NoFrame /\ plane.epoch = NoEpoch
    BY <1>0, <1>5, <1>6 DEF Reading
  <2>2. Taken' = FALSE /\ Tip' = screen
    <3>1. plane.buffered = <<>>
      BY <1>e DEF IInv, Hydration, HeldFollowsScreen
    <3> QED
      BY <1>0, <1>e, <2>1, <3>1 DEF Taken, Tip, NoFrame
  <2>3. NoEpoch \in Int /\ <<>> \in Seq(Frames)
    BY DEF NoEpoch
  <2>4. Line(Append(<<>>, x), NoEpoch, FALSE, screen, core.produced)
    <3>1. x.kind # "output"
      BY <1>4
    <3>2. Line(<<>>, NoEpoch, FALSE, screen, core.produced)
      BY <1>0, <2>3, EmptyLine
    <3>3. core.produced <= core.produced
      BY <1>0
    <3> HIDE DEF NoEpoch
    <3> QED
      BY <1>0, <1>4, <2>3, <3>1, <3>2, <3>3, LineAppends
  <2>5. /\ Len(Append(<<>>, x)) = 1
        /\ \A j \in 1 .. Len(Append(<<>>, x)) : j = 1 /\ Append(<<>>, x)[j] = x
    BY <1>4, <2>3
  <2>6. Chain(Append(<<>>, x), NoEpoch)
    BY <1>4, <2>5 DEF Chain, StreamKinds
  <2>7. Sent(core', Append(<<>>, x), NoEpoch, FALSE, screen)
    <3>1. NoEpoch <= 0 /\ 0 <= 0
      BY DEF NoEpoch
    <3>2. core'.stage # "idle" => \E i \in 1 .. Len(Append(<<>>, x)) : Opens(Append(<<>>, x)[i], core'.epoch)
      BY <1>3, <1>4, <2>5 DEF Opens
    <3>3. \A j \in 1 .. Len(Append(<<>>, x)) : /\ ~Shows(Append(<<>>, x)[j]) /\ Append(<<>>, x)[j].kind # "exit"
                                               /\ Append(<<>>, x)[j].epoch = 0
      BY <1>4, <2>5
    <3> QED
      BY <1>3, <3>1, <3>2, <3>3 DEF Sent
  <2>8. screen <= core.produced
    BY DEF IInv, Ends
  <2> QED
    BY <1>3, <2>1, <2>2, <2>4, <2>6, <2>7, <2>8 DEF Stream
<1>12. Ends'
  BY <1>0, <1>3 DEF IInv, Ends
<1>13. View' = View
  BY <1>0 DEF View
<1>14. AbsStep
  BY <1>0, <1>3, <1>13, AbsRests
<1>15. IInv'
  BY <1>7, <1>8, <1>9, <1>10, <1>11, <1>12 DEF IInv
<1> QED
  BY <1>14, <1>15

\* The frames of a snapshot, and the end of the route.
LEMMA SendsPreserve ==
  ASSUME IInv, CoreReady \/ CoreHistory \/ CoreUnavailable \/ CoreFinish \/ CoreCloses \/ CoreExit
  PROVE  IInv' /\ AbsStep
<1>0. /\ core \in Cores /\ core.produced \in Nat /\ PlaneRests
      /\ UNCHANGED <<plane, screen, exited>> /\ View' = View
  BY CoreFacts DEF CoreReady, CoreHistory, CoreUnavailable, CoreFinish, CoreCloses, CoreExit, PlaneRests, View
<1>e. /\ core.exitSent => core.ended
      /\ core.stage = "attached" => ~core.exitSent
  BY DEF IInv, Ends
<1>1. CASE CoreReady
  <2>1. /\ Serving /\ core.stage = "attached" /\ Send("ready", core.produced)
        /\ core' = [core EXCEPT !.stage = "history", !.pages = 0, !.histDone = FALSE]
    BY <1>1 DEF CoreReady
  <2>2. core' \in Cores
    <3>1. 0 \in 0 .. MaxPages
      BY BoundsAssumption
    <3> QED
      BY <1>0, <2>1, <3>1, Zenon DEF Cores
  <2>3. /\ core'.route = core.route /\ core'.epoch = core.epoch /\ core'.stage = "history"
        /\ core'.produced = core.produced /\ core'.ended = core.ended /\ core'.exitSent = core.exitSent
    BY <1>0, <2>1, SMT DEF Cores
  <2>4. IInv'
    BY <1>0, <1>e, <2>1, <2>2, <2>3, SendStep DEF StreamKinds
  <2> QED
    BY <1>0, <2>3, <2>4, AbsRests
<1>2. CASE CoreHistory
  <2>1. Serving /\ core.stage = "history" /\ core.pages < MaxPages
    BY <1>2 DEF CoreHistory
  <2>2. PICK last \in {0, 1} : /\ core' = [core EXCEPT !.pages = @ + 1, !.histDone = (last = 1)]
                               /\ Send("history", last)
    BY <1>2 DEF CoreHistory
  <2>3. core' \in Cores
    <3>1. core.pages + 1 \in 0 .. MaxPages /\ (last = 1) \in BOOLEAN
      BY <1>0, <2>1, BoundsAssumption DEF Cores
    <3> QED
      BY <1>0, <2>2, <3>1, Zenon DEF Cores
  <2>4. /\ core'.route = core.route /\ core'.epoch = core.epoch /\ core'.stage = core.stage
        /\ core'.produced = core.produced /\ core'.ended = core.ended /\ core'.exitSent = core.exitSent
    BY <1>0, <2>2, SMT DEF Cores
  <2>5. IInv'
    BY <1>0, <1>e, <2>1, <2>2, <2>3, <2>4, SendStep DEF StreamKinds
  <2> QED
    BY <1>0, <2>4, <2>5, AbsRests
<1>3. CASE CoreUnavailable
  <2>1. /\ Serving /\ core.stage = "history" /\ Send("unavailable", 0)
        /\ core' = [core EXCEPT !.histDone = TRUE]
    BY <1>3 DEF CoreUnavailable
  <2>2. core' \in Cores
    BY <1>0, <2>1, Zenon DEF Cores
  <2>3. /\ core'.route = core.route /\ core'.epoch = core.epoch /\ core'.stage = core.stage
        /\ core'.produced = core.produced /\ core'.ended = core.ended /\ core'.exitSent = core.exitSent
    BY <1>0, <2>1, SMT DEF Cores
  <2>4. IInv'
    BY <1>0, <1>e, <2>1, <2>2, <2>3, SendStep DEF StreamKinds
  <2> QED
    BY <1>0, <2>3, <2>4, AbsRests
<1>4. CASE CoreFinish
  <2>1. /\ Serving /\ core.stage = "history" /\ Send("finish", 0)
        /\ core' = [core EXCEPT !.stage = "live"]
    BY <1>4 DEF CoreFinish
  <2>2. core' \in Cores
    BY <1>0, <2>1, Zenon DEF Cores
  <2>3. /\ core'.route = core.route /\ core'.epoch = core.epoch /\ core'.stage = "live"
        /\ core'.produced = core.produced /\ core'.ended = core.ended /\ core'.exitSent = core.exitSent
    BY <1>0, <2>1, SMT DEF Cores
  <2>4. IInv'
    BY <1>0, <1>e, <2>1, <2>2, <2>3, SendStep DEF StreamKinds
  <2> QED
    BY <1>0, <2>3, <2>4, AbsRests
<1>5. CASE CoreCloses
  <2>1. /\ Serving /\ core.stage # "idle" /\ Send("closed", 0)
        /\ core' = [core EXCEPT !.stage = "idle"]
    BY <1>5 DEF CoreCloses
  <2>2. core' \in Cores
    BY <1>0, <2>1, Zenon DEF Cores
  <2>3. /\ core'.route = core.route /\ core'.epoch = core.epoch /\ core'.stage = "idle"
        /\ core'.produced = core.produced /\ core'.ended = core.ended /\ core'.exitSent = core.exitSent
    BY <1>0, <2>1, SMT DEF Cores
  <2>4. IInv'
    BY <1>0, <1>e, <2>1, <2>2, <2>3, SendStep
  <2> QED
    BY <1>0, <2>3, <2>4, AbsRests
<1>6. CASE CoreExit
  <2>1. /\ Serving /\ core.stage \in {"history", "live"} /\ Send("exit", 0)
        /\ core' = [core EXCEPT !.ended = TRUE, !.exitSent = TRUE]
    BY <1>6 DEF CoreExit
  <2>2. core' \in Cores
    BY <1>0, <2>1, Zenon DEF Cores
  <2>3. /\ core'.route = core.route /\ core'.epoch = core.epoch /\ core'.stage = core.stage
        /\ core'.produced = core.produced /\ core'.ended = TRUE /\ core'.exitSent = TRUE
    BY <1>0, <2>1, SMT DEF Cores
  <2>4. IInv'
    BY <1>0, <1>e, <2>1, <2>2, <2>3, SendStep DEF StreamKinds
  <2> QED
    BY <1>0, <2>3, <2>4, AbsEnd
<1> QED
  BY <1>1, <1>2, <1>3, <1>4, <1>5, <1>6

\* The session produces: in line behind the piece before it, or not sent at all.
LEMMA OutputPreserves ==
  ASSUME IInv, CoreOutput
  PROVE  IInv' /\ AbsStep
<1>0. /\ core \in Cores /\ core.produced \in Nat /\ PlaneRests /\ ~core.ended
      /\ core' = [core EXCEPT !.produced = @ + 1] /\ core.produced < MaxOutput
  BY CoreFacts DEF CoreOutput
<1>1. core' \in Cores
  <2>1. core.produced + 1 \in 0 .. MaxOutput
    BY <1>0, BoundsAssumption
  <2> QED
    BY <1>0, <2>1, Zenon DEF Cores
<1>2. /\ core'.route = core.route /\ core'.epoch = core.epoch /\ core'.stage = core.stage
      /\ core'.produced = core.produced + 1 /\ core'.ended = core.ended
      /\ core'.exitSent = core.exitSent /\ core'.produced \in Nat
  BY <1>0, SMT DEF Cores
<1>e. ~core.exitSent
  BY <1>0 DEF IInv, Ends
<1>3. AbsStep
  BY <1>0, <1>2, AbsProduce DEF PlaneRests
<1>4. CASE Serving /\ core.stage \in {"history", "live"}
  <2>1. Send("output", core.produced + 1)
    BY <1>4 DEF CoreOutput
  <2>2. core.produced + 1 \in Nat /\ core.stage # "idle" /\ core'.stage # "attached"
    BY <1>0, <1>2, <1>4
  <2>3. IInv'
    BY <1>0, <1>1, <1>2, <1>e, <1>4, <2>1, <2>2, SendStep DEF StreamKinds
  <2> QED
    BY <1>3, <2>3
<1>5. CASE ~(Serving /\ core.stage \in {"history", "live"})
  <2>1. ~(core.route = plane.last /\ core.stage \in {"history", "live"}) /\ wire' = wire
    BY <1>5 DEF CoreOutput
  <2>2. ASSUME plane.att # None, plane.att = core.route
        PROVE  /\ Line(wire'[plane.att], plane.epoch, Taken, Tip, core'.produced)
               /\ Chain(wire'[plane.att], plane.epoch)
               /\ Sent(core', wire'[plane.att], plane.epoch, Taken, Tip)
               /\ ~plane.pendingExit
    <3> DEFINE q == wire[plane.att]
    <3>1. /\ Line(q, plane.epoch, Taken, Tip, core.produced) /\ Chain(q, plane.epoch)
          /\ Sent(core, q, plane.epoch, Taken, Tip) /\ q \in Seq(Frames) /\ Tip \in Nat
      BY <2>2, CoreFacts DEF IInv, Stream
    <3>2. core.stage \notin {"history", "live"}
      BY <2>1, <2>2, CoreFacts
    <3>3. ~plane.pendingExit
      BY <1>e DEF IInv, HeldExit
    <3> HIDE DEF q
    <3>4. \A j \in 1 .. Len(q) : q[j].n \in Nat
      BY <3>1, FrameFacts
    <3>5. Line(q, plane.epoch, Taken, Tip, core'.produced)
      <4>1. \A j \in 1 .. Len(q) : Shows(q[j]) =>
              /\ Tip <= q[j].n /\ q[j].n <= core'.produced
              /\ Taken /\ q[j].epoch = plane.epoch => q[j].kind = "output" /\ Tip < q[j].n
        BY <1>0, <1>2, <3>1, <3>4 DEF Line
      <4> QED
        BY <3>1, <4>1 DEF Line
    <3>6. Sent(core', q, plane.epoch, Taken, Tip)
      BY <1>2, <1>e, <3>1, <3>2 DEF Sent
    <3> QED
      BY <2>1, <3>1, <3>3, <3>5, <3>6 DEF q
  <2>3. core.produced <= core'.produced
    BY <1>0, <1>2
  <2>4. wire' \in [Attachments -> Seq(Frames)]
    BY <2>1 DEF IInv, Typed
  <2>5. core'.exitSent => core'.ended
    BY <1>2, <1>e
  <2>6. core'.stage = "attached" => ~core'.exitSent
    BY <1>2, <1>e
  <2>7. IInv'
    BY <1>0, <1>1, <1>2, <2>1, <2>2, <2>3, <2>4, <2>5, <2>6, CoreStep
  <2> QED
    BY <1>3, <2>7
<1> QED
  BY <1>4, <1>5

\* An overflow drops the end of the line and opens the next epoch behind what is left.
LEMMA ResyncPreserves ==
  ASSUME IInv, CoreResyncs
  PROVE  IInv' /\ AbsStep
<1> DEFINE q == wire[core.route]
           x == Frame("resync", core.epoch + 1, core.epoch)
<1>0. /\ core \in Cores /\ core.produced \in Nat /\ core.epoch \in Nat /\ PlaneRests /\ Serving
      /\ core.stage \in {"history", "live"} /\ ~core.exitSent /\ core.epoch < MaxEpoch
      /\ core' = [core EXCEPT !.epoch = @ + 1, !.stage = "attached"]
  BY CoreFacts DEF CoreResyncs
<1>1. core' \in Cores
  <2>1. core.epoch + 1 \in 0 .. MaxEpoch
    BY <1>0, BoundsAssumption
  <2> QED
    BY <1>0, <2>1, Zenon DEF Cores
<1>2. /\ core'.route = core.route /\ core'.epoch = core.epoch + 1 /\ core'.stage = "attached"
      /\ core'.produced = core.produced /\ core'.ended = core.ended
      /\ core'.exitSent = core.exitSent /\ core'.epoch \in Nat
  BY <1>0, SMT DEF Cores
<1>3. /\ core.route \in Attachments /\ wire \in [Attachments -> Seq(Frames)] /\ q \in Seq(Frames)
      /\ plane.epoch \in Int /\ Taken \in BOOLEAN /\ Len(q) \in Nat
  <2>1. core.route \in Attachments /\ wire \in [Attachments -> Seq(Frames)]
    BY <1>0, CoreFacts DEF Serving, IInv, Typed
  <2> QED
    BY <2>1, CoreFacts
<1>4. PICK k \in 0 .. Len(q) :
        /\ \A i \in k + 1 .. Len(q) : q[i].kind \in StreamKinds
        /\ wire' = [wire EXCEPT ![core.route] = Append(SubSeq(q, 1, k), x)]
  BY DEF CoreResyncs
<1>5. x \in Frames /\ x.kind = "resync" /\ x.epoch = core.epoch + 1 /\ x.n = core.epoch
  <2>1. core.epoch + 1 \in 0 .. MaxEpoch /\ "resync" \in Kinds
    BY <1>0, BoundsAssumption DEF Kinds
  <2> QED
    BY <1>0, <2>1 DEF Frame, Frames
<1> DEFINE r == SubSeq(q, 1, k)
           s == Append(r, x)
<1>6. /\ r \in Seq(Frames) /\ Len(r) = k /\ k \in Nat
      /\ \A i \in 1 .. k : i \in 1 .. Len(q) /\ r[i] = q[i]
  BY <1>3, PrefixFacts
<1> HIDE DEF q, x, r
<1>7. /\ s \in Seq(Frames) /\ Len(s) = k + 1
      /\ \A i \in 1 .. k : s[i] = r[i] /\ r[i] \in Frames
      /\ s[k + 1] = x
      /\ \A i \in 1 .. Len(s) : i \in 1 .. k \/ i = k + 1
  BY <1>5, <1>6, AppendFacts
<1>8. /\ wire' \in [Attachments -> Seq(Frames)] /\ wire'[core.route] = s
      /\ \A a \in Attachments : a # core.route => wire'[a] = wire[a]
  <2>1. wire' = [wire EXCEPT ![core.route] = s]
    BY <1>4 DEF r
  <2> HIDE DEF s
  <2> QED
    BY <1>3, <1>7, <2>1
<1>9. ASSUME plane.att # None, plane.att = core.route
      PROVE  /\ Line(s, plane.epoch, Taken, Tip, core.produced)
             /\ Chain(s, plane.epoch)
             /\ Sent(core', s, plane.epoch, Taken, Tip)
             /\ ~plane.pendingExit
  <2>0. /\ Line(q, plane.epoch, Taken, Tip, core.produced) /\ Chain(q, plane.epoch)
        /\ Sent(core, q, plane.epoch, Taken, Tip) /\ Tip \in Nat
    BY <1>9, CoreFacts DEF IInv, Stream, q
  <2>1. Line(r, plane.epoch, Taken, Tip, core.produced) /\ Chain(r, plane.epoch)
    BY <1>0, <1>3, <2>0, LinePrefix, ChainPrefix DEF r
  <2>2. Line(s, plane.epoch, Taken, Tip, core.produced)
    <3>1. ~Shows(x) /\ x.kind # "output" /\ core.produced <= core.produced
      BY <1>0, <1>5 DEF Shows
    <3> QED
      BY <1>0, <1>3, <1>5, <1>6, <2>0, <2>1, <3>1, LineAppends
  <2>3. \A i \in 1 .. k : r[i].epoch \in Nat /\ r[i].epoch <= core.epoch
    BY <1>3, <1>6, <2>0, FrameFacts DEF Sent
  <2>4. plane.epoch = core.epoch \/ \E i \in 1 .. k : Opens(r[i], core.epoch)
    <3>1. ASSUME NEW i \in 1 .. Len(q), Opens(q[i], core.epoch)
          PROVE  i \in 1 .. k
      <4>1. q[i].kind \notin StreamKinds
        BY <3>1 DEF Opens, StreamKinds
      <4>2. i \notin k + 1 .. Len(q)
        BY <1>4, <4>1
      <4> QED
        BY <1>3, <1>6, <4>2
    <3> QED
      BY <1>0, <1>6, <2>0, <3>1 DEF Sent
  <2>5. plane.epoch <= core.epoch
    BY <2>0 DEF Sent
  <2>6. Chain(s, plane.epoch)
    <3>1. /\ plane.epoch < x.epoch /\ x.epoch = x.n + 1
          /\ \A i \in 1 .. Len(r) : r[i].epoch < x.epoch
          /\ x.n = plane.epoch \/ \E i \in 1 .. Len(r) : Opens(r[i], x.n)
      BY <1>0, <1>3, <1>5, <1>6, <2>3, <2>4, <2>5
    <3>2. x.kind # "attached" /\ x.kind \notin StreamKinds
      BY <1>5 DEF StreamKinds
    <3> QED
      BY <1>3, <1>5, <1>6, <2>1, <3>1, <3>2, ChainAppends
  <2>7. Sent(core', s, plane.epoch, Taken, Tip)
    <3>1. plane.epoch < core'.epoch /\ plane.epoch <= core'.epoch
      BY <1>0, <1>2, <1>3, <2>5
    <3>2. \A j \in 1 .. Len(s) : s[j].epoch <= core'.epoch /\ (j \in 1 .. k => s[j].epoch # core'.epoch)
      BY <1>0, <1>2, <1>5, <1>7, <2>3
    <3>3. \E i \in 1 .. Len(s) : Opens(s[i], core'.epoch)
      <4>1. k + 1 \in 1 .. Len(s) /\ Opens(s[k + 1], core'.epoch)
        BY <1>2, <1>5, <1>6, <1>7 DEF Opens
      <4> QED
        BY <4>1
    <3>4. \A j \in 1 .. Len(s) : Shows(s[j]) => s[j].epoch # core'.epoch
      BY <1>5, <1>7, <3>2 DEF Shows
    <3>5. \A j \in 1 .. Len(s) : s[j].kind # "exit"
      <4>1. \A i \in 1 .. k : q[i].kind # "exit"
        BY <1>0, <1>6, <2>0 DEF Sent
      <4> QED
        BY <1>5, <1>6, <1>7, <4>1
    <3>6. plane.epoch # core'.epoch /\ core'.stage \notin {"history", "live"} /\ ~core'.exitSent
      BY <1>0, <1>2, <1>3, <3>1
    <3> HIDE DEF s
    <3> QED
      BY <3>1, <3>2, <3>3, <3>4, <3>5, <3>6 DEF Sent
  <2>8. ~plane.pendingExit
    BY <1>0 DEF IInv, HeldExit
  <2> QED
    BY <2>2, <2>6, <2>7, <2>8
<1>10. IInv'
  <2>1. core.produced <= core'.produced /\ ~core'.exitSent
    BY <1>0, <1>2
  <2> HIDE DEF s
  <2> QED
    BY <1>0, <1>1, <1>2, <1>8, <1>9, <2>1, CoreStep
<1>11. AbsStep
  <2>1. View' = View /\ UNCHANGED <<screen, exited>>
    BY <1>0 DEF PlaneRests, View
  <2> QED
    BY <1>2, <2>1, AbsRests
<1> QED
  BY <1>10, <1>11

-----------------------------------------------------------------------------
(* The plane.                                                              *)

\* An attachment that is not the current one.
LEMMA StaleStep ==
  ASSUME IInv, UNCHANGED <<core, plane, flushing, screen, exited>>,
         wire' \in [Attachments -> Seq(Frames)], reading' \in [Attachments -> Frames],
         \A a \in Attachments : a = plane.att \/ plane.last < a => wire'[a] = wire[a] /\ reading'[a] = reading[a]
  PROVE  IInv' /\ AbsStep
<1>0. plane.att # None => plane.att \in Attachments
  BY CoreFacts
<1>1. Typed'
  BY DEF IInv, Typed
<1>2. Fresh'
  BY DEF IInv, Fresh
<1>3. plane.att # None => Reading' = Reading /\ wire'[plane.att] = wire[plane.att]
  BY <1>0 DEF Reading
<1>4. HeldFollowsScreen'
  BY DEF IInv, Hydration, HeldFollowsScreen
<1>5. Hydration'
  BY <1>3, <1>4 DEF IInv, Hydration
<1>6. HeldExit'
  BY <1>3 DEF IInv, HeldExit
<1>7. plane.att # None => Taken' = Taken /\ Tip' = Tip
  BY <1>3 DEF Taken, Tip
<1>8. Stream'
  BY <1>3, <1>7 DEF IInv, Stream
<1>9. Ends'
  BY DEF IInv, Ends
<1>10. AbsStep
  <2>1. View' = View
    BY DEF View
  <2> QED
    BY <2>1, AbsRests
<1> QED
  BY <1>1, <1>2, <1>5, <1>6, <1>8, <1>9, <1>10 DEF IInv

\* The current attachment goes on.
LEMMA PlaneStep ==
  ASSUME IInv, UNCHANGED core, plane.att # None, plane.att = core.route,
         plane' \in Planes, plane'.att = plane.att, plane'.last = plane.last,
         Len(plane'.buffered) <= MaxPending,
         wire' \in [Attachments -> Seq(Frames)], reading' \in [Attachments -> Frames],
         \A a \in Attachments : a # plane.att => wire'[a] = wire[a] /\ reading'[a] = reading[a],
         flushing' \in BOOLEAN, exited' \in BOOLEAN, screen' \in Nat, screen' <= core.produced,
         Hydration', HeldExit', Tip' <= core.produced,
         Line(wire'[plane.att], plane'.epoch, Taken', Tip', core.produced),
         Chain(wire'[plane.att], plane'.epoch),
         Sent(core, wire'[plane.att], plane'.epoch, Taken', Tip')
  PROVE  IInv'
<1>0. /\ plane.att = plane.last /\ plane.last \in Nat /\ core.produced \in 0 .. MaxOutput
      /\ core.produced \in Nat
  BY CoreFacts DEF Cores
<1>1. Typed'
  <2>1. screen' \in 0 .. MaxOutput
    BY <1>0, BoundsAssumption
  <2> QED
    BY <2>1 DEF IInv, Typed
<1>2. Fresh'
  <2>1. \A a \in Attachments : plane.last < a \/ (a = plane.att /\ a # core.route) => a # plane.att
    BY <1>0 DEF Attachments
  <2> QED
    BY <2>1 DEF IInv, Fresh
<1>3. Stream'
  BY DEF Stream
<1>4. Ends'
  BY DEF IInv, Ends
<1> QED
  BY <1>1, <1>2, <1>3, <1>4 DEF IInv

\* What is known when the plane takes a frame of the current attachment a, with line q.
Taking(a, q) ==
  /\ a = core.route /\ a # None /\ a = plane.att /\ a \in Attachments
  /\ a = plane.last /\ q = wire[a] /\ q \in Seq(Frames) /\ q # <<>>
  /\ Head(q) = q[1] /\ q[1] \in Frames /\ q[1].epoch \in Nat /\ q[1].n \in Nat
  /\ wire' \in [Attachments -> Seq(Frames)] /\ wire'[a] = Tail(q)
  /\ \A b \in Attachments : b # a => wire'[b] = wire[b]
  /\ reading \in [Attachments -> Frames] /\ reading[a] = NoFrame /\ Reading = NoFrame
  /\ plane \in Planes /\ plane.epoch \in Int /\ plane.ready \in BOOLEAN
  /\ Taken = plane.ready /\ Tip = screen + Len(plane.buffered) /\ Tip \in Nat
  /\ screen \in Nat /\ Len(plane.buffered) \in Nat /\ Len(plane.buffered) <= MaxPending
  /\ core \in Cores /\ core.produced \in Nat /\ core' = core /\ flushing = FALSE
  /\ exited \in BOOLEAN
  /\ Line(q, plane.epoch, plane.ready, Tip, core.produced)
  /\ Chain(q, plane.epoch)
  /\ Sent(core, q, plane.epoch, plane.ready, Tip)
  /\ Tip <= core.produced /\ screen <= core.produced

LEMMA HandleFacts ==
  ASSUME IInv, NEW a \in Attachments, HandleFrame(a), a = plane.att
  PROVE  Taking(a, wire[a])
<1> DEFINE q == wire[a]
<1>1. /\ q # <<>> /\ reading[a] = NoFrame /\ ~flushing /\ wire' = [wire EXCEPT ![a] = Tail(q)]
      /\ core' = core
  BY DEF HandleFrame
<1>2. /\ wire \in [Attachments -> Seq(Frames)] /\ reading \in [Attachments -> Frames]
      /\ plane \in Planes /\ Len(plane.buffered) <= MaxPending /\ flushing \in BOOLEAN
      /\ exited \in BOOLEAN
  BY DEF IInv, Typed
<1>3. /\ q \in Seq(Frames) /\ Tail(q) \in Seq(Frames) /\ Head(q) = q[1]
      /\ q[1] \in Frames /\ q[1].epoch \in Nat /\ q[1].n \in Nat
  BY <1>1, <1>2, TailFacts
<1>4. a # None /\ a = core.route
  BY <1>1 DEF IInv, Fresh, Attachments, None
<1>5. wire' \in [Attachments -> Seq(Frames)] /\ wire'[a] = Tail(q)
      /\ \A b \in Attachments : b # a => wire'[b] = wire[b]
  BY <1>1, <1>2, <1>3
<1>6. Reading = NoFrame /\ Taken = plane.ready /\ Tip = screen + Len(plane.buffered)
  BY <1>1, <1>2 DEF Reading, Taken, Tip, NoFrame, Planes
<1>7. plane.ready \in BOOLEAN
  BY <1>2 DEF Planes
<1>8. Line(q, plane.epoch, plane.ready, Tip, core.produced) /\ Chain(q, plane.epoch)
      /\ Sent(core, q, plane.epoch, plane.ready, Tip) /\ Tip <= core.produced
  BY <1>4, <1>6 DEF IInv, Stream
<1>9. screen <= core.produced
  BY DEF IInv, Ends
<1>10. a = plane.last
  BY <1>4 DEF IInv, Fresh
<1> QED
  BY <1>1, <1>2, <1>3, <1>4, <1>5, <1>6, <1>7, <1>8, <1>9, <1>10, CoreFacts DEF Taking

\* admitStreamEpoch refuses only frames of an earlier epoch.
LEMMA RefusedPreserves ==
  ASSUME IInv, NEW a \in Attachments, HandleFrame(a), a = plane.att,
         ~AdmitEpoch(plane, Head(wire[a]))
  PROVE  IInv' /\ AbsStep
<1> DEFINE q == wire[a]
<1>0. /\ a = core.route /\ a # None /\ q \in Seq(Frames) /\ q # <<>>
      /\ Head(q) = q[1] /\ q[1] \in Frames /\ q[1].epoch \in Nat /\ q[1].n \in Nat
      /\ wire' \in [Attachments -> Seq(Frames)] /\ wire'[a] = Tail(q)
      /\ \A b \in Attachments : b # a => wire'[b] = wire[b]
      /\ reading \in [Attachments -> Frames] /\ plane \in Planes /\ plane.epoch \in Int
      /\ plane.ready \in BOOLEAN /\ Taken = plane.ready /\ Tip \in Nat /\ screen \in Nat
      /\ Len(plane.buffered) <= MaxPending /\ core \in Cores /\ core.produced \in Nat
      /\ core' = core /\ flushing = FALSE /\ exited \in BOOLEAN
      /\ Line(q, plane.epoch, plane.ready, Tip, core.produced) /\ Chain(q, plane.epoch)
      /\ Sent(core, q, plane.epoch, plane.ready, Tip) /\ Tip <= core.produced /\ screen <= core.produced
  BY HandleFacts DEF Taking
<1>1. UNCHANGED <<plane, reading, screen, flushing, exited>>
  BY <1>0 DEF HandleFrame
<1> HIDE DEF q
<1>2. q[1].kind \notin {"attached", "resync"}
  <2>1. q[1].kind # "attached"
    BY <1>0 DEF AdmitEpoch, Unfenced, q
  <2>2. ASSUME q[1].kind = "resync" PROVE FALSE
    <3>1. Opens(q[1], q[1].epoch)
      BY <2>2 DEF Opens
    <3>2. q[1].n = plane.epoch /\ q[1].n # q[1].epoch
      BY <1>0, <2>2, <3>1, ChainOpens
    <3> QED
      BY <1>0, <2>2, <3>2 DEF AdmitEpoch, q
  <2> QED
    BY <2>1, <2>2
<1>3. Chain(Tail(q), plane.epoch) /\ (q[1].kind \in StreamKinds => q[1].epoch <= plane.epoch)
  BY <1>0, <1>2, ChainDrops
<1>4. Shows(q[1]) => q[1].epoch < plane.epoch
  <2>1. Shows(q[1]) => q[1].kind \in StreamKinds
    BY DEF Shows, StreamKinds
  <2>2. q[1].kind \in StreamKinds => q[1].epoch # plane.epoch
    BY <1>0 DEF AdmitEpoch, q
  <2> QED
    BY <1>0, <1>3, <2>1, <2>2
<1>5. Line(Tail(q), plane.epoch, plane.ready, Tip, core.produced)
  BY <1>0, <1>4, LineDrops
<1>6. Sent(core, Tail(q), plane.epoch, plane.ready, Tip)
  BY <1>0, <1>2, <1>4, SentDrops
<1>7. Taken' = Taken /\ Tip' = Tip /\ Reading' = Reading
  BY <1>1 DEF Taken, Tip, Reading
<1>8. Hydration'
  <2>1. HeldFollowsScreen'
    BY <1>1 DEF IInv, Hydration, HeldFollowsScreen
  <2> QED
    BY <1>0, <1>1, <1>7, <2>1 DEF IInv, Hydration
<1>9. HeldExit'
  <2>1. plane.pendingExit =>
          /\ plane.att # None /\ plane.epoch = core.epoch /\ core.exitSent
          /\ \A i \in 1 .. Len(q) : ~(Shows(q[i]) /\ q[i].epoch = core.epoch)
    BY DEF IInv, HeldExit, q
  <2>2. plane.pendingExit =>
          \A i \in 1 .. Len(Tail(q)) : ~(Shows(Tail(q)[i]) /\ Tail(q)[i].epoch = core.epoch)
    BY <1>0, <2>1, NothingShown
  <2>3. wire'[plane'.att] = Tail(q)
    BY <1>0, <1>1
  <2> QED
    BY <1>0, <1>1, <2>1, <2>2, <2>3 DEF HeldExit
<1>10. IInv'
  BY <1>0, <1>1, <1>3, <1>5, <1>6, <1>7, <1>8, <1>9, PlaneStep
<1>11. View' = View
  BY <1>1 DEF View
<1> QED
  BY <1>0, <1>1, <1>10, <1>11, AbsRests

\* receiveRouteFrame of an admitted first frame.
Admits(a, q) ==
  /\ AdmitEpoch(plane, q[1])
  /\ plane' = Received(plane, q[1])
  /\ reading' = IF Reads(plane, q[1]) THEN [reading EXCEPT ![a] = q[1]] ELSE reading
  /\ flushing' = (q[1].kind = "finish" /\ plane'.completed /\ ~plane.completed)
  /\ screen' = IF q[1].kind = "output" /\ ~Hold(plane) THEN q[1].n ELSE screen
  /\ exited' = (exited \/ (q[1].kind = "exit" /\ plane.completed))

LEMMA AdmitFacts ==
  ASSUME IInv, NEW a \in Attachments, HandleFrame(a), a = plane.att,
         AdmitEpoch(plane, Head(wire[a]))
  PROVE  Admits(a, wire[a])
<1>1. Head(wire[a]) = wire[a][1]
  BY HandleFacts DEF Taking
<1> QED
  BY <1>1 DEF HandleFrame, Admits

\* A frame that ends the attachment.
LEMMA FrameLeaves ==
  ASSUME IInv, NEW a, NEW q, Taking(a, q), Admits(a, q), Left(plane, plane'),
         ~Reads(plane, q[1]), ~(q[1].kind = "output" /\ plane.completed),
         ~(q[1].kind = "exit" /\ plane.completed)
  PROVE  IInv' /\ AbsStep
<1>1. UNCHANGED <<core, screen, exited, reading>> /\ flushing' = FALSE
  BY DEF Taking, Admits, Left, Hold
<1>2. wire' \in [Attachments -> Seq(Frames)] /\ reading' \in [Attachments -> Frames]
  BY <1>1 DEF Taking
<1>3. \A b \in Attachments : plane.last < b => wire'[b] = wire[b] /\ reading'[b] = reading[b]
  BY <1>1 DEF Taking, Attachments
<1> QED
  BY <1>1, <1>2, <1>3, LeftStep

\* A frame that shows nothing and changes neither the epoch nor what was taken.
LEMMA FrameDrops ==
  ASSUME IInv, NEW a, NEW q, Taking(a, q),
         ~Shows(q[1]), q[1].kind \notin {"attached", "resync"},
         plane' \in Planes, plane'.att = plane.att, plane'.last = plane.last,
         plane'.epoch = plane.epoch, plane'.ready = plane.ready, plane'.buffered = plane.buffered,
         reading' = reading \/ (plane.ready /\ q[1].kind = "history" /\ reading' = [reading EXCEPT ![a] = q[1]]),
         screen' = screen, flushing' \in BOOLEAN, exited' \in BOOLEAN, Hydration', HeldExit'
  PROVE  IInv'
<1>1. Line(Tail(q), plane.epoch, plane.ready, Tip, core.produced)
  BY LineDrops DEF Taking
<1>2. Chain(Tail(q), plane.epoch)
  BY ChainDrops DEF Taking
<1>3. Sent(core, Tail(q), plane.epoch, plane.ready, Tip)
  BY SentDrops DEF Taking
<1>4. Reading' = Reading \/ (plane.ready /\ Reading'.kind = "history")
  <2>1. a = plane.att /\ a \in Attachments /\ reading \in [Attachments -> Frames]
    BY DEF Taking
  <2>2. Reading = reading[a] /\ Reading' = reading'[a]
    BY <2>1 DEF Reading
  <2> QED
    BY <2>1, <2>2
<1>5. Taken' = plane.ready /\ Tip' = Tip
  <2>1. /\ Taken = plane.ready /\ Reading = NoFrame /\ Tip = screen + Len(plane.buffered)
    BY DEF Taking
  <2> QED
    BY <1>4, <2>1 DEF Taken, Tip, NoFrame
<1>6. reading' \in [Attachments -> Frames] /\ \A b \in Attachments : b # plane.att => reading'[b] = reading[b]
  BY DEF Taking
<1> QED
  BY <1>1, <1>2, <1>3, <1>5, <1>6, PlaneStep DEF Taking

\* ATTACH_STATE attached opens the first epoch.
LEMMA AttachedPreserves ==
  ASSUME IInv, NEW a, NEW q, Taking(a, q), Admits(a, q), q[1].kind = "attached"
  PROVE  IInv' /\ AbsStep
<1>1. plane' = [plane EXCEPT !.epoch = 0] /\ UNCHANGED <<core, reading, screen, exited>> /\ flushing' = FALSE
  BY DEF Admits, Taking, Received, Reads
<1>2. plane' \in Planes
  <2>1. 0 \in NoEpoch .. MaxEpoch
    BY BoundsAssumption DEF NoEpoch
  <2> QED
    BY <1>1, <2>1, Zenon DEF Planes, Taking
<1>3. /\ plane'.att = plane.att /\ plane'.last = plane.last /\ plane'.epoch = 0
      /\ plane'.ready = plane.ready /\ plane'.completed = plane.completed
      /\ plane'.incomplete = plane.incomplete /\ plane'.decoderFinished = plane.decoderFinished
      /\ plane'.buffered = plane.buffered /\ plane'.pendingExit = plane.pendingExit
  <2>1. plane \in Planes
    BY DEF Taking
  <2> QED
    BY <1>1, <2>1, SMT DEF Planes
<1>4. Chain(Tail(q), 0) /\ plane.epoch < 0 /\ plane.epoch = NoEpoch
  BY ChainOpens DEF Taking, Opens
<1>5. plane.ready = FALSE
  BY <1>4 DEF IInv, Hydration, Taking
<1>6. Line(Tail(q), 0, FALSE, Tip, core.produced)
  <2>1. ~Shows(q[1]) /\ Tip <= Tip /\ 0 \in Int
    BY DEF Shows, Taking
  <2>2. /\ q \in Seq(Frames) /\ q # <<>> /\ plane.epoch \in Int /\ plane.ready \in BOOLEAN
        /\ Tip \in Nat /\ core.produced \in Nat
        /\ Line(q, plane.epoch, plane.ready, Tip, core.produced)
    BY DEF Taking
  <2> QED
    BY <1>4, <2>1, <2>2, LineOpens
<1>7. Sent(core, Tail(q), 0, FALSE, Tip)
  BY <1>4, SentOpens DEF Taking, Opens
<1>8. Taken' = FALSE /\ Tip' = Tip /\ Reading' = Reading
  BY <1>1, <1>3, <1>5 DEF Taking, Taken, Tip, Reading, NoFrame
<1>9. Hydration'
  <2>1. HeldFollowsScreen'
    BY <1>1, <1>3 DEF IInv, Hydration, HeldFollowsScreen
  <2> QED
    BY <1>1, <1>3, <1>5, <1>8, <2>1 DEF IInv, Hydration, Taking
<1>10. HeldExit'
  <2>1. core.epoch \in Nat
    BY CoreFacts
  <2> QED
    BY <1>3, <1>4, <2>1 DEF IInv, HeldExit, NoEpoch
<1>11. IInv'
  <2>1. Len(plane'.buffered) <= MaxPending /\ flushing' \in BOOLEAN /\ exited' \in BOOLEAN
    BY <1>1, <1>3 DEF Taking
  <2> QED
    BY <1>1, <1>2, <1>3, <1>4, <1>6, <1>7, <1>8, <1>9, <1>10, <2>1, PlaneStep DEF Taking
<1>12. View' = View
  BY <1>3 DEF View
<1> QED
  BY <1>1, <1>11, <1>12, AbsRests

\* ROUTE_RESYNC opens the next epoch, and its hydration starts again.
LEMMA ResyncedPreserves ==
  ASSUME IInv, NEW a, NEW q, Taking(a, q), Admits(a, q), q[1].kind = "resync"
  PROVE  IInv' /\ AbsStep
<1> DEFINE m == [plane EXCEPT !.epoch = q[1].epoch]
           h == Hydrating(m)
<1>1. plane' = [h EXCEPT !.timer = ~h.completed] /\ UNCHANGED <<core, reading, screen, exited>> /\ flushing' = FALSE
  BY DEF Admits, Taking, Received, Reads, Armed
<1>2. m \in Planes
  <2>1. q[1].epoch \in NoEpoch .. MaxEpoch
    BY BoundsAssumption, SMTT(30) DEF NoEpoch, Taking, Frames
  <2> QED
    BY <2>1, Zenon DEF Planes, Taking
<1>3. m.att = plane.att /\ m.last = plane.last /\ m.epoch = q[1].epoch
  <2>1. plane \in Planes
    BY DEF Taking
  <2> QED
    BY <2>1, SMT DEF Planes
<1> HIDE DEF m
<1>4. /\ h \in Planes /\ h.att = plane.att /\ h.last = plane.last /\ h.epoch = q[1].epoch
      /\ h.ready = FALSE /\ h.completed = FALSE /\ h.incomplete = FALSE
      /\ h.decoderFinished = FALSE /\ h.pendingExit = FALSE /\ h.buffered = <<>>
  BY <1>2, <1>3, HydratingFields
<1> HIDE DEF h
<1>5. plane' \in Planes
  <2>1. (~h.completed) \in BOOLEAN
    OBVIOUS
  <2> QED
    BY <1>1, <1>4, <2>1, Zenon DEF Planes
<1>6. /\ plane'.att = plane.att /\ plane'.last = plane.last /\ plane'.epoch = q[1].epoch
      /\ plane'.ready = FALSE /\ plane'.completed = FALSE /\ plane'.incomplete = FALSE
      /\ plane'.decoderFinished = FALSE /\ plane'.pendingExit = FALSE /\ plane'.buffered = <<>>
  BY <1>1, <1>4, SMT DEF Planes
<1>7. Chain(Tail(q), q[1].epoch) /\ plane.epoch < q[1].epoch
  BY ChainOpens DEF Taking, Opens
<1>8. Line(Tail(q), q[1].epoch, FALSE, screen, core.produced)
  <2>1. ~Shows(q[1]) /\ screen <= Tip /\ q[1].epoch \in Int /\ screen \in Nat
    BY DEF Shows, Taking
  <2>2. /\ q \in Seq(Frames) /\ q # <<>> /\ plane.epoch \in Int /\ plane.ready \in BOOLEAN
        /\ Tip \in Nat /\ core.produced \in Nat
        /\ Line(q, plane.epoch, plane.ready, Tip, core.produced)
    BY DEF Taking
  <2> QED
    BY <1>7, <2>1, <2>2, LineOpens
<1>9. Sent(core, Tail(q), q[1].epoch, FALSE, screen)
  BY <1>7, SentOpens DEF Taking, Opens
<1>10. Taken' = FALSE /\ Tip' = screen /\ Reading' = Reading
  BY <1>1, <1>6 DEF Taking, Taken, Tip, Reading, NoFrame
<1>11. Hydration'
  <2>1. HeldFollowsScreen'
    BY <1>6 DEF HeldFollowsScreen
  <2> QED
    BY <1>1, <1>6, <1>10, <2>1 DEF Hydration, Taking
<1>12. HeldExit'
  BY <1>6 DEF HeldExit
<1>13. IInv'
  <2>0. Len(<<>>) = 0 /\ MaxPending \in Nat
    BY BoundsAssumption
  <2>a. Len(plane'.buffered) <= MaxPending
    BY <1>6, <2>0
  <2>1. Len(plane'.buffered) <= MaxPending /\ flushing' \in BOOLEAN /\ exited' \in BOOLEAN
    BY <1>1, <2>a DEF Taking
  <2> QED
    BY <1>1, <1>5, <1>6, <1>7, <1>8, <1>9, <1>10, <1>11, <1>12, <2>1, PlaneStep DEF Taking
<1>14. View' = "cold"
  BY <1>6 DEF View
<1> QED
  BY <1>1, <1>13, <1>14, AbsInterrupt

\* An exit held back stays the one after the last output.
LEMMA HeldExitDrops ==
  ASSUME IInv, NEW a, NEW q, Taking(a, q),
         plane'.att = plane.att, plane'.epoch = plane.epoch, plane'.pendingExit = plane.pendingExit
  PROVE  HeldExit'
<1>0. q \in Seq(Frames) /\ q # <<>> /\ a = plane.att /\ q = wire[a] /\ wire'[a] = Tail(q) /\ core' = core
  BY DEF Taking
<1>1. plane.pendingExit =>
        /\ plane.att # None /\ plane.epoch = core.epoch /\ core.exitSent
        /\ \A i \in 1 .. Len(q) : ~(Shows(q[i]) /\ q[i].epoch = core.epoch)
  BY <1>0 DEF IInv, HeldExit
<1>2. plane.pendingExit =>
        \A i \in 1 .. Len(Tail(q)) : ~(Shows(Tail(q)[i]) /\ Tail(q)[i].epoch = core.epoch)
  BY <1>0, <1>1, NothingShown
<1> QED
  BY <1>0, <1>1, <1>2 DEF HeldExit

\* The frames on which receiveRouteFrame gives the attachment up.
LEMMA EndingPreserves ==
  ASSUME IInv, NEW a, NEW q, Taking(a, q), Admits(a, q),
         \/ q[1].kind \in {"failed", "closed"}
         \/ q[1].kind = "unavailable" /\ ~plane.ready
         \/ q[1].kind = "output" /\ ~plane.completed /\ Overflow(plane)
         \/ q[1].kind = "finish" /\ ~plane.completed /\ ~plane.ready
         \/ q[1].kind \in {"ready", "history"} /\ (plane.completed \/ (q[1].kind = "ready") = plane.ready)
  PROVE  IInv' /\ AbsStep
<1>1. plane' = Received(plane, q[1]) /\ plane \in Planes
  BY DEF Admits, Taking
<1>2. plane' \in {Recover(plane), FailRoute(plane), Closed(plane)}
  <2>1. CASE q[1].kind \in {"failed", "closed"}
    BY <1>1, <2>1 DEF Received
  <2>2. CASE q[1].kind = "unavailable" /\ ~plane.ready
    BY <1>1, <2>2 DEF Received
  <2>3. CASE q[1].kind = "output" /\ ~plane.completed /\ Overflow(plane)
    BY <1>1, <2>3 DEF Received, Hold
  <2>4. CASE q[1].kind = "finish" /\ ~plane.completed /\ ~plane.ready
    BY <1>1, <2>4 DEF Received, Finished
  <2>5. CASE q[1].kind \in {"ready", "history"} /\ (plane.completed \/ (q[1].kind = "ready") = plane.ready)
    BY <1>1, <2>5 DEF Received
  <2> QED
    BY <2>1, <2>2, <2>3, <2>4, <2>5
<1>3. Left(plane, plane')
  <2>1. Left(plane, Recover(plane)) /\ Left(plane, FailRoute(plane)) /\ Left(plane, Closed(plane))
    BY <1>1, RecoverIsLeft, FailIsLeft, ClosedIsLeft
  <2> QED
    BY <1>2, <2>1
<1>4. ~Reads(plane, q[1])
  BY DEF Reads
<1> QED
  BY <1>3, <1>4, FrameLeaves

\* HISTORY_UNAVAILABLE after READY.
LEMMA UnavailablePreserves ==
  ASSUME IInv, NEW a, NEW q, Taking(a, q), Admits(a, q), q[1].kind = "unavailable", plane.ready
  PROVE  IInv' /\ AbsStep
<1>0. plane \in Planes /\ core' = core /\ Reading = NoFrame /\ a = plane.att /\ flushing = FALSE
      /\ exited \in BOOLEAN /\ reading[a] = NoFrame
  BY DEF Taking
<1>1. plane' = [plane EXCEPT !.incomplete = TRUE] /\ UNCHANGED <<reading, screen, exited>> /\ flushing' = FALSE
  BY <1>0 DEF Admits, Received, Reads
<1>2. plane' \in Planes
  BY <1>0, <1>1, Zenon DEF Planes
<1>3. /\ plane'.att = plane.att /\ plane'.last = plane.last /\ plane'.epoch = plane.epoch
      /\ plane'.ready = plane.ready /\ plane'.completed = plane.completed
      /\ plane'.buffered = plane.buffered /\ plane'.pendingExit = plane.pendingExit
  <2>1. plane \in Planes /\ plane' = [plane EXCEPT !.incomplete = TRUE]
    BY <1>0, <1>1
  <2>2. plane'.att = plane.att /\ plane'.last = plane.last /\ plane'.epoch = plane.epoch
    BY <2>1, SMT DEF Planes
  <2>3. plane'.buffered = plane.buffered /\ plane'.pendingExit = plane.pendingExit
    BY <2>1, SMT DEF Planes
  <2>4. plane'.ready = plane.ready
    BY <2>1, Zenon DEF Planes
  <2>5. plane'.completed = plane.completed
    BY <2>1, Zenon DEF Planes
  <2> QED
    BY <2>2, <2>3, <2>4, <2>5
<1>4. HeldExit'
  BY <1>3, HeldExitDrops
<1>5. Hydration'
  <2>1. HeldFollowsScreen'
    BY <1>1, <1>3 DEF IInv, Hydration, HeldFollowsScreen
  <2>2. Reading' = NoFrame
    BY <1>0, <1>1, <1>3 DEF Reading
  <2> QED
    BY <1>0, <1>1, <1>3, <2>1, <2>2 DEF IInv, Hydration
<1>6. IInv'
  <2>1. ~Shows(q[1]) /\ q[1].kind \notin {"attached", "resync"} /\ flushing' \in BOOLEAN /\ exited' \in BOOLEAN
    BY <1>0, <1>1 DEF Shows
  <2> QED
    BY <1>1, <1>2, <1>3, <1>4, <1>5, <2>1, FrameDrops
<1>7. View' = View
  BY <1>3 DEF View
<1> QED
  BY <1>0, <1>1, <1>6, <1>7, AbsRests

\* What an admitted frame of the stream is, of the epoch the plane accepts.
LEMMA StreamFacts ==
  ASSUME IInv, NEW a, NEW q, Taking(a, q), Admits(a, q), q[1].kind \in StreamKinds
  PROVE  /\ q \in Seq(Frames) /\ q # <<>> /\ a = plane.att /\ a # None /\ a = core.route
         /\ a \in Attachments /\ q[1] \in Frames /\ q[1].n \in Nat
         /\ q[1].epoch = plane.epoch /\ plane.epoch \in Nat
         /\ plane \in Planes /\ plane.ready \in BOOLEAN /\ core' = core /\ core \in Cores
         /\ reading[a] = NoFrame /\ Reading = NoFrame /\ reading \in [Attachments -> Frames]
         /\ flushing = FALSE /\ exited \in BOOLEAN /\ screen \in Nat /\ screen <= core.produced
         /\ Tip = screen + Len(plane.buffered) /\ Tip \in Nat /\ core.produced \in Nat
         /\ Len(plane.buffered) \in Nat /\ Len(plane.buffered) <= MaxPending
         /\ wire' \in [Attachments -> Seq(Frames)] /\ wire'[a] = Tail(q)
         /\ \A b \in Attachments : b # a => wire'[b] = wire[b]
<1>1. q[1].epoch = plane.epoch
  BY DEF Admits, AdmitEpoch, Unfenced, StreamKinds
<1> QED
  BY <1>1 DEF Taking

LEMMA ShownFacts ==
  ASSUME IInv, NEW a, NEW q, Taking(a, q), Admits(a, q), Shows(q[1])
  PROVE  /\ Line(Tail(q), plane.epoch, TRUE, q[1].n, core.produced)
         /\ Chain(Tail(q), plane.epoch)
         /\ Sent(core, Tail(q), plane.epoch, TRUE, q[1].n)
         /\ Tip <= q[1].n /\ q[1].n <= core.produced
         /\ IF plane.ready THEN q[1].kind = "output" /\ q[1].n = Tip + 1 ELSE q[1].kind = "ready"
<1>0. /\ q \in Seq(Frames) /\ q # <<>> /\ plane.epoch \in Int /\ plane.ready \in BOOLEAN
      /\ Tip \in Nat /\ core.produced \in Nat /\ core \in Cores
      /\ Line(q, plane.epoch, plane.ready, Tip, core.produced) /\ Chain(q, plane.epoch)
      /\ Sent(core, q, plane.epoch, plane.ready, Tip)
  BY DEF Taking
<1>1. q[1].kind \in StreamKinds /\ q[1].kind \notin {"attached", "resync"}
  BY DEF Shows, StreamKinds
<1>2. q[1].epoch = plane.epoch
  BY <1>1, StreamFacts
<1>3. /\ Line(Tail(q), plane.epoch, TRUE, q[1].n, core.produced)
      /\ Tip <= q[1].n /\ q[1].n <= core.produced
      /\ IF plane.ready THEN q[1].kind = "output" /\ q[1].n = Tip + 1 ELSE q[1].kind = "ready"
  BY <1>0, <1>2, LineTakes
<1>4. plane.ready => Tip < q[1].n
  BY <1>0, <1>3
<1>5. Sent(core, Tail(q), plane.epoch, TRUE, q[1].n)
  BY <1>0, <1>2, <1>3, <1>4, SentTakes
<1>6. Chain(Tail(q), plane.epoch)
  BY <1>0, <1>1, ChainDrops
<1> QED
  BY <1>3, <1>5, <1>6

\* A piece of output that is applied.
LEMMA AppliedPreserves ==
  ASSUME IInv, NEW a, NEW q, Taking(a, q), Admits(a, q), q[1].kind = "output", plane.completed
  PROVE  IInv' /\ AbsStep
<1>k. q[1].kind \in StreamKinds /\ Shows(q[1])
  BY DEF StreamKinds, Shows
<1>0. /\ a = plane.att /\ a # None /\ a = core.route /\ core' = core /\ Reading = NoFrame
      /\ plane \in Planes /\ plane.epoch \in Nat /\ q[1].n \in Nat /\ exited \in BOOLEAN
      /\ Tip = screen + Len(plane.buffered) /\ screen \in Nat /\ reading \in [Attachments -> Frames]
      /\ flushing = FALSE /\ Len(plane.buffered) <= MaxPending /\ core.produced \in Nat
      /\ wire' \in [Attachments -> Seq(Frames)] /\ wire'[a] = Tail(q)
      /\ \A b \in Attachments : b # a => wire'[b] = wire[b]
  BY <1>k, StreamFacts
<1>1. /\ plane' = plane /\ reading' = reading /\ exited' = exited /\ flushing' = FALSE
      /\ screen' = q[1].n
  BY <1>0 DEF Admits, Received, Reads, Hold
<1>2. plane.ready /\ plane.buffered = <<>>
  BY <1>0 DEF IInv, Hydration
<1>3. /\ Line(Tail(q), plane.epoch, TRUE, q[1].n, core.produced)
      /\ Chain(Tail(q), plane.epoch) /\ Sent(core, Tail(q), plane.epoch, TRUE, q[1].n)
      /\ q[1].n <= core.produced /\ q[1].n = Tip + 1
  BY <1>2, <1>k, ShownFacts
<1>4. Len(<<>>) = 0
  OBVIOUS
<1>5. screen' = screen + 1 /\ screen < core.produced
  BY <1>0, <1>1, <1>2, <1>3, <1>4
<1>6. Taken' = TRUE /\ Tip' = q[1].n /\ Reading' = NoFrame
  <2>1. Reading' = NoFrame
    BY <1>0, <1>1 DEF Reading
  <2>2. Len(plane'.buffered) = 0 /\ screen' + 0 = q[1].n
    BY <1>0, <1>1, <1>2, <1>4
  <2> QED
    BY <1>1, <1>2, <2>1, <2>2 DEF Taken, Tip, NoFrame
<1>7. HeldExit'
  BY <1>1, HeldExitDrops
<1>8. Hydration'
  <2>1. HeldFollowsScreen'
    BY <1>1, <1>2, <1>4 DEF HeldFollowsScreen
  <2> QED
    BY <1>0, <1>1, <1>2, <1>6, <2>1 DEF IInv, Hydration
<1>9. IInv'
  <2>1. UNCHANGED core /\ plane' \in Planes /\ Len(plane'.buffered) <= MaxPending
        /\ reading' \in [Attachments -> Frames] /\ flushing' \in BOOLEAN /\ exited' \in BOOLEAN
        /\ screen' \in Nat /\ screen' <= core.produced
    BY <1>0, <1>1, <1>3
  <2> QED
    BY <1>0, <1>1, <1>3, <1>6, <1>7, <1>8, <2>1, PlaneStep
<1>10. View = "live" /\ View' = "live"
  BY <1>1 DEF View
<1> QED
  BY <1>0, <1>1, <1>5, <1>9, <1>10, AbsApply

\* A piece of output that is held back.
LEMMA HeldPreserves ==
  ASSUME IInv, NEW a, NEW q, Taking(a, q), Admits(a, q), q[1].kind = "output",
         ~plane.completed, ~Overflow(plane)
  PROVE  IInv' /\ AbsStep
<1>k. q[1].kind \in StreamKinds /\ Shows(q[1])
  BY DEF StreamKinds, Shows
<1>0. /\ a = plane.att /\ a # None /\ a = core.route /\ core' = core /\ Reading = NoFrame
      /\ plane \in Planes /\ plane.epoch \in Nat /\ q[1].n \in Nat /\ exited \in BOOLEAN
      /\ Tip = screen + Len(plane.buffered) /\ screen \in Nat /\ reading \in [Attachments -> Frames]
      /\ flushing = FALSE /\ Len(plane.buffered) \in Nat /\ core.produced \in Nat
      /\ core \in Cores /\ Tip \in Nat /\ screen <= core.produced
      /\ wire' \in [Attachments -> Seq(Frames)] /\ wire'[a] = Tail(q)
      /\ \A b \in Attachments : b # a => wire'[b] = wire[b]
  BY <1>k, StreamFacts
<1> DEFINE b == plane.buffered
<1>1. /\ plane' = [plane EXCEPT !.buffered = Append(b, q[1].n)]
      /\ reading' = reading /\ exited' = exited /\ flushing' = FALSE /\ screen' = screen
  BY <1>0 DEF Admits, Received, Reads, Hold
<1>2. plane.ready
  BY <1>k, ShownFacts
<1>3. /\ Line(Tail(q), plane.epoch, TRUE, q[1].n, core.produced)
      /\ Chain(Tail(q), plane.epoch) /\ Sent(core, Tail(q), plane.epoch, TRUE, q[1].n)
      /\ q[1].n <= core.produced /\ q[1].n = Tip + 1
  BY <1>2, <1>k, ShownFacts
<1>4. b \in Seq(1 .. MaxOutput) /\ q[1].n \in 1 .. MaxOutput
  <2>1. core.produced \in 0 .. MaxOutput
    BY <1>0 DEF Cores
  <2>2. b \in Seq(1 .. MaxOutput)
    BY <1>0 DEF Planes
  <2> QED
    BY <1>0, <1>3, <2>1, <2>2, BoundsAssumption
<1>5. /\ Append(b, q[1].n) \in Seq(1 .. MaxOutput) /\ Len(Append(b, q[1].n)) = Len(b) + 1
      /\ \A i \in 1 .. Len(b) : Append(b, q[1].n)[i] = b[i]
      /\ Append(b, q[1].n)[Len(b) + 1] = q[1].n
      /\ Append(b, q[1].n) = [i \in 1 .. Len(b) + 1 |-> Append(b, q[1].n)[i]]
  BY <1>4
<1>6. plane' \in Planes
  BY <1>0, <1>1, <1>5, Zenon DEF Planes
<1>7. /\ plane'.att = plane.att /\ plane'.last = plane.last /\ plane'.epoch = plane.epoch
      /\ plane'.ready = plane.ready /\ plane'.completed = plane.completed
      /\ plane'.incomplete = plane.incomplete /\ plane'.decoderFinished = plane.decoderFinished
      /\ plane'.buffered = Append(b, q[1].n) /\ plane'.pendingExit = plane.pendingExit
  <2>1. plane \in Planes /\ plane' = [plane EXCEPT !.buffered = Append(b, q[1].n)]
    BY <1>0, <1>1
  <2> QED
    BY <2>1, SMT DEF Planes
<1>8. HeldFollowsScreen'
  <2>1. b = [i \in 1 .. Len(b) |-> screen + i]
    BY <1>2 DEF IInv, Hydration, HeldFollowsScreen
  <2>2. q[1].n = screen + (Len(b) + 1)
    BY <1>0, <1>3
  <2>3. \A i \in 1 .. Len(b) : b[i] = screen + i
    BY <2>1
  <2>4. ASSUME NEW i \in 1 .. Len(b) + 1 PROVE Append(b, q[1].n)[i] = screen + i
    <3>1. Len(b) \in Nat /\ (i \in 1 .. Len(b) \/ i = Len(b) + 1)
      BY <1>0
    <3> QED
      BY <1>5, <2>2, <2>3, <3>1
  <2>5. Append(b, q[1].n) = [i \in 1 .. Len(b) + 1 |-> screen + i]
    BY <1>5, <2>4
  <2>6. Len(plane'.buffered) = Len(b) + 1 /\ screen' = screen /\ plane'.ready
        /\ plane'.buffered = Append(b, q[1].n)
    BY <1>1, <1>2, <1>5, <1>7
  <2>7. plane'.buffered = [i \in 1 .. Len(plane'.buffered) |-> screen' + i]
    BY <2>5, <2>6
  <2> QED
    BY <2>6, <2>7 DEF HeldFollowsScreen
<1>9. Taken' = TRUE /\ Tip' = q[1].n /\ Reading' = NoFrame
  <2>1. q[1].n = screen + (Len(b) + 1)
    BY <1>0, <1>3
  <2> QED
    BY <1>0, <1>1, <1>2, <1>5, <1>7, <2>1 DEF Taken, Tip, Reading, NoFrame
<1>10. HeldExit'
  BY <1>7, HeldExitDrops
<1>11. Hydration'
  BY <1>0, <1>1, <1>2, <1>7, <1>8, <1>9 DEF IInv, Hydration
<1>12. IInv'
  <2>1. Len(plane'.buffered) <= MaxPending
    BY <1>5, <1>7, <1>0, BoundsAssumption DEF Overflow
  <2>2. reading' \in [Attachments -> Frames] /\ flushing' \in BOOLEAN /\ exited' \in BOOLEAN
        /\ screen' \in Nat /\ screen' <= core.produced /\ UNCHANGED core
    BY <1>0, <1>1
  <2> QED
    BY <1>0, <1>1, <1>3, <1>6, <1>7, <1>9, <1>10, <1>11, <2>1, <2>2, PlaneStep
<1>13. View' = View
  BY <1>7 DEF View
<1> QED
  BY <1>0, <1>1, <1>12, <1>13, AbsRests

\* PROCESS_EXIT: every piece of the session was taken before it.
LEMMA ExitFacts ==
  ASSUME IInv, NEW a, NEW q, Taking(a, q), Admits(a, q), q[1].kind = "exit"
  PROVE  /\ core.exitSent /\ core.ended /\ plane.epoch = core.epoch
         /\ plane.ready /\ Tip = core.produced
         /\ \A i \in 1 .. Len(q) : ~(Shows(q[i]) /\ q[i].epoch = core.epoch)
<1>0. q \in Seq(Frames) /\ q # <<>> /\ q[1].epoch = plane.epoch
  BY StreamFacts DEF StreamKinds
<1>1. 1 \in 1 .. Len(q)
  BY <1>0, TailFacts
<1>2. Sent(core, q, plane.epoch, plane.ready, Tip)
  BY DEF Taking
<1>3. core.exitSent /\ q[1].epoch = core.epoch
      /\ \A i \in 1 .. Len(q) : ~(Shows(q[i]) /\ q[i].epoch = core.epoch)
  BY <1>1, <1>2 DEF Sent
<1>4. plane.ready /\ Tip = core.produced
  BY <1>2, <1>3 DEF Sent
<1> QED
  BY <1>0, <1>3, <1>4 DEF IInv, Ends

LEMMA ExitPreserves ==
  ASSUME IInv, NEW a, NEW q, Taking(a, q), Admits(a, q), q[1].kind = "exit"
  PROVE  IInv' /\ AbsStep
<1>0. /\ a = plane.att /\ a # None /\ a = core.route /\ core' = core /\ Reading = NoFrame
      /\ plane \in Planes /\ exited \in BOOLEAN /\ reading[a] = NoFrame
      /\ Tip = screen + Len(plane.buffered) /\ screen \in Nat
      /\ flushing = FALSE /\ q \in Seq(Frames) /\ q # <<>> /\ wire'[a] = Tail(q)
  BY StreamFacts DEF StreamKinds
<1>1. /\ core.exitSent /\ core.ended /\ plane.epoch = core.epoch
      /\ plane.ready /\ Tip = core.produced
      /\ \A i \in 1 .. Len(q) : ~(Shows(q[i]) /\ q[i].epoch = core.epoch)
  BY ExitFacts
<1>2. /\ reading' = reading /\ flushing' = FALSE /\ screen' = screen
      /\ exited' = (exited \/ plane.completed)
      /\ plane' = IF plane.completed THEN plane ELSE [plane EXCEPT !.pendingExit = TRUE]
  BY DEF Admits, Received, Reads
<1>3. /\ plane' \in Planes /\ plane'.att = plane.att /\ plane'.last = plane.last
      /\ plane'.epoch = plane.epoch /\ plane'.ready = plane.ready
      /\ plane'.completed = plane.completed /\ plane'.incomplete = plane.incomplete
      /\ plane'.decoderFinished = plane.decoderFinished /\ plane'.buffered = plane.buffered
  <2>1. CASE plane.completed
    BY <1>0, <1>2, <2>1
  <2>2. CASE ~plane.completed
    <3>1. plane' = [plane EXCEPT !.pendingExit = TRUE]
      BY <1>2, <2>2
    <3>2. plane' \in Planes
      BY <1>0, <3>1, Zenon DEF Planes
    <3>3. plane \in Planes
      BY <1>0
    <3> QED
      BY <3>1, <3>2, <3>3, SMT DEF Planes
  <2> QED
    BY <2>1, <2>2
<1>4. HeldExit'
  <2>1. \A i \in 1 .. Len(Tail(q)) : ~(Shows(Tail(q)[i]) /\ Tail(q)[i].epoch = core.epoch)
    BY <1>0, <1>1, NothingShown
  <2> QED
    BY <1>0, <1>1, <1>3, <2>1, ZenonT(40) DEF HeldExit
<1>5. Hydration'
  <2>1. HeldFollowsScreen'
    BY <1>2, <1>3 DEF IInv, Hydration, HeldFollowsScreen
  <2>2. Reading' = NoFrame
    BY <1>0, <1>2, <1>3 DEF Reading
  <2> QED
    BY <1>0, <1>2, <1>3, <2>1, <2>2 DEF IInv, Hydration
<1>6. IInv'
  <2>1. ~Shows(q[1]) /\ q[1].kind \notin {"attached", "resync"} /\ flushing' \in BOOLEAN /\ exited' \in BOOLEAN
    BY <1>0, <1>2 DEF Shows
  <2> QED
    BY <1>2, <1>3, <1>4, <1>5, <2>1, FrameDrops
<1>7. AbsStep
  <2>1. View' = View
    BY <1>3 DEF View
  <2>2. CASE plane.completed
    <3>1. plane.buffered = <<>>
      BY <1>0, <2>2 DEF IInv, Hydration
    <3>2. Len(<<>>) = 0
      OBVIOUS
    <3>3. screen = core.produced
      BY <1>0, <1>1, <3>1, <3>2
    <3>4. View = "live"
      BY <2>2 DEF View
    <3> QED
      BY <1>0, <1>1, <1>2, <2>1, <2>2, <3>3, <3>4, AbsExit
  <2>3. CASE ~plane.completed
    BY <1>0, <1>2, <2>1, <2>3, AbsRests
  <2> QED
    BY <2>2, <2>3
<1> QED
  BY <1>6, <1>7

\* SNAPSHOT_FINISH completes the hydration and starts to hand over what was held.
LEMMA FinishPreserves ==
  ASSUME IInv, NEW a, NEW q, Taking(a, q), Admits(a, q), q[1].kind = "finish",
         plane.completed \/ plane.ready
  PROVE  IInv' /\ AbsStep
<1>0. /\ a = plane.att /\ a # None /\ core' = core /\ Reading = NoFrame
      /\ plane \in Planes /\ exited \in BOOLEAN /\ reading[a] = NoFrame /\ flushing = FALSE
  BY StreamFacts DEF StreamKinds
<1>1. /\ reading' = reading /\ screen' = screen /\ exited' = exited
      /\ flushing' = (plane'.completed /\ ~plane.completed) /\ plane' = Finished(plane)
  BY <1>0 DEF Admits, Received, Reads
<1>2. ~Shows(q[1]) /\ q[1].kind \notin {"attached", "resync"}
  BY DEF Shows
<1>3. CASE plane.completed
  <2>1. plane' = plane /\ flushing' = FALSE
    BY <1>1, <1>3 DEF Finished
  <2>2. Hydration'
    <3>1. HeldFollowsScreen'
      BY <1>1, <2>1 DEF IInv, Hydration, HeldFollowsScreen
    <3> QED
      BY <1>0, <1>1, <2>1, <3>1 DEF IInv, Hydration, Reading
  <2>3. HeldExit'
    BY <2>1, HeldExitDrops
  <2>4. IInv'
    BY <1>0, <1>1, <1>2, <2>1, <2>2, <2>3, FrameDrops
  <2>5. View' = View
    BY <2>1 DEF View
  <2> QED
    BY <1>0, <1>1, <2>4, <2>5, AbsRests
<1>4. CASE ~plane.completed
  <2> DEFINE i == plane.incomplete \/ ~plane.decoderFinished
  <2>1. plane.ready /\ plane' = [plane EXCEPT !.completed = TRUE, !.timer = FALSE, !.incomplete = i]
    BY <1>1, <1>4 DEF Finished
  <2>2. i \in BOOLEAN
    OBVIOUS
  <2> HIDE DEF i
  <2>3. plane' \in Planes
    BY <1>0, <2>1, <2>2, Zenon DEF Planes
  <2>4. /\ plane'.att = plane.att /\ plane'.last = plane.last /\ plane'.epoch = plane.epoch
        /\ plane'.ready = plane.ready /\ plane'.completed = TRUE
        /\ plane'.buffered = plane.buffered /\ plane'.pendingExit = plane.pendingExit
    <3>1. plane \in Planes /\ plane' = [plane EXCEPT !.completed = TRUE, !.timer = FALSE, !.incomplete = i]
      BY <1>0, <2>1
    <3> QED
      BY <3>1, SMT DEF Planes
  <2>5. flushing' = TRUE
    BY <1>1, <1>4, <2>4
  <2>6. Hydration'
    <3>1. HeldFollowsScreen'
      BY <1>1, <2>4 DEF IInv, Hydration, HeldFollowsScreen
    <3>2. Reading' = NoFrame
      BY <1>0, <1>1, <2>4 DEF Reading
    <3> QED
      BY <1>0, <2>1, <2>4, <2>5, <3>1, <3>2 DEF IInv, Hydration
  <2>7. HeldExit'
    BY <2>4, HeldExitDrops
  <2>8. IInv'
    BY <1>0, <1>1, <1>2, <2>3, <2>4, <2>5, <2>6, <2>7, FrameDrops
  <2>9. View = "restored" /\ View' = "live"
    BY <1>4, <2>1, <2>4 DEF View
  <2> QED
    BY <1>0, <1>1, <2>8, <2>9, AbsGoLive
<1> QED
  BY <1>3, <1>4

\* SNAPSHOT_READY: the reader gets it, and what it shows counts as taken.
LEMMA ReadyPreserves ==
  ASSUME IInv, NEW a, NEW q, Taking(a, q), Admits(a, q), q[1].kind = "ready",
         ~plane.completed, ~plane.ready
  PROVE  IInv' /\ AbsStep
<1>k. q[1].kind \in StreamKinds /\ Shows(q[1])
  BY DEF StreamKinds, Shows
<1>0. /\ a = plane.att /\ a # None /\ a = core.route /\ core' = core /\ a \in Attachments
      /\ plane \in Planes /\ plane.epoch \in Nat /\ q[1].n \in Nat /\ exited \in BOOLEAN
      /\ Tip = screen + Len(plane.buffered) /\ screen \in Nat /\ reading \in [Attachments -> Frames]
      /\ flushing = FALSE /\ Len(plane.buffered) \in Nat /\ Len(plane.buffered) <= MaxPending
      /\ core.produced \in Nat /\ screen <= core.produced /\ q[1] \in Frames
      /\ wire' \in [Attachments -> Seq(Frames)] /\ wire'[a] = Tail(q)
      /\ \A b \in Attachments : b # a => wire'[b] = wire[b]
  BY <1>k, StreamFacts
<1>1. /\ plane' = plane /\ exited' = exited /\ flushing' = FALSE /\ screen' = screen
      /\ reading' = [reading EXCEPT ![a] = q[1]]
  <2>1. Reads(plane, q[1])
    BY DEF IInv, Hydration, Reads
  <2> QED
    BY <1>0, <2>1 DEF Admits, Received, Hold
<1>2. /\ Line(Tail(q), plane.epoch, TRUE, q[1].n, core.produced)
      /\ Chain(Tail(q), plane.epoch) /\ Sent(core, Tail(q), plane.epoch, TRUE, q[1].n)
      /\ q[1].n <= core.produced /\ Tip <= q[1].n
  BY <1>k, ShownFacts
<1>3. Reading' = q[1] /\ Taken' = TRUE /\ Tip' = q[1].n
  BY <1>0, <1>1 DEF Reading, Taken, Tip
<1>4. reading' \in [Attachments -> Frames] /\ \A b \in Attachments : b # a => reading'[b] = reading[b]
  BY <1>0, <1>1
<1>5. HeldExit'
  BY <1>1, HeldExitDrops
<1>6. Hydration'
  <2>1. HeldFollowsScreen'
    BY <1>1 DEF IInv, Hydration, HeldFollowsScreen
  <2>2. screen <= q[1].n /\ plane.epoch # NoEpoch
    BY <1>0, <1>2 DEF NoEpoch
  <2> QED
    BY <1>0, <1>1, <1>2, <1>3, <2>1, <2>2 DEF IInv, Hydration
<1>7. IInv'
  <2>1. flushing' \in BOOLEAN /\ exited' \in BOOLEAN
        /\ screen' \in Nat /\ screen' <= core.produced /\ UNCHANGED core
    BY <1>0, <1>1
  <2> QED
    BY <1>0, <1>1, <1>2, <1>3, <1>4, <1>5, <1>6, <2>1, PlaneStep
<1>8. View' = View
  BY <1>1 DEF View
<1> QED
  BY <1>0, <1>1, <1>7, <1>8, AbsRests

\* SNAPSHOT_HISTORY after READY: read, or dropped when the history is closed.
LEMMA HistoryPreserves ==
  ASSUME IInv, NEW a, NEW q, Taking(a, q), Admits(a, q), q[1].kind = "history",
         ~plane.completed, plane.ready
  PROVE  IInv' /\ AbsStep
<1>0. /\ a = plane.att /\ a # None /\ core' = core /\ a \in Attachments /\ reading[a] = NoFrame
      /\ plane \in Planes /\ plane.epoch \in Nat /\ exited \in BOOLEAN
      /\ reading \in [Attachments -> Frames] /\ flushing = FALSE /\ q[1] \in Frames
  BY StreamFacts DEF StreamKinds
<1>1. /\ plane' = plane /\ exited' = exited /\ flushing' = FALSE /\ screen' = screen
      /\ reading' = reading \/ reading' = [reading EXCEPT ![a] = q[1]]
  BY <1>0 DEF Admits, Received, Hold
<1>2. Reading' = NoFrame \/ Reading' = q[1]
  BY <1>0, <1>1 DEF Reading
<1>3. HeldExit'
  BY <1>1, HeldExitDrops
<1>4. Hydration'
  <2>1. HeldFollowsScreen'
    BY <1>1 DEF IInv, Hydration, HeldFollowsScreen
  <2>2. plane.epoch # NoEpoch
    BY <1>0 DEF NoEpoch
  <2> QED
    BY <1>0, <1>1, <1>2, <2>1, <2>2 DEF IInv, Hydration
<1>5. IInv'
  <2>1. ~Shows(q[1]) /\ q[1].kind \notin {"attached", "resync"} /\ flushing' \in BOOLEAN /\ exited' \in BOOLEAN
    BY <1>0, <1>1 DEF Shows
  <2> QED
    BY <1>0, <1>1, <1>3, <1>4, <2>1, FrameDrops
<1>6. View' = View
  BY <1>1 DEF View
<1> QED
  BY <1>0, <1>1, <1>5, <1>6, AbsRests

\* A frame of an abandoned attachment changes nothing.
LEMMA AbandonedPreserves ==
  ASSUME IInv, NEW a \in Attachments, HandleFrame(a), a # plane.att
  PROVE  IInv' /\ AbsStep
<1>0. /\ wire \in [Attachments -> Seq(Frames)] /\ reading \in [Attachments -> Frames]
      /\ flushing \in BOOLEAN /\ exited \in BOOLEAN /\ plane.last \in Nat
  BY CoreFacts DEF IInv, Typed
<1>1. /\ plane' = plane /\ reading' = reading /\ screen' = screen /\ core' = core
      /\ exited' = exited /\ flushing' = FALSE /\ ~flushing
      /\ wire[a] # <<>> /\ wire' = [wire EXCEPT ![a] = Tail(@)]
  BY <1>0 DEF HandleFrame
<1>2. Tail(wire[a]) \in Seq(Frames)
  BY <1>0, <1>1, TailFacts
<1>3. wire' \in [Attachments -> Seq(Frames)] /\ \A b \in Attachments : b # a => wire'[b] = wire[b]
  BY <1>0, <1>1, <1>2
<1>4. ~(plane.last < a)
  BY <1>1 DEF IInv, Fresh
<1>5. \A b \in Attachments : b = plane.att \/ plane.last < b => b # a
  BY <1>4
<1> QED
  BY <1>0, <1>1, <1>3, <1>5, StaleStep

LEMMA HandlesPreserve ==
  ASSUME IInv, NEW a \in Attachments, HandleFrame(a)
  PROVE  IInv' /\ AbsStep
<1>1. CASE a # plane.att
  BY <1>1, AbandonedPreserves
<1>2. CASE a = plane.att /\ ~AdmitEpoch(plane, Head(wire[a]))
  BY <1>2, RefusedPreserves
<1>3. CASE a = plane.att /\ AdmitEpoch(plane, Head(wire[a]))
  <2> DEFINE q == wire[a]
  <2>1. Taking(a, q) /\ Admits(a, q)
    BY <1>3, HandleFacts, AdmitFacts
  <2>2. q[1].kind \in StreamKinds \cup Unfenced \cup {"resync"} /\ plane.ready \in BOOLEAN
    BY <2>1 DEF Admits, AdmitEpoch, Taking
  <2> HIDE DEF q
  <2>3. CASE q[1].kind \in Unfenced
    <3>1. CASE q[1].kind = "attached"
      BY <2>1, <3>1, AttachedPreserves
    <3>2. CASE q[1].kind \in {"failed", "closed"}
      BY <2>1, <3>2, EndingPreserves
    <3> QED
      BY <2>3, <3>1, <3>2 DEF Unfenced
  <2>4. CASE q[1].kind = "resync"
    BY <2>1, <2>4, ResyncedPreserves
  <2>5. CASE q[1].kind = "unavailable"
    BY <2>1, <2>5, UnavailablePreserves, EndingPreserves
  <2>6. CASE q[1].kind = "output"
    BY <2>1, <2>6, AppliedPreserves, HeldPreserves, EndingPreserves
  <2>7. CASE q[1].kind = "exit"
    BY <2>1, <2>7, ExitPreserves
  <2>8. CASE q[1].kind = "finish"
    BY <2>1, <2>8, FinishPreserves, EndingPreserves
  <2>9. CASE q[1].kind \in {"ready", "history"}
    <3>1. CASE plane.completed \/ (q[1].kind = "ready") = plane.ready
      BY <2>1, <2>9, <3>1, EndingPreserves
    <3>2. CASE ~plane.completed /\ (q[1].kind = "ready") # plane.ready /\ q[1].kind = "ready"
      <4>1. ~plane.ready
        BY <2>2, <3>2
      <4> QED
        BY <2>1, <3>2, <4>1, ReadyPreserves
    <3>3. CASE ~plane.completed /\ (q[1].kind = "ready") # plane.ready /\ q[1].kind = "history"
      <4>1. plane.ready
        BY <2>2, <3>3
      <4> QED
        BY <2>1, <3>3, <4>1, HistoryPreserves
    <3> QED
      BY <2>9, <3>1, <3>2, <3>3
  <2> QED
    BY <2>2, <2>3, <2>4, <2>5, <2>6, <2>7, <2>8, <2>9 DEF StreamKinds
<1> QED
  BY <1>1, <1>2, <1>3

-----------------------------------------------------------------------------
(* The reader, the hand-over of held output, and the endings.              *)

\* What is known when the reader of the current attachment returns.
LEMMA ReadFacts ==
  ASSUME IInv, NEW a \in Attachments, ReadReturns(a)
  PROVE  /\ reading[a] # NoFrame /\ flushing = FALSE /\ UNCHANGED <<core, wire, flushing, exited>>
         /\ wire \in [Attachments -> Seq(Frames)] /\ reading \in [Attachments -> Frames]
         /\ reading' \in [Attachments -> Frames] /\ reading'[a] = NoFrame
         /\ \A b \in Attachments : b # a => reading'[b] = reading[b]
         /\ a <= plane.last /\ plane.last \in Nat /\ a \in Nat
<1>0. /\ wire \in [Attachments -> Seq(Frames)] /\ reading \in [Attachments -> Frames]
      /\ flushing \in BOOLEAN /\ plane.last \in Nat /\ a \in Nat
  BY CoreFacts DEF IInv, Typed, Attachments
<1>1. /\ reading[a] # NoFrame /\ ~flushing /\ reading' = [reading EXCEPT ![a] = NoFrame]
      /\ UNCHANGED <<core, wire, flushing, exited>>
  BY DEF ReadReturns
<1>2. NoFrame \in Frames
  BY BoundsAssumption DEF NoFrame, Frames, Kinds
<1>3. a <= plane.last
  BY <1>0, <1>1 DEF IInv, Fresh
<1> QED
  BY <1>0, <1>1, <1>2, <1>3

\* The decoded frame is installed.
LEMMA DecodedPreserves ==
  ASSUME IInv, NEW a \in Attachments, ReadReturns(a), a = plane.att,
         plane' = Decoded(plane, reading[a]),
         screen' = IF reading[a].kind = "ready" THEN reading[a].n ELSE screen
  PROVE  IInv' /\ AbsStep
<1> DEFINE f == reading[a]
<1>0. /\ f # NoFrame /\ Reading = f /\ flushing = FALSE /\ UNCHANGED <<core, wire, flushing, exited>>
      /\ wire \in [Attachments -> Seq(Frames)] /\ reading' \in [Attachments -> Frames]
      /\ reading'[a] = NoFrame /\ a # None /\ f \in Frames /\ exited \in BOOLEAN
      /\ \A b \in Attachments : b # a => reading'[b] = reading[b]
  <2>1. /\ f # NoFrame /\ flushing = FALSE /\ UNCHANGED <<core, wire, flushing, exited>>
        /\ wire \in [Attachments -> Seq(Frames)] /\ reading' \in [Attachments -> Frames]
        /\ reading'[a] = NoFrame /\ reading \in [Attachments -> Frames]
        /\ \A b \in Attachments : b # a => reading'[b] = reading[b]
    BY ReadFacts
  <2>2. Reading = f /\ f \in Frames
    BY <2>1 DEF Reading
  <2>3. a # None /\ exited \in BOOLEAN
    BY DEF IInv, Typed, Attachments, None
  <2> QED
    BY <2>1, <2>2, <2>3
<1>1. a = core.route
  BY <1>0 DEF IInv, Fresh
<1>2. /\ plane \in Planes /\ Len(plane.buffered) <= MaxPending /\ Len(plane.buffered) \in Nat
      /\ core.produced \in Nat /\ screen \in Nat /\ screen <= core.produced /\ f.n \in Nat
  BY <1>0, CoreFacts DEF IInv, Typed, Ends, Frames
<1>3. /\ ~plane.completed /\ plane.epoch # NoEpoch
      /\ f.kind = "ready" => ~plane.ready /\ screen <= f.n /\ f.n <= core.produced
      /\ f.kind # "ready" => f.kind = "history" /\ plane.ready
  BY <1>0 DEF IInv, Hydration
<1>4. /\ Tip <= core.produced
      /\ Line(wire[a], plane.epoch, Taken, Tip, core.produced)
      /\ Chain(wire[a], plane.epoch)
      /\ Sent(core, wire[a], plane.epoch, Taken, Tip)
  BY <1>0, <1>1 DEF IInv, Stream
<1>5. Taken = TRUE /\ Tip = IF f.kind = "ready" THEN f.n ELSE screen + Len(plane.buffered)
  BY <1>0, <1>3 DEF Taken, Tip
<1> DEFINE d == [plane EXCEPT !.ready = TRUE, !.decoderFinished = (f.kind = "history" /\ f.n = 1)]
<1>6. plane' = [d EXCEPT !.timer = ~d.completed]
  BY DEF Decoded, Armed
<1>7. /\ d \in Planes /\ d.att = plane.att /\ d.last = plane.last /\ d.epoch = plane.epoch
      /\ d.ready = TRUE /\ d.completed = plane.completed /\ d.incomplete = plane.incomplete
      /\ d.buffered = plane.buffered /\ d.pendingExit = plane.pendingExit
  <2>1. (f.kind = "history" /\ f.n = 1) \in BOOLEAN
    OBVIOUS
  <2>2. d \in Planes
    BY <1>2, <2>1, Zenon DEF Planes
  <2> QED
    BY <1>2, <2>2, SMT DEF Planes
<1> HIDE DEF d
<1>8. /\ plane' \in Planes /\ plane'.att = plane.att /\ plane'.last = plane.last
      /\ plane'.epoch = plane.epoch /\ plane'.ready = TRUE /\ plane'.completed = plane.completed
      /\ plane'.incomplete = plane.incomplete
      /\ plane'.buffered = plane.buffered /\ plane'.pendingExit = plane.pendingExit
  <2>1. (~d.completed) \in BOOLEAN
    OBVIOUS
  <2>2. plane' \in Planes
    BY <1>6, <1>7, <2>1, Zenon DEF Planes
  <2> QED
    BY <1>6, <1>7, <2>2, SMT DEF Planes
<1>9. f.kind = "ready" => plane.buffered = <<>> /\ Len(plane.buffered) = 0
  <2>1. f.kind = "ready" => plane.buffered = <<>>
    BY <1>3 DEF IInv, Hydration, HeldFollowsScreen
  <2>2. Len(<<>>) = 0
    OBVIOUS
  <2> QED
    BY <2>1, <2>2
<1>10. Reading' = NoFrame
  BY <1>0, <1>8 DEF Reading
<1>11. screen' \in Nat /\ screen' <= core.produced /\ screen <= screen'
  BY <1>2, <1>3
<1>12. Taken' = Taken /\ Tip' = Tip
  BY <1>2, <1>5, <1>8, <1>9, <1>10 DEF Taken, Tip, NoFrame
<1>13. HeldFollowsScreen'
  <2>1. CASE f.kind = "ready"
    BY <1>8, <1>9, <2>1 DEF HeldFollowsScreen
  <2>2. CASE f.kind # "ready"
    BY <1>3, <1>8, <2>2 DEF IInv, Hydration, HeldFollowsScreen
  <2> QED
    BY <2>1, <2>2
<1>14. Hydration'
  BY <1>0, <1>3, <1>8, <1>10, <1>13 DEF IInv, Hydration
<1>15. HeldExit'
  BY <1>0, <1>8 DEF IInv, HeldExit
<1>16. IInv'
  <2>1. flushing' \in BOOLEAN /\ exited' \in BOOLEAN /\ wire' \in [Attachments -> Seq(Frames)]
        /\ \A b \in Attachments : b # a => wire'[b] = wire[b]
    BY <1>0
  <2> QED
    BY <1>0, <1>1, <1>2, <1>4, <1>8, <1>11, <1>12, <1>14, <1>15, <2>1, PlaneStep
<1>17. AbsStep
  <2>1. CASE f.kind = "ready"
    <3>1. View = "cold" /\ View' = "restored"
      BY <1>3, <1>8, <2>1 DEF View
    <3>2. screen' \in screen .. core.produced
      BY <1>2, <1>11
    <3> QED
      BY <1>0, <3>1, <3>2, AbsRestore
  <2>2. CASE f.kind # "ready"
    <3>1. View' = View
      BY <1>3, <1>8, <2>2 DEF View
    <3> QED
      BY <1>0, <2>2, <3>1, AbsRests
  <2> QED
    BY <2>1, <2>2
<1> QED
  BY <1>16, <1>17

LEMMA ReadsPreserve ==
  ASSUME IInv, NEW a \in Attachments, ReadReturns(a)
  PROVE  IInv' /\ AbsStep
<1>0. /\ reading[a] # NoFrame /\ flushing = FALSE /\ UNCHANGED <<core, wire, flushing, exited>>
      /\ wire \in [Attachments -> Seq(Frames)] /\ reading' \in [Attachments -> Frames]
      /\ \A b \in Attachments : b # a => reading'[b] = reading[b]
      /\ a <= plane.last /\ plane.last \in Nat /\ a \in Nat
  BY ReadFacts
<1>1. \A b \in Attachments : plane.last < b => b # a
  BY <1>0 DEF Attachments
<1>2. CASE a # plane.att
  <2>1. UNCHANGED <<plane, screen>>
    BY <1>2 DEF ReadReturns, StillReads
  <2> QED
    BY <1>0, <1>1, <1>2, <2>1, StaleStep
<1>3. CASE a = plane.att
  <2>1. \/ /\ plane' = Decoded(plane, reading[a])
           /\ screen' = IF reading[a].kind = "ready" THEN reading[a].n ELSE screen
        \/ plane' = Recover(plane) /\ UNCHANGED screen
    BY <1>3 DEF ReadReturns, StillReads
  <2>2. CASE plane' = Recover(plane) /\ UNCHANGED screen
    <3>1. Left(plane, plane')
      BY <2>2, RecoverIsLeft DEF IInv, Typed
    <3> QED
      BY <1>0, <1>1, <2>2, <3>1, LeftStep
  <2> QED
    BY <1>3, <2>1, <2>2, DecodedPreserves
<1> QED
  BY <1>2, <1>3

\* What is known while completeHydration hands over what was held.
LEMMA FlushFacts ==
  ASSUME IInv, flushing
  PROVE  /\ plane.att # None /\ plane.att = core.route /\ plane.completed /\ plane.ready
         /\ plane.att \in Attachments /\ Reading = NoFrame
         /\ plane \in Planes /\ plane.buffered \in Seq(1 .. MaxOutput)
         /\ Len(plane.buffered) \in Nat /\ Len(plane.buffered) <= MaxPending
         /\ wire \in [Attachments -> Seq(Frames)] /\ reading \in [Attachments -> Frames]
         /\ exited \in BOOLEAN /\ screen \in Nat /\ screen <= core.produced /\ core.produced \in Nat
         /\ Taken = TRUE /\ Tip = screen + Len(plane.buffered) /\ Tip <= core.produced
         /\ Line(wire[plane.att], plane.epoch, TRUE, Tip, core.produced)
         /\ Chain(wire[plane.att], plane.epoch)
         /\ Sent(core, wire[plane.att], plane.epoch, TRUE, Tip)
         /\ plane.epoch # NoEpoch
<1>1. plane.att # None /\ plane.completed /\ plane.ready /\ plane.epoch # NoEpoch
  BY DEF IInv, Hydration
<1>2. plane.att = core.route
  BY <1>1 DEF IInv, Fresh
<1>3. Reading = NoFrame
  BY <1>1 DEF IInv, Hydration
<1>4. Taken = TRUE /\ Tip = screen + Len(plane.buffered)
  BY <1>1, <1>3 DEF Taken, Tip, NoFrame
<1>5. /\ plane \in Planes /\ Len(plane.buffered) <= MaxPending
      /\ wire \in [Attachments -> Seq(Frames)] /\ reading \in [Attachments -> Frames]
      /\ exited \in BOOLEAN /\ screen <= core.produced
  BY DEF IInv, Typed, Ends
<1>6. plane.buffered \in Seq(1 .. MaxOutput)
  BY <1>5 DEF Planes
<1>7. /\ Tip <= core.produced /\ Chain(wire[plane.att], plane.epoch)
      /\ Line(wire[plane.att], plane.epoch, TRUE, Tip, core.produced)
      /\ Sent(core, wire[plane.att], plane.epoch, TRUE, Tip)
  BY <1>1, <1>2, <1>4 DEF IInv, Stream
<1> QED
  BY <1>1, <1>2, <1>3, <1>4, <1>5, <1>6, <1>7, CoreFacts

\* One turn of its loop applies the next piece.
LEMMA FlushOnePreserves ==
  ASSUME IInv, FlushOne
  PROVE  IInv' /\ AbsStep
<1> DEFINE b == plane.buffered
           a == plane.att
<1>1. /\ flushing /\ b # <<>> /\ screen' = Head(b) /\ plane' = [plane EXCEPT !.buffered = Tail(b)]
      /\ UNCHANGED <<core, wire, reading, flushing, exited>>
  BY DEF FlushOne
<1>0. /\ a # None /\ a = core.route /\ plane.completed /\ plane.ready /\ a \in Attachments
      /\ Reading = NoFrame /\ plane \in Planes /\ b \in Seq(1 .. MaxOutput) /\ Len(b) \in Nat
      /\ Len(b) <= MaxPending
      /\ wire \in [Attachments -> Seq(Frames)] /\ reading \in [Attachments -> Frames]
      /\ exited \in BOOLEAN /\ screen \in Nat /\ core.produced \in Nat
      /\ Taken = TRUE /\ Tip = screen + Len(b) /\ Tip <= core.produced
      /\ Line(wire[a], plane.epoch, TRUE, Tip, core.produced) /\ Chain(wire[a], plane.epoch)
      /\ Sent(core, wire[a], plane.epoch, TRUE, Tip) /\ plane.epoch # NoEpoch
  BY <1>1, FlushFacts
<1>2. /\ Tail(b) \in Seq(1 .. MaxOutput) /\ Len(Tail(b)) = Len(b) - 1 /\ Len(b) >= 1
      /\ Head(b) = b[1] /\ 1 \in 1 .. Len(b)
      /\ \A i \in 1 .. Len(b) - 1 : i + 1 \in 1 .. Len(b) /\ Tail(b)[i] = b[i + 1]
      /\ Tail(b) = [i \in 1 .. Len(b) - 1 |-> Tail(b)[i]]
  <2>1. b \in Seq(1 .. MaxOutput) /\ b # <<>>
    BY <1>0, <1>1
  <2> HIDE DEF b
  <2>2. /\ Tail(b) \in Seq(1 .. MaxOutput) /\ Len(Tail(b)) = Len(b) - 1 /\ Len(b) >= 1
        /\ Head(b) = b[1] /\ 1 \in 1 .. Len(b)
        /\ \A i \in 1 .. Len(b) - 1 : i + 1 \in 1 .. Len(b) /\ Tail(b)[i] = b[i + 1]
    BY <2>1
  <2>3. Tail(b) = [i \in 1 .. Len(Tail(b)) |-> Tail(b)[i]]
    <3> DEFINE t == Tail(b)
    <3>1. t \in Seq(1 .. MaxOutput)
      BY <2>2
    <3> HIDE DEF t
    <3>2. t = [i \in 1 .. Len(t) |-> t[i]]
      BY <3>1
    <3> QED
      BY <3>2 DEF t
  <2> QED
    BY <2>2, <2>3
<1>3. b = [i \in 1 .. Len(b) |-> screen + i]
  BY <1>0 DEF IInv, Hydration, HeldFollowsScreen
<1>4. \A i \in 1 .. Len(b) : b[i] = screen + i
  BY <1>3
<1>5. screen' = screen + 1
  BY <1>1, <1>2, <1>4
<1>6. screen < core.produced
  BY <1>0, <1>2
<1>7. plane' \in Planes
  BY <1>0, <1>1, <1>2, Zenon DEF Planes
<1>8. /\ plane'.att = plane.att /\ plane'.last = plane.last /\ plane'.epoch = plane.epoch
      /\ plane'.ready = plane.ready /\ plane'.completed = plane.completed
      /\ plane'.incomplete = plane.incomplete /\ plane'.decoderFinished = plane.decoderFinished
      /\ plane'.buffered = Tail(b) /\ plane'.pendingExit = plane.pendingExit
  <2>1. plane \in Planes /\ plane' = [plane EXCEPT !.buffered = Tail(b)]
    BY <1>0, <1>1
  <2> QED
    BY <2>1, SMT DEF Planes
<1> HIDE DEF b, a
<1>9. HeldFollowsScreen'
  <2>1. \A i \in 1 .. Len(b) - 1 : Tail(b)[i] = screen + (i + 1)
    BY <1>2, <1>4
  <2>2. \A i \in 1 .. Len(b) - 1 : Tail(b)[i] = screen' + i
    BY <1>0, <1>5, <2>1
  <2>3. Tail(b) = [i \in 1 .. Len(b) - 1 |-> screen' + i]
    BY <1>2, <2>2
  <2> QED
    BY <1>0, <1>2, <1>8, <2>3 DEF HeldFollowsScreen
<1>10. Reading' = NoFrame /\ Taken' = TRUE /\ Tip' = Tip
  <2>1. Reading' = NoFrame
    BY <1>0, <1>1, <1>8 DEF Reading
  <2>2. screen' + (Len(b) - 1) = screen + Len(b)
    BY <1>0, <1>5
  <2> QED
    BY <1>0, <1>2, <1>8, <2>1, <2>2 DEF Taken, Tip, NoFrame
<1>11. Hydration'
  BY <1>0, <1>1, <1>8, <1>9, <1>10 DEF IInv, Hydration
<1>12. HeldExit'
  BY <1>1, <1>8 DEF IInv, HeldExit
<1>13. IInv'
  <2>1. Len(plane'.buffered) <= MaxPending
    BY <1>0, <1>2, <1>8, BoundsAssumption
  <2>2. screen' \in Nat /\ screen' <= core.produced
    BY <1>0, <1>5, <1>6
  <2>3. flushing' \in BOOLEAN /\ exited' \in BOOLEAN /\ wire' \in [Attachments -> Seq(Frames)]
        /\ reading' \in [Attachments -> Frames]
        /\ \A c \in Attachments : c # a => wire'[c] = wire[c] /\ reading'[c] = reading[c]
    BY <1>0, <1>1 DEF IInv, Typed
  <2> QED
    BY <1>0, <1>1, <1>7, <1>8, <1>10, <1>11, <1>12, <2>1, <2>2, <2>3, PlaneStep DEF a
<1>14. View = "live" /\ View' = "live"
  BY <1>0, <1>8 DEF View
<1> QED
  BY <1>1, <1>5, <1>6, <1>13, <1>14, AbsApply

\* Its end reports the exit that was held back.
LEMMA FlushEndsPreserves ==
  ASSUME IInv, FlushEnds
  PROVE  IInv' /\ AbsStep
<1> DEFINE a == plane.att
<1>1. /\ flushing /\ plane.buffered = <<>> /\ flushing' = FALSE
      /\ exited' = (exited \/ plane.pendingExit)
      /\ UNCHANGED <<core, wire, plane, reading, screen>>
  BY DEF FlushEnds
<1>0. /\ a # None /\ a = core.route /\ plane.completed /\ plane.ready
      /\ Reading = NoFrame /\ plane \in Planes /\ Len(plane.buffered) <= MaxPending
      /\ wire \in [Attachments -> Seq(Frames)] /\ reading \in [Attachments -> Frames]
      /\ exited \in BOOLEAN /\ screen \in Nat /\ screen <= core.produced
      /\ Taken = TRUE /\ Tip = screen + Len(plane.buffered) /\ Tip <= core.produced
      /\ Line(wire[a], plane.epoch, TRUE, Tip, core.produced) /\ Chain(wire[a], plane.epoch)
      /\ Sent(core, wire[a], plane.epoch, TRUE, Tip) /\ plane.epoch # NoEpoch
  BY <1>1, FlushFacts
<1>2. Reading' = NoFrame /\ Taken' = TRUE /\ Tip' = Tip
  BY <1>0, <1>1 DEF Reading, Taken, Tip, NoFrame
<1>3. Hydration'
  <2>1. HeldFollowsScreen'
    BY <1>1 DEF IInv, Hydration, HeldFollowsScreen
  <2> QED
    BY <1>0, <1>1, <1>2, <2>1 DEF IInv, Hydration
<1>4. HeldExit'
  BY <1>1 DEF IInv, HeldExit
<1>5. IInv'
  <2>1. flushing' \in BOOLEAN /\ exited' \in BOOLEAN
    BY <1>0, <1>1 DEF Planes
  <2>2. plane' \in Planes /\ plane'.att = plane.att /\ plane'.last = plane.last
        /\ Len(plane'.buffered) <= MaxPending /\ plane'.epoch = plane.epoch
        /\ wire' \in [Attachments -> Seq(Frames)] /\ reading' \in [Attachments -> Frames]
        /\ \A c \in Attachments : c # a => wire'[c] = wire[c] /\ reading'[c] = reading[c]
        /\ wire'[a] = wire[a] /\ screen' \in Nat /\ screen' <= core.produced
    BY <1>0, <1>1
  <2> QED
    BY <1>0, <1>1, <1>2, <1>3, <1>4, <2>1, <2>2, PlaneStep
<1>6. View = "live" /\ View' = "live"
  BY <1>0, <1>1 DEF View
<1>7. AbsStep
  <2>1. CASE plane.pendingExit
    <3>1. /\ plane.epoch = core.epoch /\ core.exitSent
          /\ \A i \in 1 .. Len(wire[a]) : ~(Shows(wire[a][i]) /\ wire[a][i].epoch = core.epoch)
      BY <2>1 DEF IInv, HeldExit
    <3>2. Tip = core.produced
      BY <1>0, <3>1 DEF Sent
    <3>3. Len(<<>>) = 0
      OBVIOUS
    <3>4. screen = core.produced
      BY <1>0, <1>1, <3>2, <3>3
    <3>5. core.ended
      BY <3>1 DEF IInv, Ends
    <3> QED
      BY <1>1, <1>6, <2>1, <3>4, <3>5, AbsExit
  <2>2. CASE ~plane.pendingExit
    BY <1>0, <1>1, <1>6, <2>2, AbsRests
  <2> QED
    BY <2>1, <2>2
<1> QED
  BY <1>5, <1>7

\* The settling of streamSubscription.ready touches only what the user is told.
LEMMA SettlesPreserve ==
  ASSUME IInv, ReadyResolves \/ ReadyRejects
  PROVE  IInv' /\ AbsStep
<1>0. plane \in Planes /\ UNCHANGED <<core, wire, reading, flushing, screen, exited>>
  BY DEF ReadyResolves, ReadyRejects, IInv, Typed
<1> DEFINE o == [plane EXCEPT !.opening = FALSE]
<1>1. plane' = [o EXCEPT !.timer = ~o.completed] \/ plane' = [plane EXCEPT !.opening = FALSE, !.failed = TRUE]
  BY DEF ReadyResolves, ReadyRejects, Armed
<1>2. /\ plane' \in Planes /\ plane'.att = plane.att /\ plane'.last = plane.last
      /\ plane'.epoch = plane.epoch /\ plane'.ready = plane.ready
      /\ plane'.completed = plane.completed /\ plane'.incomplete = plane.incomplete
      /\ plane'.decoderFinished = plane.decoderFinished
      /\ plane'.buffered = plane.buffered /\ plane'.pendingExit = plane.pendingExit
  <2>1. CASE plane' = [o EXCEPT !.timer = ~o.completed]
    <3>1. o \in Planes
      BY <1>0, Zenon DEF Planes
    <3>2. (~o.completed) \in BOOLEAN
      OBVIOUS
    <3>3. /\ o.att = plane.att /\ o.last = plane.last /\ o.epoch = plane.epoch
          /\ o.ready = plane.ready /\ o.completed = plane.completed /\ o.incomplete = plane.incomplete
          /\ o.decoderFinished = plane.decoderFinished
          /\ o.buffered = plane.buffered /\ o.pendingExit = plane.pendingExit
      BY <1>0, SMT DEF Planes
    <3> HIDE DEF o
    <3>4. plane' \in Planes
      BY <2>1, <3>1, <3>2, Zenon DEF Planes
    <3> QED
      BY <2>1, <3>1, <3>3, <3>4, SMT DEF Planes
  <2>2. CASE plane' = [plane EXCEPT !.opening = FALSE, !.failed = TRUE]
    <3>1. plane' \in Planes
      BY <1>0, <2>2, Zenon DEF Planes
    <3> QED
      BY <1>0, <2>2, <3>1, SMT DEF Planes
  <2> QED
    BY <1>1, <2>1, <2>2
<1>3. Typed' /\ Fresh' /\ Ends'
  BY <1>0, <1>2 DEF IInv, Typed, Fresh, Ends
<1>4. HeldFollowsScreen'
  BY <1>0, <1>2 DEF IInv, Hydration, HeldFollowsScreen
<1>5. Hydration'
  BY <1>0, <1>2, <1>4 DEF IInv, Hydration, Reading
<1>6. HeldExit'
  BY <1>0, <1>2 DEF IInv, HeldExit
<1>7. Stream'
  BY <1>0, <1>2 DEF IInv, Stream, Taken, Tip, Reading
<1>8. View' = View
  BY <1>2 DEF View
<1>9. IInv'
  BY <1>3, <1>5, <1>6, <1>7 DEF IInv
<1> QED
  BY <1>0, <1>8, <1>9, AbsRests

\* The progress bound, the lost transport and detach leave the attachment.
LEMMA LeavesPreserve ==
  ASSUME IInv, ProgressTimesOut \/ TransportLost \/ Detach
  PROVE  IInv' /\ AbsStep
<1>0. /\ plane \in Planes /\ wire \in [Attachments -> Seq(Frames)]
      /\ reading \in [Attachments -> Frames] /\ flushing \in BOOLEAN
  BY DEF IInv, Typed
<1>1. UNCHANGED <<core, wire, reading, screen, exited>> /\ flushing' = FALSE
  BY <1>0 DEF ProgressTimesOut, TransportLost, Detach
<1>2. Left(plane, plane')
  <2>1. CASE ProgressTimesOut
    <3> DEFINE m == [plane EXCEPT !.timer = FALSE]
    <3>1. m \in Planes
      BY <1>0, Zenon DEF Planes
    <3>2. m.last = plane.last
      BY <1>0, SMT DEF Planes
    <3>3. plane' = Recover(m)
      BY <2>1 DEF ProgressTimesOut
    <3> HIDE DEF m
    <3>4. Left(m, plane')
      BY <3>1, <3>3, RecoverIsLeft
    <3> QED
      BY <3>2, <3>4 DEF Left
  <2>2. CASE TransportLost
    <3>1. plane' = [Attached(plane) EXCEPT !.recoveries = 0] /\ plane.last < MaxAttach
      BY <2>2 DEF TransportLost
    <3>2. Left(plane, Attached(plane)) /\ 0 \in 0 .. 1
      BY <1>0, <3>1, AttachedIsLeft
    <3>3. Left(plane, [Attached(plane) EXCEPT !.recoveries = 0])
      BY <3>2, RecountIsLeft, Zenon
    <3> QED
      BY <3>1, <3>3
  <2>3. CASE Detach
    BY <1>0, <2>3, ClosedIsLeft DEF Detach
  <2> QED
    BY <2>1, <2>2, <2>3
<1> QED
  BY <1>0, <1>1, <1>2, LeftStep

LEMMA NothingPreserves ==
  ASSUME IInv, UNCHANGED vars
  PROVE  IInv' /\ AbsStep
<1>0. UNCHANGED <<core, wire, plane, reading, flushing, screen, exited>>
  BY DEF vars
<1>1. Typed' /\ Fresh' /\ HeldExit' /\ Ends'
  BY <1>0 DEF IInv, Typed, Fresh, HeldExit, Ends
<1>2. HeldFollowsScreen'
  BY <1>0 DEF IInv, Hydration, HeldFollowsScreen
<1>3. Hydration' /\ Stream'
  BY <1>0, <1>2 DEF IInv, Hydration, Stream, Taken, Tip, Reading
<1>4. IInv'
  BY <1>1, <1>3 DEF IInv
<1>5. View' = View
  BY <1>0 DEF View
<1> QED
  BY <1>0, <1>4, <1>5, AbsRests

-----------------------------------------------------------------------------
(* The theorems.                                                           *)

LEMMA StartsInvariant ==
  ASSUME Init
  PROVE  IInv /\ Terminal!Init
<1>1. /\ core = [produced |-> 0, ended |-> FALSE, route |-> None, epoch |-> 0,
                 stage |-> "idle", pages |-> 0, histDone |-> FALSE, exitSent |-> FALSE]
      /\ wire = [a \in Attachments |-> <<>>] /\ reading = [a \in Attachments |-> NoFrame]
      /\ flushing = FALSE /\ screen = 0 /\ exited = FALSE
      /\ plane = [att |-> 1, last |-> 1, epoch |-> NoEpoch, ready |-> FALSE,
                  decoderFinished |-> FALSE, incomplete |-> FALSE, completed |-> FALSE,
                  buffered |-> <<>>, pendingExit |-> FALSE, recoveries |-> 0, timer |-> FALSE,
                  opening |-> TRUE, failed |-> FALSE]
  BY DEF Init
<1>2. 1 \in Attachments /\ None = 0 /\ 1 # None
  BY BoundsAssumption DEF Attachments, None
<1>3. core \in Cores
  <2>1. 0 \in 0 .. MaxOutput /\ None \in 0 .. MaxAttach /\ 0 \in 0 .. MaxEpoch /\ 0 \in 0 .. MaxPages
        /\ "idle" \in {"idle", "attached", "history", "live"} /\ FALSE \in BOOLEAN
    BY BoundsAssumption DEF None
  <2> QED
    BY <1>1, <2>1, Zenon DEF Cores
<1>4. plane \in Planes
  <2>1. /\ 1 \in 0 .. MaxAttach /\ 1 \in Attachments /\ NoEpoch \in NoEpoch .. MaxEpoch
        /\ 0 \in 0 .. 1 /\ <<>> \in Seq(1 .. MaxOutput) /\ FALSE \in BOOLEAN /\ TRUE \in BOOLEAN
    BY BoundsAssumption DEF Attachments, NoEpoch
  <2> QED
    BY <1>1, <2>1, Zenon DEF Planes
<1>5. Typed
  <2>1. NoFrame \in Frames /\ <<>> \in Seq(Frames) /\ Len(<<>>) = 0
    BY BoundsAssumption DEF NoFrame, Frames, Kinds
  <2>2. Len(plane.buffered) <= MaxPending /\ screen \in 0 .. MaxOutput
    BY <1>1, <2>1, BoundsAssumption
  <2> QED
    BY <1>1, <1>3, <1>4, <2>1, <2>2 DEF Typed
<1>6. Fresh
  BY <1>1, <1>2 DEF Fresh
<1>7. Hydration
  <2>1. HeldFollowsScreen
    BY <1>1 DEF HeldFollowsScreen
  <2>2. Reading = NoFrame
    BY <1>1, <1>2 DEF Reading
  <2> QED
    BY <1>1, <2>1, <2>2 DEF Hydration
<1>8. HeldExit /\ Stream /\ Ends
  BY <1>1, <1>2 DEF HeldExit, Stream, Ends
<1>9. Terminal!Init
  BY <1>1 DEF Terminal!Init
<1> QED
  BY <1>5, <1>6, <1>7, <1>8, <1>9 DEF IInv

LEMMA StepPreserves ==
  ASSUME IInv, [Next]_vars
  PROVE  IInv' /\ AbsStep
<1>1. CASE CoreAttaches
  BY <1>1, AttachesPreserves
<1>2. CASE CoreReady \/ CoreHistory \/ CoreUnavailable \/ CoreFinish \/ CoreCloses \/ CoreExit
  BY <1>2, SendsPreserve
<1>3. CASE CoreOutput
  BY <1>3, OutputPreserves
<1>4. CASE CoreResyncs
  BY <1>4, ResyncPreserves
<1>5. CASE \E a \in Attachments : HandleFrame(a)
  BY <1>5, HandlesPreserve
<1>6. CASE \E a \in Attachments : ReadReturns(a)
  BY <1>6, ReadsPreserve
<1>7. CASE FlushOne
  BY <1>7, FlushOnePreserves
<1>8. CASE FlushEnds
  BY <1>8, FlushEndsPreserves
<1>9. CASE ReadyResolves \/ ReadyRejects
  BY <1>9, SettlesPreserve
<1>10. CASE ProgressTimesOut \/ TransportLost \/ Detach
  BY <1>10, LeavesPreserve
<1>11. CASE UNCHANGED vars
  BY <1>11, NothingPreserves
<1> QED
  BY <1>1, <1>2, <1>3, <1>4, <1>5, <1>6, <1>7, <1>8, <1>9, <1>10, <1>11 DEF Next

\* In every reachable state what the plane has taken and what is still in line make up
\* the output of the session: the inductive invariant of receiveRouteFrame, the reader
\* and completeHydration.
THEOREM Inductive == Spec => []IInv
<1>1. Init => IInv
  BY StartsInvariant
<1>2. IInv /\ [Next]_vars => IInv'
  BY StepPreserves
<1> QED
  BY <1>1, <1>2, PTL DEF Spec

\* The state stays within its types, the output held back within MAX_PENDING_TERMINAL_ITEMS.
THEOREM TypeCorrect == Spec => []TypeOK
<1>1. IInv => TypeOK
  <2> SUFFICES ASSUME IInv PROVE TypeOK
    OBVIOUS
  <2>1. Typed
    BY DEF IInv
  <2>2. ASSUME NEW a \in Attachments, NEW f \in {wire[a][i] : i \in DOMAIN wire[a]} \cup {reading[a]}
        PROVE  f.kind \in Kinds /\ f.epoch \in 0 .. MaxEpoch /\ f.n \in Nat
    <3>1. wire[a] \in Seq(Frames) /\ reading[a] \in Frames
      BY <2>1 DEF Typed
    <3>2. f \in Frames
      BY <2>2, <3>1
    <3> QED
      BY <3>2 DEF Frames
  <2>3. core \in Cores /\ plane \in Planes /\ Len(plane.buffered) <= MaxPending
        /\ flushing \in BOOLEAN /\ screen \in 0 .. MaxOutput /\ exited \in BOOLEAN
    BY <2>1 DEF Typed
  <2> QED
    BY <2>2, <2>3, Zenon DEF TypeOK, Cores, Planes
<1> QED
  BY <1>1, Inductive, PTL

\* Held output is the output after the restored screen, so completeHydration loses and
\* repeats no piece.
THEOREM HeldIsTheRest == Spec => []HeldFollowsScreen
<1>1. IInv => HeldFollowsScreen
  BY DEF IInv, Hydration
<1> QED
  BY <1>1, Inductive, PTL

\* The plane implements OrderedTerminal: over lost pages, resyncs, overflows, late
\* reader calls and re-attachments the renderer sees the session's output in order.
THEOREM RefinesOrderedTerminal == Spec => RendererSeesPrefix
<1>1. Init => Terminal!Init
  BY StartsInvariant
<1>2. IInv /\ [Next]_vars => [Terminal!Next]_(Terminal!absVars)
  BY StepPreserves DEF AbsStep
<1> QED
  BY <1>1, <1>2, Inductive, PTL DEF Spec, RendererSeesPrefix, Terminal!Spec
=============================================================================
