------------------------- MODULE TerminalInput_proofs -------------------------
(***************************************************************************)
(* The input of a terminal for every window, queue, paste, number of       *)
(* attachments and operations: frames in order, outcomes that are true,    *)
(* nothing stuck in the window or left behind by the pump, exact counters. *)
(*                                                                         *)
(* As in the module each method works on a plane p and the operations m    *)
(* made so far, so each lemma is about a method.  In the middle of a       *)
(* method a line q of operations may be out of the queue and not yet in    *)
(* the send chain, and those of x out of the chain and not yet settled.    *)
(***************************************************************************)
EXTENDS TerminalInput, FiniteSetTheorems, SequenceTheorems, TLAPS

Statuses == {"queued", "inflight", "settled"}
Operations ==
  [kind : Kinds, status : Statuses, outcome : OutcomeNames, gen : Nat, id : Nat, attempt : Nat]
Made == Seq(Operations)
Planes ==
  [stream : Nat, last : Nat, attached : BOOLEAN, hydrated : BOOLEAN, detached : BOOLEAN,
   resyncs : Nat, queue : Seq(Nat), queuedBytes : Int, inflightBytes : Int, nextId : Nat,
   chain : [Attachments -> Seq(Nat)], sent : [Attachments -> Int],
   desired : Nat, resizes : Nat, sentGeometry : Nat, geometryOp : Nat,
   attempt : Nat, typed : Nat, consent : Nat, consentBytes : Int]
States == [p : Planes, ops : Made]
FrameTypes == [a : Nat, o : Nat, part : Nat]
Sent == Seq(FrameTypes)

InflightOf(m) == {o \in DOMAIN m : m[o].status = "inflight"}
Writes(f, m, o) == \E i \in DOMAIN f : f[i].o = o /\ f[i].part = Frames(m[o].kind)
Line(q, o) == \E i \in DOMAIN q : q[i] = o

\* The queue and the line q hold the queued operations, each oldest first, and what is in
\* the line was made before what is left in the queue.
Queued(queue, q, m) ==
  /\ queue \in Seq(Nat) /\ q \in Seq(Nat)
  /\ \A i \in DOMAIN queue :
       queue[i] \in DOMAIN m /\ m[queue[i]].status = "queued" /\ m[queue[i]].kind # "resize"
  /\ \A i \in DOMAIN q : q[i] \in DOMAIN m /\ m[q[i]].status = "queued"
  /\ \A o \in DOMAIN m : m[o].status = "queued" => Line(queue, o) \/ Line(q, o)
  /\ \A i, j \in DOMAIN queue : i < j => queue[i] < queue[j]
  /\ \A i, j \in DOMAIN q : i < j => q[i] < q[j]
  /\ \A i \in DOMAIN q : \A j \in DOMAIN queue :
       q[i] # queue[j] /\ (m[q[i]].kind # "resize" => q[i] < queue[j])

\* The stream of a plane is its last attachment; nothing is known of one to come.
Routed(p) ==
  /\ p.stream \in {None, p.last} /\ p.last \in 0 .. MaxAttach
  /\ p.stream = None => ~p.attached
  /\ \A a \in Attachments : p.last < a => p.chain[a] = <<>> /\ p.sent[a] = -1

\* Only the stream has operations in flight, and no two of its operations share an id.
Named(p, m) ==
  /\ \A o \in DOMAIN m :
       /\ m[o].gen <= p.last
       /\ m[o].status = "queued" => m[o].gen = None
       /\ m[o].status = "inflight" => m[o].gen = p.stream /\ p.stream # None
       /\ m[o].gen = p.stream /\ p.stream # None => m[o].id < p.nextId
  /\ \A o, x \in DOMAIN m :
       m[o].gen = p.stream /\ p.stream # None /\ m[x].gen = p.stream /\ m[x].id = m[o].id => x = o

\* A key or paste that left the queue was made before one that is in it.
Aged(m) ==
  \A o, x \in DOMAIN m :
    m[o].gen # None /\ m[x].status = "queued" /\ m[o].kind # "resize" /\ m[x].kind # "resize" => o < x

\* The send chain c of attachment a, n frames of its head sent.
ChainOf(m, a, c, n) ==
  /\ \A i \in DOMAIN c : c[i] \in DOMAIN m /\ m[c[i]].gen = a
  /\ n >= -1 /\ (n >= 0 => c # <<>> /\ n < Frames(m[c[1]].kind))
\* The chain of the stream has operations in flight, each once, keys and pastes oldest first.
Live(m, c) ==
  /\ \A i \in DOMAIN c : m[c[i]].status = "inflight"
  /\ \A i, j \in DOMAIN c : i < j =>
       c[i] # c[j] /\ (m[c[i]].kind # "resize" /\ m[c[j]].kind # "resize" => c[i] < c[j])
Chained(p, m) ==
  /\ \A a \in Attachments : ChainOf(m, a, p.chain[a], p.sent[a])
  /\ p.stream # None => Live(m, p.chain[p.stream])

\* FramesInOrder, of operations m and frames f.
Ordered(m, f) ==
  \A i, j \in DOMAIN f : i < j =>
    /\ m[f[i].o].kind # "resize" /\ m[f[j].o].kind # "resize" => f[i].o <= f[j].o
    /\ f[i].o = f[j].o => \A k \in i .. j : f[k].o = f[i].o
    /\ f[i].o = f[j].o => f[j].part \in {f[i].part + j - i, Abort}
\* The frames are of operations that left the queue.
Framed(m, f) == \A i \in DOMAIN f : f[i].o \in DOMAIN m /\ m[f[i].o].gen # None
\* No frame is of a newer operation than the chain c still has to send; of the chain only
\* its head is on the wire, its n frames last.
OnWire(m, f, c, n) ==
  /\ \A i \in DOMAIN f : \A k \in DOMAIN c :
       /\ f[i].o = c[k] => k = 1 /\ 0 < n /\ f[i].part <= n
       /\ m[f[i].o].kind # "resize" /\ m[c[k]].kind # "resize" => f[i].o <= c[k]
  /\ n > 0 => f # <<>> /\ f[Len(f)].o = c[1] /\ f[Len(f)].part = n
Wired(p, m, f) ==
  /\ Framed(m, f) /\ Ordered(m, f)
  /\ p.stream # None => OnWire(m, f, p.chain[p.stream], p.sent[p.stream])

\* OutcomesAreTrue, of operations m and frames f; before it settles it has no outcome.
Truthful(m, f) ==
  \A o \in DOMAIN m :
    /\ m[o].outcome \in {"written", "rejected_unsafe_paste"} => Writes(f, m, o)
    /\ m[o].outcome \in {"cancelled", "refused", "released"} => ~Writes(f, m, o)
    /\ m[o].status # "settled" => m[o].outcome = "none"

\* An operation in flight, but those of x, is to be sent or its result is owed.
Owed(p, m, x, f, d) ==
  /\ \A o \in d : o \in DOMAIN m /\ Writes(f, m, o)
  /\ \A o \in DOMAIN m : m[o].status = "inflight" /\ o \notin x =>
       Line(p.chain[p.stream], o) \/ (Writes(f, m, o) /\ o \notin d)

\* All of this but the queue.
Flow(p, m, x, f, d) ==
  /\ p \in Planes /\ m \in Made /\ f \in Sent
  /\ Routed(p) /\ Named(p, m) /\ Aged(m) /\ Chained(p, m)
  /\ Wired(p, m, f) /\ Truthful(m, f) /\ Owed(p, m, x, f, d)

\* ConsentIsCurrent, of an operation that is settled.
Consents(p, m) ==
  p.consent # None =>
    /\ p.consent \in DOMAIN m /\ m[p.consent].status = "settled"
    /\ m[p.consent].gen = p.stream /\ p.stream # None /\ m[p.consent].attempt = p.attempt

\* The counters are the bytes of the operations; only a geometry may pass the bound, and
\* the window has a place for the line q.
Counted(p, m, q) ==
  /\ p.queuedBytes = BytesOf(m, Range(p.queue))
  /\ p.inflightBytes = BytesOf(m, InflightOf(m))
  /\ p.consentBytes = IF p.consent = None THEN 0 ELSE 2
  /\ Retained(p) + BytesOf(m, Range(q)) <= MaxBytes + (IF p.geometryOp = None THEN 0 ELSE 1)
  /\ Cardinality(InflightOf(m)) + Len(q) <= Window
  /\ p.geometryOp # None =>
       /\ p.geometryOp \in InflightOf(m) \cup Range(q)
       /\ m[p.geometryOp].kind = "resize"

\* The geometry operation did not start yet, so it will take the geometry as it is then.
Waits(p, q) ==
  /\ p.geometryOp # None
  /\ \/ Line(q, p.geometryOp)
     \/ \E i \in DOMAIN p.chain[p.stream] :
          p.chain[p.stream][i] = p.geometryOp /\ (i > 1 \/ p.sent[p.stream] = -1)
\* The plane may make one operation more although nobody asks for another.
Due(p, q) ==
  /\ p.stream # None
  /\ IF Waits(p, q) THEN ~p.hydrated ELSE p.desired \notin {None, p.sentGeometry}
\* What an operation is made for: an input, a resize, a resynchronization, an attachment.
Asked(p) == p.typed + p.resizes + p.resyncs + p.last

\* The bounds of the queue and of what was asked for, and the geometries of the view.
Bounded(p) ==
  /\ p.hydrated => p.attached
  /\ Len(p.queue) <= MaxQueued
  /\ p.desired \in Geometries \cup {None} /\ p.sentGeometry \in Geometries \cup {None}
  /\ p.typed <= MaxTyped /\ p.resizes <= MaxResizes /\ p.resyncs <= MaxResync
\* No id is larger than the number of operations made.
Issued(p, m, q) ==
  /\ p.nextId >= 1 /\ p.nextId + Len(p.queue) + Len(q) <= Len(m) + 1
  /\ \A o \in DOMAIN m : m[o].id <= Len(m)
\* No more operations were made than asked for, with the one that may come.
Paid(p, m, q) == Len(m) <= Asked(p) /\ (Due(p, q) => Len(m) < Asked(p))
Budget(p, m, q) == Bounded(p) /\ Issued(p, m, q) /\ Paid(p, m, q)

\* PumpIsNeverMissed, of a plane and its operations.
Pumped(p, m) ==
  CanSend(p) /\ Cardinality(InflightOf(m)) < Window =>
    /\ p.queue = <<>>
    /\ p.hydrated /\ p.desired \notin {None, p.sentGeometry} => p.geometryOp # None

\* A plane and its operations in the middle of a method, and at its end.
Good(p, m, q, x, f, d) ==
  /\ Flow(p, m, x, f, d) /\ Queued(p.queue, q, m) /\ Counted(p, m, q) /\ Consents(p, m)
  /\ Budget(p, m, q)

IInv == Good(plane, ops, <<>>, {}, frames, answered) /\ Pumped(plane, ops)

-----------------------------------------------------------------------------
(* Sequences and counts.                                                   *)

\* The constants are numbers, and an operation has frames and bytes.
LEMMA Numbers ==
  /\ Window \in Nat \ {0} /\ MaxQueued \in Nat \ {0} /\ MaxBytes \in Nat \ {0}
  /\ PasteFrames \in Nat \ {0, 1} /\ MaxAttach \in Nat /\ Abort = 0 /\ None = 0
  /\ \A kind : Frames(kind) \in Nat \ {0} /\ Bytes(kind) \in {1, 2}
  /\ \A a \in Attachments : a \in Nat \ {0}
  BY ConstantsAssumption DEF Frames, Bytes, Abort, None, Attachments

\* The operations made are numbered from 1.
LEMMA Numbered ==
  ASSUME NEW m \in Made
  PROVE  /\ DOMAIN m = 1 .. Len(m) /\ Len(m) \in Nat
         /\ \A o \in DOMAIN m : m[o] \in Operations
  BY DEF Made

\* A sequence of operations rewritten in place is one.
LEMMA Rewritten ==
  ASSUME NEW m \in Made, NEW w, DOMAIN w = DOMAIN m,
         w = [o \in DOMAIN m |-> w[o]],
         \A o \in DOMAIN m : w[o] \in Operations
  PROVE  w \in Made /\ Len(w) = Len(m) /\ DOMAIN m = 1 .. Len(m) /\ Len(m) \in Nat
<1>1. DOMAIN m = 1 .. Len(m) /\ Len(m) \in Nat
  BY DEF Made
<1>2. w \in [1 .. Len(m) -> Operations]
  BY <1>1
<1>3. w \in Seq(Operations)
  BY <1>1, <1>2, SeqDef
<1>4. Len(w) = Len(m)
  BY <1>1, <1>2, <1>3, LenProperties
<1> QED
  BY <1>1, <1>3, <1>4 DEF Made

\* The operations in flight are finitely many, and so are those of a line.
LEMMA Finite ==
  ASSUME NEW m \in Made
  PROVE  /\ IsFiniteSet(DOMAIN m)
         /\ \A set \in SUBSET DOMAIN m : IsFiniteSet(set)
         /\ \A set \in SUBSET DOMAIN m : Cardinality(set) \in Nat /\ BytesOf(m, set) \in Nat
<1>1. DOMAIN m = 1 .. Len(m) /\ Len(m) \in Nat
  BY DEF Made
<1>2. IsFiniteSet(DOMAIN m)
  BY <1>1, FS_Interval
<1>3. \A set \in SUBSET DOMAIN m : IsFiniteSet(set) /\ Cardinality(set) \in Nat
  BY <1>2, FS_Subset, FS_CardinalityType
<1>4. ASSUME NEW set \in SUBSET DOMAIN m PROVE BytesOf(m, set) \in Nat
  <2>1. {o \in set : m[o].kind = "paste"} \in SUBSET DOMAIN m
    OBVIOUS
  <2> QED
    BY <1>3, <2>1 DEF BytesOf
<1> QED
  BY <1>2, <1>3, <1>4

\* Bytes of two sets that have nothing in common add up.
LEMMA BytesAdd ==
  ASSUME NEW m \in Made, NEW A \in SUBSET DOMAIN m, NEW B \in SUBSET DOMAIN m, A \cap B = {}
  PROVE  /\ BytesOf(m, A \cup B) = BytesOf(m, A) + BytesOf(m, B)
         /\ Cardinality(A \cup B) = Cardinality(A) + Cardinality(B)
<1> DEFINE pasteA == {o \in A : m[o].kind = "paste"}
           pasteB == {o \in B : m[o].kind = "paste"}
<1>1. IsFiniteSet(A) /\ IsFiniteSet(B) /\ IsFiniteSet(pasteA) /\ IsFiniteSet(pasteB)
  <2>1. pasteA \in SUBSET DOMAIN m /\ pasteB \in SUBSET DOMAIN m
    OBVIOUS
  <2> QED
    BY <2>1, Finite
<1>2. Cardinality(A \cup B) = Cardinality(A) + Cardinality(B)
  <2>1. Cardinality(A \cap B) = 0
    BY FS_EmptySet
  <2>2. Cardinality(A) \in Nat /\ Cardinality(B) \in Nat
    BY <1>1, FS_CardinalityType
  <2>3. Cardinality(A \cup B) = Cardinality(A) + Cardinality(B) - Cardinality(A \cap B)
    BY <1>1, FS_Union
  <2> QED
    BY <2>1, <2>2, <2>3
<1>3. Cardinality(pasteA \cup pasteB) = Cardinality(pasteA) + Cardinality(pasteB)
  <2>1. pasteA \cap pasteB = {}
    OBVIOUS
  <2>2. Cardinality(pasteA \cap pasteB) = 0
    BY <2>1, FS_EmptySet
  <2>3. Cardinality(pasteA) \in Nat /\ Cardinality(pasteB) \in Nat
    BY <1>1, FS_CardinalityType
  <2>4. Cardinality(pasteA \cup pasteB)
          = Cardinality(pasteA) + Cardinality(pasteB) - Cardinality(pasteA \cap pasteB)
    BY <1>1, FS_Union
  <2> QED
    BY <2>2, <2>3, <2>4
<1>4. {o \in A \cup B : m[o].kind = "paste"} = pasteA \cup pasteB
  OBVIOUS
<1>5. /\ Cardinality(A) \in Nat /\ Cardinality(B) \in Nat
      /\ Cardinality(pasteA) \in Nat /\ Cardinality(pasteB) \in Nat
  BY <1>1, FS_CardinalityType
<1> HIDE DEF pasteA, pasteB
<1>6. BytesOf(m, A \cup B) = Cardinality(A \cup B) + Cardinality(pasteA \cup pasteB)
  BY <1>4, Zenon DEF BytesOf
<1>7. BytesOf(m, A) + BytesOf(m, B)
        = (Cardinality(A) + Cardinality(pasteA)) + (Cardinality(B) + Cardinality(pasteB))
  BY DEF BytesOf, pasteA, pasteB
<1> QED
  BY <1>2, <1>3, <1>5, <1>6, <1>7

\* One operation has the bytes of its kind, and none has none.
LEMMA BytesSingle ==
  ASSUME NEW m \in Made, NEW o \in DOMAIN m
  PROVE  /\ BytesOf(m, {o}) = Bytes(m[o].kind) /\ Cardinality({o}) = 1
         /\ BytesOf(m, {}) = 0 /\ Cardinality({}) = 0
<1>1. Cardinality({o}) = 1 /\ Cardinality({}) = 0
  BY FS_Singleton, FS_EmptySet, Zenon
<1>2. {x \in {} : m[x].kind = "paste"} = {}
  OBVIOUS
<1>3. CASE m[o].kind = "paste"
  <2>1. {x \in {o} : m[x].kind = "paste"} = {o}
    BY <1>3
  <2> QED
    BY <1>1, <1>2, <1>3, <2>1 DEF BytesOf, Bytes
<1>4. CASE m[o].kind # "paste"
  <2>1. {x \in {o} : m[x].kind = "paste"} = {}
    BY <1>4
  <2> QED
    BY <1>1, <1>2, <1>4, <2>1 DEF BytesOf, Bytes
<1> QED
  BY <1>3, <1>4

LEMMA BytesNone == ASSUME NEW m PROVE BytesOf(m, {}) = 0 /\ Cardinality({}) = 0
<1>1. {x \in {} : m[x].kind = "paste"} = {}
  OBVIOUS
<1> QED
  BY <1>1, FS_EmptySet DEF BytesOf

\* Bytes depend on the kinds only.
LEMMA BytesKept ==
  ASSUME NEW m, NEW w, NEW set, \A o \in set : w[o].kind = m[o].kind
  PROVE  BytesOf(w, set) = BytesOf(m, set)
<1>1. {o \in set : w[o].kind = "paste"} = {o \in set : m[o].kind = "paste"}
  OBVIOUS
<1> QED
  BY <1>1, Zenon DEF BytesOf

-----------------------------------------------------------------------------
(* Operations, frames and planes.                                          *)

\* What frames see of the operations is their kind.
Grows(m, w) == DOMAIN m \subseteq DOMAIN w /\ \A o \in DOMAIN m : w[o].kind = m[o].kind

LEMMA WritesKept ==
  ASSUME NEW m, NEW w, NEW f, Grows(m, w)
  PROVE  \A o \in DOMAIN m : Writes(f, w, o) <=> Writes(f, m, o)
  BY DEF Writes, Grows

LEMMA OrderKept ==
  ASSUME NEW m, NEW w, NEW f, Grows(m, w), Ordered(m, f), Framed(m, f)
  PROVE  Ordered(w, f)
<1>1. \A i \in DOMAIN f : w[f[i].o].kind = m[f[i].o].kind
  BY DEF Framed, Grows
<1> QED
  BY <1>1 DEF Ordered

\* What a sequence of frames or numbers has in it.
LEMMA FrameOf ==
  ASSUME NEW f \in Sent
  PROVE  /\ Len(f) \in Nat /\ DOMAIN f = 1 .. Len(f)
         /\ \A i \in DOMAIN f : f[i] \in FrameTypes /\ f[i].o \in Nat /\ f[i].part \in Nat
<1>1. \A i \in DOMAIN f : f[i] \in FrameTypes
  BY DEF Sent
<1> QED
  BY <1>1 DEF Sent, FrameTypes

LEMMA NatOf ==
  ASSUME NEW c \in Seq(Nat)
  PROVE  /\ Len(c) \in Nat /\ DOMAIN c = 1 .. Len(c) /\ \A i \in DOMAIN c : c[i] \in Nat
         /\ c # <<>> <=> Len(c) > 0
         /\ c # <<>> => 1 \in DOMAIN c
  OBVIOUS

\* The parts of an operation and of a plane.
LEMMA OperationOf ==
  ASSUME NEW m \in Made, NEW o \in DOMAIN m
  PROVE  /\ o \in Nat /\ o > 0 /\ o <= Len(m) /\ m[o] \in Operations
         /\ m[o].kind \in Kinds /\ m[o].status \in Statuses /\ m[o].outcome \in OutcomeNames
         /\ m[o].gen \in Nat /\ m[o].id \in Nat /\ m[o].attempt \in Nat
<1>1. m[o] \in Operations /\ o \in 1 .. Len(m) /\ Len(m) \in Nat
  BY Numbered
<1> QED
  BY <1>1 DEF Operations

LEMMA PlaneOf ==
  ASSUME NEW p \in Planes
  PROVE  /\ p.stream \in Nat /\ p.last \in Nat /\ p.attached \in BOOLEAN /\ p.hydrated \in BOOLEAN
         /\ p.detached \in BOOLEAN /\ p.resyncs \in Nat /\ p.queue \in Seq(Nat)
         /\ p.queuedBytes \in Int /\ p.inflightBytes \in Int /\ p.nextId \in Nat
         /\ \A a \in Attachments : p.chain[a] \in Seq(Nat) /\ p.sent[a] \in Int
         /\ DOMAIN p.chain = Attachments /\ DOMAIN p.sent = Attachments
         /\ p.desired \in Nat /\ p.resizes \in Nat /\ p.sentGeometry \in Nat
         /\ p.geometryOp \in Nat /\ p.attempt \in Nat /\ p.typed \in Nat /\ p.consent \in Nat
         /\ p.consentBytes \in Int
  BY DEF Planes

-----------------------------------------------------------------------------
(* The budget of operations.                                               *)

LEMMA AskedNat == ASSUME NEW p \in Planes PROVE Asked(p) \in Nat
<1>1. p.typed \in Nat /\ p.resizes \in Nat /\ p.resyncs \in Nat /\ p.last \in Nat
  BY PlaneOf
<1> QED
  BY <1>1 DEF Asked

\* What was asked for and what of it is done.
SameBudget(p, u) ==
  /\ u.stream = p.stream /\ u.last = p.last /\ u.attached = p.attached
  /\ u.hydrated = p.hydrated /\ u.desired = p.desired /\ u.sentGeometry = p.sentGeometry
  /\ u.typed = p.typed /\ u.resizes = p.resizes /\ u.resyncs = p.resyncs

LEMMA SameLength ==
  ASSUME NEW m \in Made, NEW w \in Made, DOMAIN w = DOMAIN m
  PROVE  Len(w) = Len(m) /\ Len(m) \in Nat
<1>1. DOMAIN m = 1 .. Len(m) /\ DOMAIN w = 1 .. Len(w) /\ Len(m) \in Nat /\ Len(w) \in Nat
  BY Numbered
<1>2. ASSUME NEW i \in Nat, NEW j \in Nat, 1 .. i = 1 .. j PROVE i = j
  <2>1. i > 0 => i \in 1 .. j
    BY <1>2
  <2>2. j > 0 => j \in 1 .. i
    BY <1>2
  <2> QED
    BY <2>1, <2>2
<1> QED
  BY <1>1, <1>2

LEMMA BudgetKept ==
  ASSUME NEW p \in Planes, NEW u, NEW m, NEW w, NEW q, NEW r,
         Budget(p, m, q), SameBudget(p, u), Len(w) = Len(m), Len(u.queue) <= MaxQueued,
         Issued(u, w, r), Waits(u, r) <=> Waits(p, q)
  PROVE  Budget(u, w, r)
<1>1. Bounded(p) /\ Paid(p, m, q)
  BY DEF Budget
<1>2. Bounded(u)
  BY <1>1 DEF Bounded, SameBudget
<1>3. Due(u, r) <=> Due(p, q)
  BY DEF Due, SameBudget
<1>4. Asked(u) = Asked(p)
  BY DEF Asked, SameBudget
<1>5. Paid(u, w, r)
  BY <1>1, <1>3, <1>4 DEF Paid
<1> QED
  BY <1>2, <1>5 DEF Budget

\* Nothing new may come, or something more was asked for.
LEMMA Repaid ==
  ASSUME NEW p \in Planes, NEW u \in Planes, NEW m \in Made,
         Budget(p, m, <<>>), Bounded(u), u.nextId = p.nextId, u.queue = p.queue,
         \/ Asked(u) = Asked(p) /\ (Due(u, <<>>) => Due(p, <<>>))
         \/ Asked(u) = Asked(p) + 1
  PROVE  Budget(u, m, <<>>)
<1>1. Issued(p, m, <<>>) /\ Paid(p, m, <<>>)
  BY DEF Budget
<1>2. Issued(u, m, <<>>)
  BY <1>1 DEF Issued
<1>3. Asked(p) \in Nat /\ Len(m) \in Nat
  BY AskedNat, Numbered
<1>4. Paid(u, m, <<>>)
  <2>1. CASE Asked(u) = Asked(p) /\ (Due(u, <<>>) => Due(p, <<>>))
    BY <1>1, <2>1 DEF Paid
  <2>2. CASE Asked(u) = Asked(p) + 1
    BY <1>1, <1>3, <2>2 DEF Paid
  <2> QED
    BY <2>1, <2>2
<1> QED
  BY <1>2, <1>4 DEF Budget

LEMMA DueSame ==
  ASSUME NEW p, NEW u, NEW q, u.stream = p.stream, u.geometryOp = p.geometryOp,
         u.chain = p.chain, u.sent = p.sent, u.hydrated = p.hydrated,
         u.desired = p.desired, u.sentGeometry = p.sentGeometry
  PROVE  Due(u, q) <=> Due(p, q)
  BY DEF Due, Waits

-----------------------------------------------------------------------------
(* appendOperation.                                                        *)

LEMMA NoRange == Range(<<>>) = {}
  BY DEF Range

\* Where the operations of a line are in a chain it was appended to.
LEMMA Joined ==
  ASSUME NEW c \in Seq(Nat), NEW q \in Seq(Nat)
  PROVE  /\ c \o q \in Seq(Nat) /\ Len(c \o q) = Len(c) + Len(q)
         /\ Len(c) \in Nat /\ Len(q) \in Nat
         /\ DOMAIN c = 1 .. Len(c) /\ DOMAIN q = 1 .. Len(q)
         /\ DOMAIN (c \o q) = 1 .. Len(c) + Len(q)
         /\ \A i \in 1 .. Len(c) : (c \o q)[i] = c[i]
         /\ \A i \in Len(c) + 1 .. Len(c) + Len(q) :
              (c \o q)[i] = q[i - Len(c)] /\ i - Len(c) \in 1 .. Len(q)
  OBVIOUS

\* What appending the line q does, field by field.
Appends(p, m, u, w, q) ==
  /\ u \in Planes /\ w \in Made
  /\ u.stream = p.stream /\ u.last = p.last /\ u.attached = p.attached
  /\ u.hydrated = p.hydrated /\ u.detached = p.detached
  /\ u.queue = p.queue /\ u.queuedBytes = p.queuedBytes
  /\ u.inflightBytes = p.inflightBytes + BytesOf(m, Range(q))
  /\ u.nextId = p.nextId + Len(q)
  /\ \A a \in Attachments :
       u.chain[a] = IF a = p.stream THEN p.chain[a] \o q ELSE p.chain[a]
  /\ u.sent = p.sent /\ u.desired = p.desired
  /\ u.sentGeometry = p.sentGeometry /\ u.geometryOp = p.geometryOp
  /\ u.attempt = p.attempt /\ u.consent = p.consent
  /\ u.consentBytes = p.consentBytes
  /\ u.typed = p.typed /\ u.resizes = p.resizes /\ u.resyncs = p.resyncs
  /\ DOMAIN w = DOMAIN m
  /\ \A o \in DOMAIN m :
       /\ w[o].kind = m[o].kind /\ w[o].outcome = m[o].outcome
       /\ w[o].attempt = m[o].attempt
       /\ ~Line(q, o) => w[o] = m[o]
       /\ Line(q, o) =>
            /\ w[o].status = "inflight" /\ w[o].gen = p.stream
            /\ \E i \in DOMAIN q : q[i] = o /\ w[o].id = p.nextId + i - 1

\* A line and its range.
LEMMA Lines ==
  ASSUME NEW q
  PROVE  /\ \A o : o \in Range(q) <=> Line(q, o)
         /\ \A o : ~Line(<<>>, o)
         /\ \A i \in DOMAIN q : Line(q, q[i])
  BY DEF Range, Line

LEMMA AppendFields ==
  ASSUME NEW s \in States, NEW q \in Seq(Nat), Range(q) \subseteq DOMAIN s.ops,
         s.p.stream \in Attachments
  PROVE  Appends(s.p, s.ops, AppendOperations(s, q).p, AppendOperations(s, q).ops, q)
<1> DEFINE t == AppendOperations(s, q)
           a == s.p.stream
           b == BytesOf(s.ops, Range(q))
<1>1. s.p \in Planes /\ s.ops \in Made
  BY DEF States
<1>2. b \in Int
  BY <1>1, Finite
<1>3. s.p.chain \in [Attachments -> Seq(Nat)] /\ s.p.nextId \in Nat /\ s.p.inflightBytes \in Int
      /\ s.p.stream \in Nat
  BY <1>1, Zenon DEF Planes
<1>4. /\ s.p.chain[a] \o q \in Seq(Nat) /\ Len(q) \in Nat
  BY <1>3, Joined
<1> DEFINE chain == [s.p.chain EXCEPT ![a] = s.p.chain[a] \o q]
<1>5. chain \in [Attachments -> Seq(Nat)]
  BY <1>3, <1>4
<1> DEFINE made == [o \in DOMAIN s.ops |->
                IF o \in Range(q)
                THEN [s.ops[o] EXCEPT !.status = "inflight", !.gen = s.p.stream, !.id = IdIn(s, q, o)]
                ELSE s.ops[o]]
           pl == [s.p EXCEPT !.nextId = @ + Len(q), !.inflightBytes = @ + b, !.chain = chain]
<1>6. t.p = pl /\ t.ops = made /\ t = [p |-> pl, ops |-> made]
  <2>1. t = [p |-> [s.p EXCEPT !.nextId = @ + Len(q), !.inflightBytes = @ + b,
                               !.chain[a] = s.p.chain[a] \o q], ops |-> made]
    BY DEF AppendOperations, Appended
  <2>2. [s.p EXCEPT !.nextId = @ + Len(q), !.inflightBytes = @ + b,
                    !.chain[a] = s.p.chain[a] \o q] = pl
    OBVIOUS
  <2> HIDE DEF made, pl
  <2>3. t = [p |-> pl, ops |-> made]
    BY <2>1, <2>2
  <2> HIDE DEF t
  <2> QED
    BY <2>3
<1>7. pl \in Planes
  <2> DEFINE id == s.p.nextId + Len(q)
             bytes == s.p.inflightBytes + b
  <2>1. id \in Nat /\ bytes \in Int
    BY <1>2, <1>3, <1>4
  <2>2. pl = [s.p EXCEPT !.nextId = id, !.inflightBytes = bytes, !.chain = chain]
    OBVIOUS
  <2> HIDE DEF chain, id, bytes, pl
  <2> QED
    BY <1>1, <1>5, <2>1, <2>2, Zenon DEF Planes
<1>8. \A o \in Range(q) : \E i \in DOMAIN q : q[i] = o /\ IdIn(s, q, o) = s.p.nextId + i - 1
  BY Zenon DEF Range, IdIn
<1>9. \A o \in Range(q) : IdIn(s, q, o) \in Nat
  BY <1>3, <1>8
<1>10. ASSUME NEW o \in DOMAIN s.ops
       PROVE  /\ made[o] \in Operations
              /\ made[o].kind = s.ops[o].kind /\ made[o].outcome = s.ops[o].outcome
              /\ made[o].attempt = s.ops[o].attempt
              /\ o \notin Range(q) => made[o] = s.ops[o]
              /\ o \in Range(q) =>
                   /\ made[o].status = "inflight" /\ made[o].gen = s.p.stream
                   /\ made[o].id = IdIn(s, q, o)
  <2> DEFINE r == s.ops[o]
  <2>1. r \in Operations
    BY <1>1, Numbered
  <2>2. CASE o \notin Range(q)
    <3>1. made[o] = r
      BY <2>2, Zenon
    <3> QED
      BY <2>1, <2>2, <3>1, Zenon
  <2>3. CASE o \in Range(q)
    <3>1. made[o] = [r EXCEPT !.status = "inflight", !.gen = s.p.stream, !.id = IdIn(s, q, o)]
      BY <2>3, Zenon
    <3>2. IdIn(s, q, o) \in Nat /\ s.p.stream \in Nat /\ "inflight" \in Statuses
      BY <1>3, <1>9, <2>3 DEF Statuses
    <3> HIDE DEF made, r
    <3> QED
      BY <2>1, <2>3, <3>1, <3>2, Zenon DEF r, Operations
  <2> QED
    BY <2>2, <2>3, Zenon
<1>11. made \in Made
  BY <1>1, <1>10, Rewritten, ZenonT(40)
<1>12. DOMAIN made = DOMAIN s.ops
  OBVIOUS
<1>13. /\ pl.stream = s.p.stream /\ pl.last = s.p.last /\ pl.attached = s.p.attached
       /\ pl.hydrated = s.p.hydrated /\ pl.detached = s.p.detached
       /\ pl.queue = s.p.queue /\ pl.queuedBytes = s.p.queuedBytes
       /\ pl.inflightBytes = s.p.inflightBytes + b
       /\ pl.nextId = s.p.nextId + Len(q)
       /\ pl.chain = chain
       /\ pl.sent = s.p.sent /\ pl.desired = s.p.desired
       /\ pl.sentGeometry = s.p.sentGeometry /\ pl.geometryOp = s.p.geometryOp
       /\ pl.attempt = s.p.attempt /\ pl.consent = s.p.consent
       /\ pl.consentBytes = s.p.consentBytes
       /\ pl.typed = s.p.typed /\ pl.resizes = s.p.resizes /\ pl.resyncs = s.p.resyncs
  BY <1>1 DEF Planes
<1>14. \A x \in Attachments :
         chain[x] = IF x = s.p.stream THEN s.p.chain[x] \o q ELSE s.p.chain[x]
  BY <1>3
<1> HIDE DEF made, pl, chain
<1>15. t.p \in Planes /\ t.ops \in Made
  BY <1>6, <1>7, <1>11
<1>16. ASSUME NEW o \in DOMAIN s.ops
       PROVE  /\ t.ops[o].kind = s.ops[o].kind /\ t.ops[o].outcome = s.ops[o].outcome
              /\ t.ops[o].attempt = s.ops[o].attempt
              /\ ~Line(q, o) => t.ops[o] = s.ops[o]
              /\ Line(q, o) =>
                   /\ t.ops[o].status = "inflight" /\ t.ops[o].gen = s.p.stream
                   /\ \E i \in DOMAIN q : q[i] = o /\ t.ops[o].id = s.p.nextId + i - 1
  <2>1. Line(q, o) <=> o \in Range(q)
    BY Lines
  <2>2. o \in Range(q) => \E i \in DOMAIN q : q[i] = o /\ IdIn(s, q, o) = s.p.nextId + i - 1
    BY <1>8
  <2> QED
    BY <1>6, <1>10, <2>1, <2>2, Zenon
<1> HIDE DEF t
<1>17. DOMAIN t.ops = DOMAIN s.ops
  BY <1>6, <1>12
<1>18. \A x \in Attachments :
         t.p.chain[x] = IF x = s.p.stream THEN s.p.chain[x] \o q ELSE s.p.chain[x]
  BY <1>6, <1>13, <1>14
<1>19. t.p.inflightBytes = s.p.inflightBytes + BytesOf(s.ops, Range(q)) /\ t.p.nextId = s.p.nextId + Len(q)
  BY <1>6, <1>13
<1>20. Appends(s.p, s.ops, t.p, t.ops, q)
  BY <1>6, <1>13, <1>15, <1>16, <1>17, <1>18, <1>19, Zenon DEF Appends
<1> QED
  BY <1>20 DEF t


\* What appending a line to the chain of the stream keeps.
LEMMA AppendFlow ==
  ASSUME NEW p, NEW m, NEW u, NEW w, NEW q, NEW f, NEW d, NEW x,
         p.stream # None, Flow(p, m, x, f, d), Queued(p.queue, q, m), Appends(p, m, u, w, q)
  PROVE  Flow(u, w, x, f, d) /\ Queued(u.queue, <<>>, w)
<1> DEFINE c == p.chain[p.stream]
           e == u.chain[p.stream]
           n == p.sent[p.stream]
<1>1. /\ p \in Planes /\ m \in Made /\ f \in Sent /\ u \in Planes /\ w \in Made
      /\ Routed(p) /\ Named(p, m) /\ Aged(m) /\ Chained(p, m)
      /\ Framed(m, f) /\ Ordered(m, f) /\ OnWire(m, f, c, n) /\ Truthful(m, f) /\ Owed(p, m, x, f, d)
  BY DEF Flow, Wired, Appends
<1>2. /\ p.stream \in Attachments /\ p.stream = p.last /\ p.stream \in Nat
      /\ u.stream = p.stream /\ u.last = p.last /\ u.attached = p.attached
      /\ u.nextId = p.nextId + Len(q) /\ p.nextId \in Nat
      /\ u.queue = p.queue /\ u.sent = p.sent
  BY <1>1, Numbers, PlaneOf DEF Routed, Attachments, Appends
<1>3. /\ c \in Seq(Nat) /\ q \in Seq(Nat) /\ e = c \o q
      /\ ChainOf(m, p.stream, c, n) /\ Live(m, c) /\ n \in Int
  BY <1>1, <1>2, PlaneOf, Zenon DEF Queued, Appends, Chained
<1>4. /\ DOMAIN c = 1 .. Len(c) /\ DOMAIN q = 1 .. Len(q)
      /\ Len(c) \in Nat /\ Len(q) \in Nat /\ DOMAIN e = 1 .. Len(c) + Len(q)
      /\ \A i \in 1 .. Len(c) : e[i] = c[i]
      /\ \A i \in Len(c) + 1 .. Len(c) + Len(q) : e[i] = q[i - Len(c)] /\ i - Len(c) \in 1 .. Len(q)
  BY <1>3, Joined, SMTT(30)
<1>5. \A i \in DOMAIN q : /\ q[i] \in DOMAIN m /\ q[i] \in Nat /\ m[q[i]].status = "queued"
                          /\ m[q[i]].gen = None /\ Line(q, q[i])
  BY <1>1, <1>3, NatOf, Lines DEF Queued, Named
<1>6. DOMAIN w = DOMAIN m /\ Grows(m, w)
  BY DEF Appends, Grows
<1>7. \A o \in DOMAIN m :
        /\ w[o].kind = m[o].kind /\ w[o].outcome = m[o].outcome /\ w[o].attempt = m[o].attempt
        /\ ~Line(q, o) => w[o] = m[o]
        /\ Line(q, o) =>
             /\ w[o].status = "inflight" /\ w[o].gen = p.stream
             /\ \E i \in DOMAIN q : q[i] = o /\ w[o].id = p.nextId + i - 1
  BY DEF Appends
<1>8. \A o \in DOMAIN m : o \in Nat /\ m[o].gen \in Nat /\ m[o].id \in Nat
  BY <1>1, OperationOf
<1>9. \A a \in Attachments : u.chain[a] = IF a = p.stream THEN e ELSE p.chain[a]
  BY <1>2 DEF Appends
<1>10. \A i \in DOMAIN c : c[i] \in DOMAIN m /\ m[c[i]].gen = p.stream /\ ~Line(q, c[i]) /\ w[c[i]] = m[c[i]]
  <2>1. \A i \in DOMAIN c : c[i] \in DOMAIN m /\ m[c[i]].gen = p.stream
    BY <1>3 DEF ChainOf
  <2>2. \A i \in DOMAIN c : ~Line(q, c[i])
    BY <2>1, <1>5 DEF Line
  <2> QED
    BY <2>1, <2>2, <1>7
<1> HIDE DEF c, e, n
<1>11. Routed(u)
  <2>1. ASSUME NEW a \in Attachments, u.last < a PROVE u.chain[a] = <<>> /\ u.sent[a] = -1
    <3>1. a # p.stream /\ p.last < a
      BY <1>2, <2>1
    <3> QED
      BY <1>1, <1>2, <1>9, <3>1 DEF Routed
  <2> QED
    BY <1>1, <1>2, <2>1 DEF Routed
<1>12. Queued(u.queue, <<>>, w)
  <2>1. DOMAIN <<>> = {} /\ <<>> \in Seq(Nat) /\ p.queue \in Seq(Nat)
    BY <1>1, PlaneOf
  <2>2. \A i \in DOMAIN p.queue : /\ p.queue[i] \in DOMAIN m /\ ~Line(q, p.queue[i])
                                  /\ m[p.queue[i]].status = "queued" /\ m[p.queue[i]].kind # "resize"
    BY DEF Queued, Line
  <2>3. \A o \in DOMAIN m : w[o].status = "queued" => Line(p.queue, o)
    BY <1>7 DEF Queued
  <2>4. \A i, j \in DOMAIN p.queue : i < j => p.queue[i] < p.queue[j]
    BY DEF Queued
  <2> QED
    BY <1>2, <1>6, <1>7, <2>1, <2>2, <2>3, <2>4 DEF Queued
<1>13. Named(u, w)
  <2>1. ASSUME NEW o \in DOMAIN m
        PROVE  /\ w[o].gen <= u.last
               /\ w[o].status = "queued" => w[o].gen = None
               /\ w[o].status = "inflight" => w[o].gen = u.stream /\ u.stream # None
               /\ w[o].gen = u.stream /\ u.stream # None => w[o].id < u.nextId
    <3>1. CASE Line(q, o)
      <4>1. PICK i \in DOMAIN q : w[o].id = p.nextId + i - 1
        BY <1>7, <3>1
      <4>2. w[o].id < u.nextId
        BY <1>2, <1>4, <4>1
      <4> QED
        BY <1>2, <1>7, <3>1, <4>2
    <3>2. CASE ~Line(q, o)
      <4>1. w[o] = m[o]
        BY <1>7, <3>2
      <4>2. m[o].id < p.nextId => m[o].id < u.nextId
        BY <1>2, <1>4, <1>8
      <4> QED
        BY <1>1, <1>2, <4>1, <4>2 DEF Named
    <3> QED
      BY <3>1, <3>2
  <2>2. ASSUME NEW o \in DOMAIN m, NEW y \in DOMAIN m,
               w[o].gen = p.stream, w[y].gen = p.stream, w[y].id = w[o].id
        PROVE  y = o
    <3>1. ASSUME NEW z \in DOMAIN m, w[z].gen = p.stream
          PROVE  /\ Line(q, z) => \E i \in DOMAIN q : q[i] = z /\ w[z].id = p.nextId + i - 1
                 /\ ~Line(q, z) => m[z].gen = p.stream /\ m[z].id = w[z].id /\ m[z].id < p.nextId
      BY <1>1, <1>7, <3>1 DEF Named
    <3>2. CASE Line(q, o) /\ Line(q, y)
      <4>1. PICK i \in DOMAIN q : q[i] = o /\ w[o].id = p.nextId + i - 1
        BY <2>2, <3>1, <3>2
      <4>2. PICK j \in DOMAIN q : q[j] = y /\ w[y].id = p.nextId + j - 1
        BY <2>2, <3>1, <3>2
      <4>3. i = j
        BY <1>2, <1>4, <2>2, <4>1, <4>2
      <4> QED
        BY <4>1, <4>2, <4>3
    <3>3. CASE (Line(q, o) /\ ~Line(q, y)) \/ (~Line(q, o) /\ Line(q, y))
      <4>1. ASSUME NEW z \in DOMAIN m, NEW t \in DOMAIN m, Line(q, z), ~Line(q, t),
                   w[z].gen = p.stream, w[t].gen = p.stream
            PROVE  w[z].id # w[t].id
        <5>1. PICK i \in DOMAIN q : w[z].id = p.nextId + i - 1
          BY <3>1, <4>1
        <5>2. w[t].id < p.nextId /\ w[t].id \in Nat
          BY <1>8, <3>1, <4>1
        <5> QED
          BY <1>2, <1>4, <5>1, <5>2
      <4> QED
        BY <2>2, <3>3, <4>1
    <3>4. CASE ~Line(q, o) /\ ~Line(q, y)
      BY <1>1, <1>2, <2>2, <3>1, <3>4 DEF Named
    <3> QED
      BY <3>2, <3>3, <3>4
  <2> QED
    BY <1>2, <1>6, <2>1, <2>2 DEF Named
<1>14. Aged(w)
  <2>1. ASSUME NEW o \in DOMAIN m, NEW y \in DOMAIN m, w[o].gen # None, w[y].status = "queued",
               w[o].kind # "resize", w[y].kind # "resize"
        PROVE  o < y
    <3>1. ~Line(q, y) /\ m[y].status = "queued" /\ m[o].kind # "resize" /\ m[y].kind # "resize"
      BY <1>7, <2>1
    <3>2. CASE Line(q, o)
      <4>1. PICK i \in DOMAIN q : q[i] = o
        BY <3>2 DEF Line
      <4>2. PICK j \in DOMAIN p.queue : p.queue[j] = y
        BY <3>1 DEF Queued, Line
      <4> QED
        BY <3>1, <4>1, <4>2 DEF Queued
    <3>3. CASE ~Line(q, o)
      BY <1>1, <1>7, <2>1, <3>1, <3>3 DEF Aged
    <3> QED
      BY <3>2, <3>3
  <2> QED
    BY <1>6, <2>1 DEF Aged
<1>15. ChainOf(w, p.stream, e, n)
  <2>1. ASSUME NEW i \in DOMAIN e PROVE e[i] \in DOMAIN w /\ w[e[i]].gen = p.stream
    <3>1. CASE i <= Len(c)
      BY <1>4, <1>6, <1>10, <3>1
    <3>2. CASE ~(i <= Len(c))
      <4>1. e[i] = q[i - Len(c)] /\ i - Len(c) \in DOMAIN q
        BY <1>4, <3>2
      <4> QED
        BY <1>5, <1>6, <1>7, <4>1
    <3> QED
      BY <3>1, <3>2
  <2>2. n >= 0 => e # <<>> /\ n < Frames(w[e[1]].kind)
    <3> SUFFICES ASSUME n >= 0 PROVE e # <<>> /\ n < Frames(w[e[1]].kind)
      OBVIOUS
    <3>1. c # <<>> /\ n < Frames(m[c[1]].kind)
      BY <1>3 DEF ChainOf
    <3>2. 1 \in DOMAIN c /\ Len(c) > 0
      BY <1>3, <3>1, NatOf
    <3>3. e[1] = c[1] /\ 1 \in DOMAIN e
      BY <1>4, <3>2
    <3>4. e # <<>>
      BY <3>3
    <3> QED
      BY <1>10, <3>1, <3>2, <3>3, <3>4
  <2>3. n >= -1
    BY <1>3 DEF ChainOf
  <2> QED
    BY <2>1, <2>2, <2>3 DEF ChainOf
<1>16. Live(w, e)
  <2>1. \A i \in DOMAIN c : m[c[i]].status = "inflight"
    BY <1>3 DEF Live
  <2>2. ASSUME NEW i \in DOMAIN e PROVE w[e[i]].status = "inflight"
    <3>1. CASE i <= Len(c)
      BY <1>4, <1>10, <2>1, <3>1
    <3>2. CASE ~(i <= Len(c))
      <4>1. e[i] = q[i - Len(c)] /\ i - Len(c) \in DOMAIN q
        BY <1>4, <3>2
      <4> QED
        BY <1>5, <1>7, <4>1
    <3> QED
      BY <3>1, <3>2
  <2>3. ASSUME NEW i \in DOMAIN e, NEW j \in DOMAIN e, i < j
        PROVE  e[i] # e[j] /\ (w[e[i]].kind # "resize" /\ w[e[j]].kind # "resize" => e[i] < e[j])
    <3>1. CASE j <= Len(c)
      <4>1. i \in DOMAIN c /\ j \in DOMAIN c /\ e[i] = c[i] /\ e[j] = c[j]
        BY <1>4, <2>3, <3>1
      <4> QED
        BY <1>3, <1>10, <2>3, <4>1 DEF Live
    <3>2. CASE i <= Len(c) /\ ~(j <= Len(c))
      <4>1. e[i] = c[i] /\ i \in DOMAIN c /\ e[j] = q[j - Len(c)] /\ j - Len(c) \in DOMAIN q
        BY <1>4, <3>2
      <4>2. c[i] \in DOMAIN m /\ m[c[i]].gen # None /\ w[c[i]].kind = m[c[i]].kind
        BY <1>2, <1>10, <4>1, Numbers
      <4>3. /\ q[j - Len(c)] \in DOMAIN m /\ m[q[j - Len(c)]].status = "queued"
            /\ m[q[j - Len(c)]].gen = None
            /\ w[q[j - Len(c)]].kind = m[q[j - Len(c)]].kind
        BY <1>5, <1>7, <4>1
      <4> QED
        BY <1>1, <4>1, <4>2, <4>3 DEF Aged
    <3>3. CASE ~(i <= Len(c))
      <4>1. /\ e[i] = q[i - Len(c)] /\ i - Len(c) \in DOMAIN q
            /\ e[j] = q[j - Len(c)] /\ j - Len(c) \in DOMAIN q
            /\ i - Len(c) < j - Len(c)
        BY <1>4, <2>3, <3>3
      <4>2. q[i - Len(c)] < q[j - Len(c)]
        BY <4>1 DEF Queued
      <4> QED
        BY <1>5, <4>1, <4>2
    <3> QED
      BY <1>4, <3>1, <3>2, <3>3
  <2> QED
    BY <2>2, <2>3 DEF Live
<1>17. Chained(u, w)
  <2>1. ASSUME NEW a \in Attachments, a # p.stream PROVE ChainOf(w, a, p.chain[a], p.sent[a])
    <3>1. ChainOf(m, a, p.chain[a], p.sent[a]) /\ p.chain[a] \in Seq(Nat)
      BY <1>1, PlaneOf DEF Chained
    <3>2. \A i \in DOMAIN p.chain[a] : ~Line(q, p.chain[a][i])
      BY <1>5, <3>1, Numbers DEF ChainOf, Line
    <3>3. \A i \in DOMAIN p.chain[a] : p.chain[a][i] \in DOMAIN m /\ w[p.chain[a][i]] = m[p.chain[a][i]]
      BY <1>7, <3>1, <3>2 DEF ChainOf
    <3>4. p.chain[a] # <<>> => 1 \in DOMAIN p.chain[a]
      BY <3>1, NatOf
    <3> QED
      BY <1>6, <3>1, <3>3, <3>4 DEF ChainOf
  <2>2. u.chain[p.stream] = e /\ u.sent[p.stream] = n
    BY <1>2 DEF e, n
  <2> QED
    BY <1>2, <1>9, <1>15, <1>16, <2>1, <2>2 DEF Chained
<1>18. Framed(w, f) /\ Ordered(w, f)
  <2>1. \A i \in DOMAIN f : ~Line(q, f[i].o)
    BY <1>1, <1>5 DEF Framed, Line
  <2>2. Framed(w, f)
    BY <1>1, <1>6, <1>7, <2>1 DEF Framed
  <2> QED
    BY <1>1, <1>6, <2>2, OrderKept
<1>19. OnWire(w, f, e, n)
  <2>1. ASSUME NEW i \in DOMAIN f, NEW k \in DOMAIN e
        PROVE  /\ f[i].o = e[k] => k = 1 /\ 0 < n /\ f[i].part <= n
               /\ w[f[i].o].kind # "resize" /\ w[e[k]].kind # "resize" => f[i].o <= e[k]
    <3>1. f[i].o \in DOMAIN m /\ m[f[i].o].gen # None /\ w[f[i].o].kind = m[f[i].o].kind
      BY <1>1, <1>7 DEF Framed
    <3>2. CASE k <= Len(c)
      <4>1. k \in DOMAIN c /\ e[k] = c[k] /\ w[c[k]] = m[c[k]]
        BY <1>4, <1>10, <3>2
      <4> QED
        BY <1>1, <3>1, <4>1 DEF OnWire
    <3>3. CASE ~(k <= Len(c))
      <4>1. e[k] = q[k - Len(c)] /\ k - Len(c) \in DOMAIN q
        BY <1>4, <3>3
      <4>2. /\ e[k] \in DOMAIN m /\ m[e[k]].status = "queued" /\ m[e[k]].gen = None
            /\ w[e[k]].kind = m[e[k]].kind
        BY <1>5, <1>7, <4>1
      <4>3. w[f[i].o].kind # "resize" /\ w[e[k]].kind # "resize" => f[i].o < e[k]
        BY <1>1, <3>1, <4>2 DEF Aged
      <4>4. f[i].o < e[k] => f[i].o <= e[k]
        BY <1>8, <3>1, <4>2
      <4> QED
        BY <3>1, <4>2, <4>3, <4>4
    <3> QED
      BY <3>2, <3>3
  <2>2. n > 0 => f # <<>> /\ f[Len(f)].o = e[1] /\ f[Len(f)].part = n
    <3>1. n > 0 => c # <<>>
      BY <1>3 DEF ChainOf
    <3>2. c # <<>> => e[1] = c[1]
      BY <1>3, <1>4, NatOf
    <3> QED
      BY <1>1, <3>1, <3>2 DEF OnWire
  <2> QED
    BY <2>1, <2>2 DEF OnWire
<1>20. Wired(u, w, f)
  <2>1. u.chain[p.stream] = e /\ u.sent[p.stream] = n
    BY <1>2 DEF e, n
  <2> QED
    BY <1>2, <1>18, <1>19, <2>1 DEF Wired
<1>21. Truthful(w, f)
  <2>1. ASSUME NEW o \in DOMAIN m, w[o].status # "settled" PROVE m[o].status # "settled"
    <3>1. Line(q, o) => m[o].status = "queued"
      BY <1>5 DEF Line
    <3> QED
      BY <1>7, <2>1, <3>1
  <2> QED
    BY <1>1, <1>6, <1>7, <2>1, WritesKept DEF Truthful
<1>22. Owed(u, w, x, f, d)
  <2>1. \A o \in DOMAIN m : Writes(f, w, o) <=> Writes(f, m, o)
    BY <1>6, WritesKept
  <2>2. \A o \in d : o \in DOMAIN w /\ Writes(f, w, o)
    BY <1>1, <1>6, <2>1 DEF Owed
  <2>3. ASSUME NEW o \in DOMAIN m, w[o].status = "inflight", o \notin x
        PROVE  Line(e, o) \/ (Writes(f, m, o) /\ o \notin d)
    <3>1. CASE Line(q, o)
      <4>1. PICK i \in DOMAIN q : q[i] = o
        BY <3>1 DEF Line
      <4>2. i + Len(c) \in Len(c) + 1 .. Len(c) + Len(q) /\ i + Len(c) - Len(c) = i
        BY <1>4, <4>1
      <4>3. i + Len(c) \in DOMAIN e /\ e[i + Len(c)] = o
        BY <1>4, <4>1, <4>2
      <4> QED
        BY <4>3 DEF Line
    <3>2. CASE ~Line(q, o)
      <4>1. m[o].status = "inflight"
        BY <1>7, <2>3, <3>2
      <4>2. Line(p.chain[p.stream], o) \/ (Writes(f, m, o) /\ o \notin d)
        BY <1>1, <2>3, <4>1 DEF Owed
      <4>3. Line(c, o) \/ (Writes(f, m, o) /\ o \notin d)
        BY <4>2 DEF c
      <4>4. \A i \in DOMAIN c : i \in DOMAIN e /\ e[i] = c[i]
        BY <1>4
      <4>5. Line(c, o) => Line(e, o)
        BY <4>4 DEF Line
      <4> QED
        BY <4>3, <4>5
    <3> QED
      BY <3>1, <3>2
  <2>4. u.chain[u.stream] = e
    BY <1>2 DEF e
  <2> QED
    BY <1>6, <2>1, <2>2, <2>3, <2>4 DEF Owed
<1> QED
  BY <1>1, <1>11, <1>12, <1>13, <1>14, <1>17, <1>20, <1>21, <1>22 DEF Flow

-----------------------------------------------------------------------------
(* What the other parts of the methods keep.                               *)

\* A plane with the same route, and more operations that may be left unsent.
SameRoute(p, u) ==
  /\ u \in Planes /\ u.stream = p.stream /\ u.last = p.last /\ u.nextId = p.nextId
  /\ u.chain = p.chain /\ u.sent = p.sent
  /\ u.stream = None => ~u.attached

LEMMA FlowKept ==
  ASSUME NEW p, NEW u, NEW m, NEW x, NEW y, NEW f, NEW d,
         Flow(p, m, x, f, d), SameRoute(p, u), x \subseteq y
  PROVE  Flow(u, m, y, f, d)
  BY DEF Flow, SameRoute, Routed, Named, Chained, Wired, Owed

\* A new operation at the end of those made.
LEMMA NewMade ==
  ASSUME NEW m \in Made, NEW r \in Operations, NEW w, w = Append(m, r)
  PROVE  /\ w \in Made /\ DOMAIN w = DOMAIN m \cup {Len(m) + 1} /\ Len(m) + 1 \notin DOMAIN m
         /\ \A o \in DOMAIN m : w[o] = m[o] /\ o < Len(m) + 1
         /\ w[Len(m) + 1] = r /\ Len(m) \in Nat
<1>1. Len(m) \in Nat /\ DOMAIN m = 1 .. Len(m) /\ m \in Seq(Operations)
  BY DEF Made
<1>2. w \in Seq(Operations) /\ Len(w) = Len(m) + 1
  BY <1>1
<1>3. DOMAIN w = 1 .. Len(m) + 1
  BY <1>1, <1>2
<1>4. \A o \in 1 .. Len(m) : w[o] = m[o]
  BY <1>1
<1>5. w[Len(m) + 1] = r
  BY <1>1
<1> QED
  BY <1>1, <1>2, <1>3, <1>4, <1>5 DEF Made

LEMMA AddFlow ==
  ASSUME NEW p, NEW m, NEW w, NEW x, NEW f, NEW d, NEW r \in Operations,
         Flow(p, m, x, f, d), w = Append(m, r), r.gen = None,
         (r.status = "queued" /\ r.outcome = "none") \/ (r.status = "settled" /\ r.outcome = "refused")
  PROVE  Flow(p, w, x, f, d)
<1> DEFINE z == Len(m) + 1
<1>1. /\ p \in Planes /\ m \in Made /\ f \in Sent
      /\ Routed(p) /\ Named(p, m) /\ Aged(m) /\ Chained(p, m)
      /\ Wired(p, m, f) /\ Truthful(m, f) /\ Owed(p, m, x, f, d)
  BY DEF Flow
<1>2. /\ w \in Made /\ DOMAIN w = DOMAIN m \cup {z} /\ z \notin DOMAIN m
      /\ \A o \in DOMAIN m : w[o] = m[o] /\ o < z
      /\ w[z] = r /\ z \in Nat
  <2>1. /\ w \in Made /\ DOMAIN w = DOMAIN m \cup {Len(m) + 1} /\ Len(m) + 1 \notin DOMAIN m
        /\ \A o \in DOMAIN m : w[o] = m[o] /\ o < Len(m) + 1
        /\ w[Len(m) + 1] = r /\ Len(m) \in Nat
    <3>1. m \in Made
      BY <1>1
    <3>2. r \in Operations /\ w = Append(m, r)
      OBVIOUS
    <3>3. w \in Made
      BY <3>1, <3>2, NewMade, Zenon
    <3>4. DOMAIN w = DOMAIN m \cup {Len(m) + 1}
      BY <3>1, <3>2, NewMade
    <3>5. \A o \in DOMAIN m : w[o] = m[o] /\ o < Len(m) + 1
      BY <3>1, <3>2, NewMade
    <3> QED
      BY <3>1, <3>2, <3>3, <3>4, <3>5, NewMade
  <2> QED
    BY <2>1
<1> HIDE DEF z
<1>3. Grows(m, w)
  BY <1>2 DEF Grows
<1>4. Framed(m, f)
  BY <1>1 DEF Wired
<1>5. \A o \in DOMAIN m : Writes(f, w, o) <=> Writes(f, m, o)
  BY <1>3, WritesKept
<1>6. Named(p, w)
  <2>1. p.last >= 0
    BY <1>1, PlaneOf
  <2> QED
    BY <1>1, <1>2, <2>1, Numbers DEF Named
<1>7. Aged(w)
  BY <1>1, <1>2 DEF Aged
<1>8. Chained(p, w)
  <2>1. ASSUME NEW a \in Attachments PROVE ChainOf(w, a, p.chain[a], p.sent[a])
    <3>1. ChainOf(m, a, p.chain[a], p.sent[a])
      BY <1>1 DEF Chained
    <3>2. p.chain[a] # <<>> => 1 \in DOMAIN p.chain[a]
      BY <1>1, PlaneOf, NatOf
    <3> QED
      BY <1>2, <3>1, <3>2 DEF ChainOf
  <2>2. p.stream # None => Live(w, p.chain[p.stream])
    <3> SUFFICES ASSUME p.stream # None PROVE Live(w, p.chain[p.stream])
      OBVIOUS
    <3>1. p.stream \in Attachments
      BY <1>1, PlaneOf, Numbers DEF Routed, Attachments
    <3>2. \A i \in DOMAIN p.chain[p.stream] : p.chain[p.stream][i] \in DOMAIN m
      BY <1>1, <3>1 DEF Chained, ChainOf
    <3> QED
      BY <1>1, <1>2, <3>2 DEF Chained, Live
  <2> QED
    BY <2>1, <2>2 DEF Chained
<1>9. Wired(p, w, f)
  <2>1. Framed(w, f) /\ Ordered(w, f)
    BY <1>1, <1>2, <1>3, <1>4, OrderKept DEF Framed, Wired
  <2>2. p.stream # None => OnWire(w, f, p.chain[p.stream], p.sent[p.stream])
    <3> SUFFICES ASSUME p.stream # None PROVE OnWire(w, f, p.chain[p.stream], p.sent[p.stream])
      OBVIOUS
    <3>1. p.stream \in Attachments
      BY <1>1, PlaneOf, Numbers DEF Routed, Attachments
    <3>2. \A i \in DOMAIN p.chain[p.stream] : p.chain[p.stream][i] \in DOMAIN m
      BY <1>1, <3>1 DEF Chained, ChainOf
    <3> QED
      BY <1>1, <1>2, <1>4, <3>2 DEF Wired, OnWire, Framed
  <2> QED
    BY <2>1, <2>2 DEF Wired
<1>10. Truthful(w, f)
  <2>1. ~Writes(f, w, z)
    BY <1>2, <1>4 DEF Writes, Framed
  <2>2. r.outcome \notin {"written", "rejected_unsafe_paste"}
    OBVIOUS
  <2> QED
    BY <1>1, <1>2, <1>5, <2>1, <2>2 DEF Truthful
<1>11. Owed(p, w, x, f, d)
  <2>1. r.status # "inflight"
    OBVIOUS
  <2> QED
    BY <1>1, <1>2, <1>5, <2>1 DEF Owed
<1> QED
  BY <1>1, <1>2, <1>6, <1>7, <1>8, <1>9, <1>10, <1>11 DEF Flow

\* An operation in flight that is not in the chain settles; its result may be answered.
Settles(m, w, o, outcome) ==
  /\ w \in Made /\ DOMAIN w = DOMAIN m /\ o \in DOMAIN m
  /\ \A y \in DOMAIN m : y # o => w[y] = m[y]
  /\ w[o].kind = m[o].kind /\ w[o].gen = m[o].gen /\ w[o].id = m[o].id
  /\ w[o].attempt = m[o].attempt
  /\ w[o].status = "settled" /\ w[o].outcome = outcome

LEMMA SettleFlow ==
  ASSUME NEW p, NEW m, NEW u, NEW w, NEW o, NEW outcome, NEW f, NEW d, NEW e,
         Flow(p, m, {o}, f, d), m[o].status = "inflight", ~Line(p.chain[p.stream], o),
         SameRoute(p, u), Settles(m, w, o, outcome),
         outcome \in {"written", "rejected_unsafe_paste"} => Writes(f, m, o),
         outcome \in {"cancelled", "refused", "released"} => ~Writes(f, m, o),
         e = d \/ (e = d \cup {o} /\ Writes(f, m, o))
  PROVE  Flow(u, w, {}, f, e)
<1>1. /\ p \in Planes /\ m \in Made /\ f \in Sent
      /\ Routed(p) /\ Named(p, m) /\ Aged(m) /\ Chained(p, m)
      /\ Wired(p, m, f) /\ Truthful(m, f) /\ Owed(p, m, {o}, f, d)
  BY DEF Flow
<1>2. /\ w \in Made /\ DOMAIN w = DOMAIN m /\ o \in DOMAIN m
      /\ \A y \in DOMAIN m : y # o => w[y] = m[y]
      /\ w[o].status = "settled" /\ w[o].outcome = outcome
      /\ \A y \in DOMAIN m : /\ w[y].kind = m[y].kind /\ w[y].gen = m[y].gen
                             /\ w[y].id = m[y].id
  BY DEF Settles
<1>3. Grows(m, w)
  BY <1>2 DEF Grows
<1>4. \A y \in DOMAIN m : Writes(f, w, y) <=> Writes(f, m, y)
  BY <1>3, WritesKept
<1>5. /\ u \in Planes /\ u.stream = p.stream /\ u.last = p.last /\ u.nextId = p.nextId
      /\ u.chain = p.chain /\ u.sent = p.sent
      /\ u.stream = None => ~u.attached
  BY DEF SameRoute
<1>6. Routed(u)
  BY <1>1, <1>5 DEF Routed
<1>7. Named(u, w)
  BY <1>1, <1>2, <1>5 DEF Named
<1>8. Aged(w)
  BY <1>1, <1>2 DEF Aged
<1>9. Chained(u, w)
  <2>1. ASSUME NEW a \in Attachments PROVE ChainOf(w, a, p.chain[a], p.sent[a])
    <3>1. ChainOf(m, a, p.chain[a], p.sent[a])
      BY <1>1 DEF Chained
    <3>2. p.chain[a] # <<>> => 1 \in DOMAIN p.chain[a]
      BY <1>1, PlaneOf, NatOf
    <3> QED
      BY <1>2, <3>1, <3>2 DEF ChainOf
  <2>2. p.stream # None => Live(w, p.chain[p.stream])
    <3> SUFFICES ASSUME p.stream # None PROVE Live(w, p.chain[p.stream])
      OBVIOUS
    <3>1. p.stream \in Attachments
      BY <1>1, PlaneOf, Numbers DEF Routed, Attachments
    <3>2. \A i \in DOMAIN p.chain[p.stream] :
            p.chain[p.stream][i] \in DOMAIN m /\ p.chain[p.stream][i] # o
      BY <1>1, <3>1 DEF Chained, ChainOf, Line
    <3> QED
      BY <1>1, <1>2, <3>2 DEF Chained, Live
  <2> QED
    BY <1>5, <2>1, <2>2 DEF Chained
<1>10. Wired(u, w, f)
  <2>1. Framed(m, f) /\ Framed(w, f) /\ Ordered(w, f)
    BY <1>1, <1>2, <1>3, OrderKept DEF Framed, Wired
  <2>2. p.stream # None => OnWire(w, f, p.chain[p.stream], p.sent[p.stream])
    <3> SUFFICES ASSUME p.stream # None PROVE OnWire(w, f, p.chain[p.stream], p.sent[p.stream])
      OBVIOUS
    <3>1. p.stream \in Attachments
      BY <1>1, PlaneOf, Numbers DEF Routed, Attachments
    <3>2. \A i \in DOMAIN p.chain[p.stream] : p.chain[p.stream][i] \in DOMAIN m
      BY <1>1, <3>1 DEF Chained, ChainOf
    <3> QED
      BY <1>1, <1>2, <2>1, <3>2 DEF Wired, OnWire, Framed
  <2> QED
    BY <1>5, <2>1, <2>2 DEF Wired
<1>11. Truthful(w, f)
  BY <1>1, <1>2, <1>4 DEF Truthful
<1>12. Owed(u, w, {}, f, e)
  <2>1. \A y \in e : y \in DOMAIN w /\ Writes(f, w, y)
    BY <1>1, <1>2, <1>4 DEF Owed
  <2>2. ASSUME NEW y \in DOMAIN w, w[y].status = "inflight"
        PROVE  Line(p.chain[p.stream], y) \/ (Writes(f, w, y) /\ y \notin e)
    <3>1. y # o /\ m[y].status = "inflight"
      BY <1>2, <2>2
    <3> QED
      BY <1>1, <1>2, <1>4, <3>1 DEF Owed
  <2> QED
    BY <1>2, <1>5, <2>1, <2>2 DEF Owed
<1> QED
  BY <1>1, <1>2, <1>5, <1>6, <1>7, <1>8, <1>9, <1>10, <1>11, <1>12 DEF Flow

\* abandonInputs: the stream ends and every operation with it.
Ends(m, w) ==
  /\ w \in Made /\ DOMAIN w = DOMAIN m
  /\ \A o \in DOMAIN m :
       /\ w[o].kind = m[o].kind /\ w[o].gen = m[o].gen /\ w[o].status = "settled"
       /\ m[o].status = "settled" => w[o] = m[o]
       /\ m[o].status = "inflight" => w[o].outcome = "unknown"
       /\ m[o].status = "queued" => w[o].outcome = "cancelled"

LEMMA AbandonFlow ==
  ASSUME NEW p, NEW m, NEW u, NEW w, NEW f, NEW d,
         Flow(p, m, {}, f, d), Ends(m, w), u \in Planes, u.stream = None, u.last = p.last,
         ~u.attached, u.chain = p.chain, u.sent = p.sent
  PROVE  Flow(u, w, {}, f, d)
<1>1. /\ p \in Planes /\ m \in Made /\ f \in Sent
      /\ Routed(p) /\ Named(p, m) /\ Aged(m) /\ Chained(p, m)
      /\ Wired(p, m, f) /\ Truthful(m, f) /\ Owed(p, m, {}, f, d)
  BY DEF Flow
<1>2. /\ w \in Made /\ DOMAIN w = DOMAIN m
      /\ \A o \in DOMAIN m : w[o].kind = m[o].kind /\ w[o].gen = m[o].gen /\ w[o].status = "settled"
  BY DEF Ends
<1>3. Grows(m, w)
  BY <1>2 DEF Grows
<1>4. Framed(m, f) /\ Framed(w, f) /\ Ordered(w, f)
  BY <1>1, <1>2, <1>3, OrderKept DEF Framed, Wired
<1>5. \A o \in DOMAIN m : Writes(f, w, o) <=> Writes(f, m, o)
  BY <1>3, WritesKept
<1>6. Routed(u)
  BY <1>1 DEF Routed
<1>7. Named(u, w)
  BY <1>1, <1>2 DEF Named
<1>8. Aged(w)
  BY <1>2 DEF Aged
<1>9. Chained(u, w)
  <2>1. ASSUME NEW a \in Attachments PROVE ChainOf(w, a, p.chain[a], p.sent[a])
    <3>1. ChainOf(m, a, p.chain[a], p.sent[a])
      BY <1>1 DEF Chained
    <3>2. p.chain[a] # <<>> => 1 \in DOMAIN p.chain[a]
      BY <1>1, PlaneOf, NatOf
    <3> QED
      BY <1>2, <3>1, <3>2 DEF ChainOf
  <2> QED
    BY <2>1 DEF Chained
<1>10. Wired(u, w, f)
  BY <1>4 DEF Wired
<1>11. Truthful(w, f)
  <2>1. ASSUME NEW o \in DOMAIN m
        PROVE  /\ w[o].outcome \in {"written", "rejected_unsafe_paste"} => Writes(f, m, o)
               /\ w[o].outcome \in {"cancelled", "refused", "released"} => ~Writes(f, m, o)
    <3>1. m[o].status \in {"queued", "inflight", "settled"}
      BY <1>1, OperationOf DEF Statuses
    <3>2. CASE m[o].status = "settled"
      BY <1>1, <3>2 DEF Truthful, Ends
    <3>3. CASE m[o].status = "inflight"
      BY <3>3 DEF Ends
    <3>4. CASE m[o].status = "queued"
      <4>1. m[o].gen = None
        BY <1>1, <3>4 DEF Named
      <4>2. ~Writes(f, m, o)
        BY <1>4, <4>1 DEF Writes, Framed
      <4> QED
        BY <3>4, <4>2 DEF Ends
    <3> QED
      BY <3>1, <3>2, <3>3, <3>4
  <2> QED
    BY <1>2, <1>5, <2>1 DEF Truthful
<1>12. Owed(u, w, {}, f, d)
  BY <1>1, <1>2, <1>5 DEF Owed
<1> QED
  BY <1>1, <1>2, <1>6, <1>7, <1>8, <1>9, <1>10, <1>11, <1>12 DEF Flow

\* attachToAuthoritativeSession: a stream nothing is known of.
LEMMA AttachFlow ==
  ASSUME NEW p, NEW m, NEW u, NEW f, NEW d,
         Flow(p, m, {}, f, d), p.stream = None, p.last < MaxAttach,
         u \in Planes, u.stream = p.last + 1, u.last = p.last + 1,
         u.chain = p.chain, u.sent = p.sent
  PROVE  Flow(u, m, {}, f, d) /\ \A o \in DOMAIN m : m[o].gen # u.stream
<1>1. /\ p \in Planes /\ m \in Made /\ f \in Sent
      /\ Routed(p) /\ Named(p, m) /\ Aged(m) /\ Chained(p, m)
      /\ Wired(p, m, f) /\ Truthful(m, f) /\ Owed(p, m, {}, f, d)
  BY DEF Flow
<1>2. /\ p.last \in Nat /\ u.stream \in Attachments /\ u.stream # None
      /\ \A o \in DOMAIN m : m[o].gen \in Nat /\ m[o].gen <= p.last /\ m[o].status # "inflight"
  BY <1>1, PlaneOf, OperationOf, Numbers DEF Attachments, Named
<1>3. \A o \in DOMAIN m : m[o].gen # u.stream /\ m[o].gen <= u.last
  BY <1>2
<1>4. u.chain[u.stream] = <<>> /\ u.sent[u.stream] = -1
  BY <1>1, <1>2 DEF Routed
<1>5. Routed(u)
  BY <1>1, <1>2, Numbers DEF Routed, Attachments
<1>6. Named(u, m)
  BY <1>1, <1>2, <1>3 DEF Named
<1>7. Chained(u, m)
  BY <1>1, <1>4 DEF Chained, Live
<1>8. Wired(u, m, f)
  BY <1>1, <1>4 DEF Wired, OnWire
<1>9. Owed(u, m, {}, f, d)
  BY <1>1, <1>2 DEF Owed
<1> QED
  BY <1>1, <1>3, <1>5, <1>6, <1>7, <1>8, <1>9 DEF Flow

-----------------------------------------------------------------------------
(* The send chain.                                                         *)

LEMMA TailOf ==
  ASSUME NEW c \in Seq(Nat), c # <<>>
  PROVE  /\ Head(c) = c[1] /\ Tail(c) \in Seq(Nat) /\ Len(c) \in Nat \ {0}
         /\ DOMAIN c = 1 .. Len(c) /\ DOMAIN Tail(c) = 1 .. Len(c) - 1
         /\ \A i \in DOMAIN Tail(c) : Tail(c)[i] = c[i + 1] /\ i + 1 \in DOMAIN c
  OBVIOUS

\* The head of a chain starts.
LEMMA StartFlow ==
  ASSUME NEW p, NEW m, NEW u, NEW f, NEW d, NEW a \in Attachments,
         Flow(p, m, {}, f, d), p.chain[a] # <<>>, p.sent[a] = -1,
         u \in Planes, u.stream = p.stream, u.last = p.last, u.attached = p.attached,
         u.nextId = p.nextId, u.chain = p.chain, u.sent = [p.sent EXCEPT ![a] = 0]
  PROVE  Flow(u, m, {}, f, d)
<1>1. /\ p \in Planes /\ m \in Made /\ f \in Sent
      /\ Routed(p) /\ Named(p, m) /\ Aged(m) /\ Chained(p, m)
      /\ Wired(p, m, f) /\ Truthful(m, f) /\ Owed(p, m, {}, f, d)
  BY DEF Flow
<1>2. u.sent[a] = 0 /\ \A b \in Attachments : b # a => u.sent[b] = p.sent[b]
  BY <1>1, PlaneOf
<1>3. Routed(u)
  <2>1. ~(p.last < a)
    BY <1>1 DEF Routed
  <2> QED
    BY <1>1, <1>2, <2>1 DEF Routed
<1>4. Named(u, m)
  BY <1>1 DEF Named
<1>5. Chained(u, m)
  <2>1. ChainOf(m, a, p.chain[a], 0)
    BY <1>1, Numbers DEF Chained, ChainOf
  <2> QED
    BY <1>1, <1>2, <2>1 DEF Chained
<1>6. Wired(u, m, f)
  <2>1. ASSUME p.stream # None PROVE OnWire(m, f, u.chain[p.stream], u.sent[p.stream])
    <3>1. p.stream \in Attachments
      BY <1>1, <2>1, PlaneOf, Numbers DEF Routed, Attachments
    <3>2. OnWire(m, f, p.chain[p.stream], p.sent[p.stream])
      BY <1>1, <2>1 DEF Wired
    <3>3. CASE p.stream = a
      BY <1>2, <3>2, <3>3 DEF OnWire
    <3>4. CASE p.stream # a
      BY <1>2, <3>1, <3>2, <3>4
    <3> QED
      BY <3>3, <3>4
  <2> QED
    BY <1>1, <2>1 DEF Wired
<1>7. Owed(u, m, {}, f, d)
  BY <1>1 DEF Owed
<1> QED
  BY <1>1, <1>3, <1>4, <1>5, <1>6, <1>7 DEF Flow

\* A frame more of the head of the stream's chain: the next one, or the abort of a paste.
Adds(f, g, c, part) ==
  /\ g \in Sent /\ Len(g) = Len(f) + 1
  /\ \A i \in DOMAIN f : g[i] = f[i]
  /\ g[Len(f) + 1].o = c[1] /\ g[Len(f) + 1].part = part

LEMMA AddsFrame ==
  ASSUME NEW f \in Sent, NEW c, NEW part \in Nat, NEW a \in Nat, c[1] \in Nat
  PROVE  Adds(f, Append(f, [a |-> a, o |-> c[1], part |-> part]), c, part)
<1> DEFINE r == [a |-> a, o |-> c[1], part |-> part]
<1>1. r \in FrameTypes /\ r.o = c[1] /\ r.part = part
  BY DEF FrameTypes
<1> HIDE DEF r
<1>2. f \in Seq(FrameTypes) /\ Append(f, r) \in Seq(FrameTypes)
  BY <1>1 DEF Sent
<1>3. Len(Append(f, r)) = Len(f) + 1 /\ Append(f, r)[Len(f) + 1] = r
  BY <1>1, <1>2
<1>4. \A i \in DOMAIN f : Append(f, r)[i] = f[i]
  BY <1>1, <1>2
<1>5. Adds(f, Append(f, r), c, part)
  BY <1>1, <1>2, <1>3, <1>4 DEF Adds, Sent
<1> QED
  BY <1>5 DEF r

\* What is written by then.
Framing(m, f, g, c, part) ==
  /\ Framed(m, g) /\ Ordered(m, g)
  /\ \A o : Writes(g, m, o) <=> Writes(f, m, o) \/ (o = c[1] /\ part = Frames(m[o].kind))
  /\ \A i \in DOMAIN g : (i \in DOMAIN f /\ g[i] = f[i]) \/ (i = Len(g) /\ g[i].o = c[1])
  /\ g # <<>> /\ g[Len(g)].o = c[1] /\ g[Len(g)].part = part

LEMMA FrameAdded ==
  ASSUME NEW p, NEW m, NEW f, NEW g, NEW d, NEW c, NEW n, NEW part, Flow(p, m, {}, f, d),
         p.stream # None, c = p.chain[p.stream], n = p.sent[p.stream], n >= 0,
         Adds(f, g, c, part), part = n + 1 \/ (part = Abort /\ n > 0)
  PROVE  Framing(m, f, g, c, part)
<1>1. /\ p \in Planes /\ m \in Made /\ f \in Sent /\ g \in Sent
      /\ Framed(m, f) /\ Ordered(m, f) /\ OnWire(m, f, c, n)
  BY DEF Flow, Wired, Adds
<1>2. p.stream \in Attachments
  BY PlaneOf, Numbers DEF Flow, Routed, Attachments
<1>3. /\ c \in Seq(Nat) /\ n \in Int /\ c # <<>> /\ 1 \in DOMAIN c
      /\ c[1] \in DOMAIN m /\ m[c[1]].gen = p.stream /\ n < Frames(m[c[1]].kind)
  BY <1>1, <1>2, PlaneOf, NatOf, Zenon DEF Flow, Chained, ChainOf
<1>4. /\ Len(f) \in Nat /\ DOMAIN f = 1 .. Len(f) /\ DOMAIN g = 1 .. Len(f) + 1
      /\ Len(g) = Len(f) + 1
      /\ \A i \in DOMAIN f : g[i] = f[i] /\ f[i].o \in DOMAIN m /\ f[i].part \in Nat
      /\ g[Len(f) + 1].o = c[1] /\ g[Len(f) + 1].part = part
  BY <1>1, FrameOf DEF Adds, Framed
<1>5. \A i \in DOMAIN g : (i \in DOMAIN f /\ g[i] = f[i]) \/ i = Len(f) + 1
  BY <1>4
<1>6. Framed(m, g)
  BY <1>1, <1>2, <1>3, <1>4, <1>5, Numbers DEF Framed
<1>7. ASSUME NEW i \in DOMAIN f
      PROVE  /\ m[f[i].o].kind # "resize" /\ m[c[1]].kind # "resize" => f[i].o <= c[1]
             /\ f[i].o = c[1] => /\ \A k \in i .. Len(f) + 1 : g[k].o = f[i].o
                                 /\ part \in {f[i].part + Len(f) + 1 - i, Abort}
  <2>1. m[f[i].o].kind # "resize" /\ m[c[1]].kind # "resize" => f[i].o <= c[1]
    BY <1>1, <1>3 DEF OnWire
  <2>2. ASSUME f[i].o = c[1]
        PROVE  /\ \A k \in i .. Len(f) + 1 : g[k].o = f[i].o
               /\ part \in {f[i].part + Len(f) + 1 - i, Abort}
    <3>1. n > 0 /\ f[Len(f)].o = c[1] /\ f[Len(f)].part = n /\ Len(f) \in DOMAIN f
      BY <1>1, <1>3, <1>4, <2>2 DEF OnWire
    <3>2. CASE i = Len(f)
      <4>1. \A l \in Nat : \A k \in l .. l + 1 : k = l \/ k = l + 1
        OBVIOUS
      <4>2. \A k \in i .. Len(f) + 1 : g[k].o = f[i].o
        BY <1>4, <2>2, <3>1, <3>2, <4>1
      <4>3. n + 1 = f[i].part + Len(f) + 1 - i
        BY <1>3, <1>4, <3>1, <3>2
      <4> QED
        BY <4>2, <4>3
    <3>3. CASE i < Len(f)
      <4>1. /\ \A k \in i .. Len(f) : f[k].o = f[i].o
            /\ n \in {f[i].part + Len(f) - i, Abort}
        BY <1>1, <2>2, <3>1, <3>3 DEF Ordered
      <4>2. \A k \in i .. Len(f) + 1 : (k \in i .. Len(f) /\ k \in DOMAIN f) \/ k = Len(f) + 1
        BY <1>4
      <4>3. \A k \in i .. Len(f) + 1 : g[k].o = f[i].o
        BY <1>4, <2>2, <4>1, <4>2, Zenon
      <4>4. n = f[i].part + Len(f) - i
        BY <3>1, <4>1, Numbers
      <4>5. n + 1 = f[i].part + Len(f) + 1 - i
        BY <1>4, <4>4
      <4> QED
        BY <4>3, <4>5
    <3> QED
      BY <1>4, <3>2, <3>3
  <2> QED
    BY <2>1, <2>2
<1>8. Ordered(m, g)
  <2>1. ASSUME NEW i \in DOMAIN g, NEW j \in DOMAIN g, i < j
        PROVE  /\ m[g[i].o].kind # "resize" /\ m[g[j].o].kind # "resize" => g[i].o <= g[j].o
               /\ g[i].o = g[j].o => \A k \in i .. j : g[k].o = g[i].o
               /\ g[i].o = g[j].o => g[j].part \in {g[i].part + j - i, Abort}
    <3>1. i \in DOMAIN f /\ g[i] = f[i]
      BY <1>4, <1>5, <2>1
    <3>2. CASE j = Len(f) + 1
      <4>1. g[j].o = c[1] /\ g[j].part = part
        BY <1>4, <3>2
      <4>2. /\ m[g[i].o].kind # "resize" /\ m[c[1]].kind # "resize" => g[i].o <= c[1]
            /\ g[i].o = c[1] => \A k \in i .. j : g[k].o = g[i].o
            /\ g[i].o = c[1] => part \in {g[i].part + j - i, Abort}
        <5>1. \A k \in i .. j : k \in i .. Len(f) + 1
          BY <3>2
        <5>2. f[i].part + Len(f) + 1 - i = g[i].part + j - i
          <6>1. f[i].part \in Nat /\ i \in Nat /\ Len(f) \in Nat /\ g[i].part = f[i].part
            BY <1>4, <3>1
          <6> QED
            BY <3>2, <6>1
        <5> QED
          BY <1>7, <3>1, <5>1, <5>2
      <4> QED
        BY <4>1, <4>2
    <3>3. CASE j \in DOMAIN f
      <4>1. \A k \in i .. j : k \in DOMAIN f
        BY <1>4, <3>1, <3>3
      <4> QED
        BY <1>1, <1>4, <2>1, <3>1, <3>3, <4>1 DEF Ordered
    <3> QED
      BY <1>5, <3>2, <3>3
  <2> QED
    BY <2>1 DEF Ordered
<1>9. ASSUME NEW o PROVE Writes(g, m, o) <=> Writes(f, m, o) \/ (o = c[1] /\ part = Frames(m[o].kind))
  <2>1. Writes(f, m, o) => Writes(g, m, o)
    BY <1>4, SMTT(30) DEF Writes
  <2>2. ASSUME o = c[1], part = Frames(m[o].kind)
        PROVE  Writes(g, m, o)
    <3> DEFINE z == Len(f) + 1
    <3>1. z \in DOMAIN g /\ g[z].o = c[1] /\ g[z].part = part
      BY <1>4
    <3> HIDE DEF z
    <3>2. g[z].o = o /\ g[z].part = Frames(m[o].kind)
      BY ONLY <2>2, <3>1
    <3> QED
      BY ONLY <3>1, <3>2 DEF Writes
  <2>3. Writes(g, m, o) => Writes(f, m, o) \/ (o = c[1] /\ part = Frames(m[o].kind))
    BY <1>4, <1>5 DEF Writes
  <2> QED
    BY <2>1, <2>2, <2>3
<1>10. g # <<>>
  BY <1>4
<1> QED
  BY <1>4, <1>5, <1>6, <1>8, <1>9, <1>10 DEF Framing

\* A frame that is not the last one.
LEMMA SendFlow ==
  ASSUME NEW p, NEW m, NEW u, NEW f, NEW g, NEW d, NEW c, NEW n, Flow(p, m, {}, f, d),
         p.stream # None, c = p.chain[p.stream], n = p.sent[p.stream], n >= 0,
         Adds(f, g, c, n + 1), n + 1 # Frames(m[c[1]].kind),
         u \in Planes, u.stream = p.stream, u.last = p.last, u.attached = p.attached,
         u.nextId = p.nextId, u.chain = p.chain, u.sent = [p.sent EXCEPT ![p.stream] = n + 1]
  PROVE  Flow(u, m, {}, g, d)
<1>1. /\ p \in Planes /\ m \in Made /\ g \in Sent
      /\ Routed(p) /\ Named(p, m) /\ Aged(m) /\ Chained(p, m)
      /\ Truthful(m, f) /\ Owed(p, m, {}, f, d) /\ OnWire(m, f, c, n)
  BY DEF Flow, Wired, Adds
<1>2. /\ Framed(m, g) /\ Ordered(m, g)
      /\ \A o : Writes(g, m, o) <=> Writes(f, m, o)
      /\ \A i \in DOMAIN g : (i \in DOMAIN f /\ g[i] = f[i]) \/ (i = Len(g) /\ g[i].o = c[1])
      /\ g # <<>> /\ g[Len(g)].o = c[1] /\ g[Len(g)].part = n + 1
  <2> DEFINE part == n + 1
  <2>1. Adds(f, g, c, part) /\ part = n + 1 /\ part # Frames(m[c[1]].kind)
    OBVIOUS
  <2> HIDE DEF part
  <2>2. Framing(m, f, g, c, part)
    BY <2>1, FrameAdded
  <2> QED
    BY <2>1, <2>2 DEF Framing
<1>3. p.stream \in Attachments
  BY <1>1, PlaneOf, Numbers DEF Routed, Attachments
<1>4. /\ c \in Seq(Nat) /\ n \in Int /\ ChainOf(m, p.stream, c, n) /\ Live(m, c)
      /\ c # <<>> /\ n < Frames(m[c[1]].kind) /\ Frames(m[c[1]].kind) \in Nat
      /\ \A k \in DOMAIN c : c[k] \in DOMAIN m /\ c[k] \in Nat
      /\ DOMAIN c = 1 .. Len(c) /\ Len(c) \in Nat /\ 1 \in DOMAIN c
  BY <1>1, <1>3, PlaneOf, NatOf, Numbers, ZenonT(40) DEF Chained, ChainOf
<1>5. u.sent[p.stream] = n + 1 /\ \A b \in Attachments : b # p.stream => u.sent[b] = p.sent[b]
  BY <1>1, <1>3, PlaneOf
<1>6. Routed(u)
  <2>1. ~(p.last < p.stream)
    BY <1>1, <1>3, PlaneOf DEF Routed
  <2> QED
    BY <1>1, <1>5, <2>1 DEF Routed
<1>7. Named(u, m)
  BY <1>1 DEF Named
<1>8. Chained(u, m)
  <2>1. ChainOf(m, p.stream, c, n + 1)
    <3> DEFINE k == Frames(m[c[1]].kind)
               v == n + 1
    <3>1. k \in Nat /\ n \in Int /\ n >= 0 /\ n < k /\ v # k
      BY <1>4
    <3>2. v >= -1 /\ v < k
      BY ONLY <3>1
    <3>3. c # <<>> /\ \A i \in DOMAIN c : c[i] \in DOMAIN m /\ m[c[i]].gen = p.stream
      BY <1>4 DEF ChainOf
    <3> HIDE DEF v
    <3>4. ChainOf(m, p.stream, c, v)
      BY <3>2, <3>3 DEF ChainOf
    <3> QED
      BY <3>4 DEF v
  <2> QED
    BY <1>1, <1>4, <1>5, <2>1, SMTT(30) DEF Chained
<1>9. OnWire(m, g, c, n + 1)
  <2>1. ASSUME NEW i \in DOMAIN g, NEW k \in DOMAIN c
        PROVE  /\ g[i].o = c[k] => k = 1 /\ 0 < n + 1 /\ g[i].part <= n + 1
               /\ m[g[i].o].kind # "resize" /\ m[c[k]].kind # "resize" => g[i].o <= c[k]
    <3>1. CASE i \in DOMAIN f /\ g[i] = f[i]
      <4>1. /\ f[i].o = c[k] => k = 1 /\ 0 < n /\ f[i].part <= n
            /\ m[f[i].o].kind # "resize" /\ m[c[k]].kind # "resize" => f[i].o <= c[k]
        BY <1>1, <3>1 DEF OnWire
      <4>2. f[i].part \in Nat
        BY <3>1, FrameOf DEF Flow
      <4> QED
        BY <1>4, <3>1, <4>1, <4>2
    <3>2. CASE i = Len(g) /\ g[i].o = c[1]
      <4>1. CASE k = 1
        BY <1>2, <1>4, <3>2, <4>1
      <4>2. CASE k # 1
        <5>1. 1 < k
          BY <1>4, <4>2
        <5>2. c[1] # c[k] /\ (m[c[1]].kind # "resize" /\ m[c[k]].kind # "resize" => c[1] < c[k])
          BY <1>4, <5>1, Zenon DEF Live
        <5>3. c[1] \in Nat /\ c[k] \in Nat
          BY <1>4
        <5>4. g[i].o # c[k]
          BY ONLY <3>2, <5>2
        <5>5. m[g[i].o].kind # "resize" /\ m[c[k]].kind # "resize" => g[i].o <= c[k]
          <6>1. ASSUME m[c[1]].kind # "resize", m[c[k]].kind # "resize"
                PROVE  c[1] <= c[k]
            BY ONLY <5>2, <5>3, <6>1
          <6> QED
            BY <3>2, <6>1
        <5> QED
          BY ONLY <5>4, <5>5
      <4> QED
        BY <4>1, <4>2
    <3> QED
      BY <1>2, <3>1, <3>2
  <2> QED
    BY <1>2, <2>1 DEF OnWire
<1>10. Wired(u, m, g)
  BY <1>2, <1>5, <1>9 DEF Wired
<1>11. Truthful(m, g)
  BY <1>1, <1>2 DEF Truthful
<1>12. Owed(u, m, {}, g, d)
  BY <1>1, <1>2 DEF Owed
<1> QED
  BY <1>1, <1>6, <1>7, <1>8, <1>10, <1>11, <1>12 DEF Flow

\* The head of a chain leaves it; the frames g have at most one more, of the head.
Shifts(p, u, a) ==
  /\ u \in Planes /\ u.stream = p.stream /\ u.last = p.last /\ u.attached = p.attached
  /\ u.nextId = p.nextId
  /\ u.chain = [p.chain EXCEPT ![a] = Tail(p.chain[a])] /\ u.sent = [p.sent EXCEPT ![a] = -1]

LEMMA ShiftPast ==
  ASSUME NEW p, NEW m, NEW u, NEW f, NEW d, NEW a \in Attachments, Flow(p, m, {}, f, d),
         a # p.stream, p.chain[a] # <<>>, Shifts(p, u, a)
  PROVE  Flow(u, m, {}, f, d)
<1>1. /\ p \in Planes /\ m \in Made /\ f \in Sent
      /\ Routed(p) /\ Named(p, m) /\ Aged(m) /\ Chained(p, m)
      /\ Wired(p, m, f) /\ Truthful(m, f) /\ Owed(p, m, {}, f, d)
  BY DEF Flow
<1>2. /\ u \in Planes /\ u.stream = p.stream /\ u.last = p.last /\ u.attached = p.attached
      /\ u.nextId = p.nextId
      /\ u.chain[a] = Tail(p.chain[a]) /\ u.sent[a] = -1
      /\ \A b \in Attachments : b # a => u.chain[b] = p.chain[b] /\ u.sent[b] = p.sent[b]
  BY <1>1, PlaneOf, Zenon DEF Shifts
<1>3. p.stream # None => p.stream \in Attachments
  BY <1>1, PlaneOf, Numbers DEF Routed, Attachments
<1>4. Routed(u)
  <2>1. ~(p.last < a)
    BY <1>1 DEF Routed
  <2> QED
    BY <1>1, <1>2, <2>1 DEF Routed
<1>5. Named(u, m)
  BY <1>1, <1>2 DEF Named
<1>6. Chained(u, m)
  <2>1. ChainOf(m, a, p.chain[a], p.sent[a]) /\ p.chain[a] \in Seq(Nat)
    BY <1>1, PlaneOf DEF Chained
  <2>2. ChainOf(m, a, Tail(p.chain[a]), -1)
    BY <2>1, TailOf DEF ChainOf
  <2> QED
    BY <1>1, <1>2, <1>3, <2>2 DEF Chained
<1>7. Wired(u, m, f)
  BY <1>1, <1>2, <1>3 DEF Wired
<1>8. Owed(u, m, {}, f, d)
  <2>1. \A o \in DOMAIN m : m[o].status = "inflight" => p.stream # None
    BY <1>1 DEF Named
  <2> QED
    BY <1>1, <1>2, <1>3, <2>1 DEF Owed
<1> QED
  BY <1>1, <1>2, <1>4, <1>5, <1>6, <1>7, <1>8 DEF Flow

Headless(p, o) == ~Line(p.chain[p.stream], o)

LEMMA ShiftHead ==
  ASSUME NEW p, NEW m, NEW u, NEW f, NEW g, NEW d, NEW c, Flow(p, m, {}, f, d),
         p.stream # None, c = p.chain[p.stream], c # <<>>, Shifts(p, u, p.stream),
         g \in Sent, Framed(m, g), Ordered(m, g),
         \A o : o # c[1] => (Writes(g, m, o) <=> Writes(f, m, o)),
         Writes(f, m, c[1]) => Writes(g, m, c[1]),
         \A i \in DOMAIN g : (i \in DOMAIN f /\ g[i] = f[i]) \/ g[i].o = c[1]
  PROVE  /\ Flow(u, m, {c[1]}, g, d)
         /\ c[1] \in DOMAIN m /\ m[c[1]].status = "inflight" /\ m[c[1]].gen = p.stream
         /\ c[1] # None /\ Headless(u, c[1]) /\ ~Writes(f, m, c[1]) /\ c[1] \notin d
<1>1. /\ p \in Planes /\ m \in Made /\ f \in Sent
      /\ Routed(p) /\ Named(p, m) /\ Aged(m) /\ Chained(p, m)
      /\ Truthful(m, f) /\ Owed(p, m, {}, f, d) /\ OnWire(m, f, c, p.sent[p.stream])
  BY DEF Flow, Wired
<1>2. p.stream \in Attachments
  BY <1>1, PlaneOf, Numbers DEF Routed, Attachments
<1> DEFINE n == p.sent[p.stream]
           e == Tail(c)
<1>3. /\ c \in Seq(Nat) /\ n \in Int /\ ChainOf(m, p.stream, c, n) /\ Live(m, c)
  BY <1>1, <1>2, PlaneOf DEF Chained
<1>4. /\ e \in Seq(Nat) /\ Len(c) \in Nat \ {0} /\ DOMAIN c = 1 .. Len(c)
      /\ DOMAIN e = 1 .. Len(c) - 1
      /\ \A i \in DOMAIN e : e[i] = c[i + 1] /\ i + 1 \in DOMAIN c /\ i + 1 > 1
      /\ 1 \in DOMAIN c
  BY <1>3, TailOf
<1>5. /\ u \in Planes /\ u.stream = p.stream /\ u.last = p.last /\ u.attached = p.attached
      /\ u.nextId = p.nextId
      /\ u.chain[p.stream] = e /\ u.sent[p.stream] = -1
      /\ \A b \in Attachments : b # p.stream => u.chain[b] = p.chain[b] /\ u.sent[b] = p.sent[b]
  BY <1>1, <1>2, PlaneOf DEF Shifts
<1>6. \A k \in DOMAIN c : c[k] \in DOMAIN m /\ c[k] \in Nat /\ c[k] # None
  BY <1>1, <1>3, OperationOf, Numbers DEF ChainOf
<1> HIDE DEF n, e
<1>7. \A i \in DOMAIN e : c[1] # e[i] /\ (m[c[1]].kind # "resize" /\ m[e[i]].kind # "resize" => c[1] < e[i])
  <2>1. \A j \in DOMAIN c : 1 < j =>
          c[1] # c[j] /\ (m[c[1]].kind # "resize" /\ m[c[j]].kind # "resize" => c[1] < c[j])
    BY <1>3, <1>4, Zenon DEF Live
  <2> SUFFICES ASSUME NEW i \in DOMAIN e
               PROVE  c[1] # e[i] /\ (m[c[1]].kind # "resize" /\ m[e[i]].kind # "resize" => c[1] < e[i])
    OBVIOUS
  <2>2. e[i] = c[i + 1] /\ i + 1 \in DOMAIN c /\ 1 < i + 1
    BY <1>4, Zenon
  <2> QED
    BY <2>1, <2>2
<1>8. ~Writes(f, m, c[1])
  <2>1. n \in Int /\ (n > 0 => n < Frames(m[c[1]].kind)) /\ Frames(m[c[1]].kind) \in Nat
    BY <1>3, Numbers DEF ChainOf
  <2>2. ASSUME NEW i \in DOMAIN f, f[i].o = c[1], f[i].part = Frames(m[c[1]].kind) PROVE FALSE
    <3>1. 0 < n /\ f[i].part <= n
      BY <1>1, <1>4, <2>2 DEF OnWire, n
    <3> QED
      BY <2>1, <2>2, <3>1
  <2> QED
    BY <2>2 DEF Writes
<1>9. c[1] \notin d /\ m[c[1]].status = "inflight" /\ m[c[1]].gen = p.stream
  BY <1>1, <1>3, <1>4, <1>8, Zenon DEF Owed, Live, ChainOf
<1>10. ~Line(e, c[1])
  BY <1>7 DEF Line
<1>11. Routed(u)
  <2>1. ~(p.last < p.stream)
    BY <1>1, <1>2, PlaneOf DEF Routed
  <2> QED
    BY <1>1, <1>5, <2>1 DEF Routed
<1>12. Named(u, m)
  BY <1>1, <1>5 DEF Named
<1>13. Chained(u, m)
  <2>1. ChainOf(m, p.stream, e, -1)
    <3>1. \A k \in DOMAIN c : c[k] \in DOMAIN m /\ m[c[k]].gen = p.stream
      BY <1>3 DEF ChainOf
    <3>2. \A i \in DOMAIN e : e[i] \in DOMAIN m /\ m[e[i]].gen = p.stream
      BY <1>4, <3>1, ZenonT(40)
    <3> QED
      BY <3>2 DEF ChainOf
  <2>2. Live(m, e)
    <3>1. \A i \in DOMAIN e : m[e[i]].status = "inflight"
      <4>1. \A k \in DOMAIN c : m[c[k]].status = "inflight"
        BY <1>3 DEF Live
      <4> QED
        BY <1>4, <4>1, ZenonT(40)
    <3>2. ASSUME NEW i \in DOMAIN e, NEW j \in DOMAIN e, i < j
          PROVE  e[i] # e[j] /\ (m[e[i]].kind # "resize" /\ m[e[j]].kind # "resize" => e[i] < e[j])
      <4>1. i + 1 < j + 1 /\ i + 1 \in DOMAIN c /\ j + 1 \in DOMAIN c
        BY <1>4, <3>2
      <4>2. LET k == i + 1 l == j + 1
            IN c[k] # c[l] /\ (m[c[k]].kind # "resize" /\ m[c[l]].kind # "resize" => c[k] < c[l])
        BY <1>3, <4>1 DEF Live
      <4>3. e[i] = c[i + 1] /\ e[j] = c[j + 1]
        BY <1>4, Zenon
      <4> QED
        BY <4>2, <4>3
    <3> QED
      BY <3>1, <3>2 DEF Live
  <2> QED
    BY <1>1, <1>5, <2>1, <2>2 DEF Chained
<1>14. OnWire(m, g, e, -1)
  <2>1. ASSUME NEW i \in DOMAIN g, NEW k \in DOMAIN e
        PROVE  /\ g[i].o # e[k]
               /\ m[g[i].o].kind # "resize" /\ m[e[k]].kind # "resize" => g[i].o <= e[k]
    <3>1. CASE i \in DOMAIN f /\ g[i] = f[i]
      <4>1. e[k] = c[k + 1] /\ k + 1 \in DOMAIN c /\ k + 1 # 1
        BY <1>4
      <4> QED
        BY <1>1, <3>1, <4>1 DEF OnWire
    <3>2. CASE g[i].o = c[1]
      <4>1. e[k] \in Nat /\ c[1] \in Nat
        BY <1>4, <1>6, Zenon
      <4>2. c[1] < e[k] => c[1] <= e[k]
        BY <4>1
      <4> QED
        BY <1>7, <3>2, <4>2
    <3> QED
      BY <3>1, <3>2
  <2> QED
    BY <2>1 DEF OnWire
<1>15. Wired(u, m, g)
  BY <1>5, <1>14 DEF Wired
<1>16. Truthful(m, g)
  BY <1>1, <1>9 DEF Truthful
<1>17. Owed(u, m, {c[1]}, g, d)
  <2>1. \A o \in d : o \in DOMAIN m /\ Writes(g, m, o)
    BY <1>1, <1>9 DEF Owed
  <2>2. ASSUME NEW o \in DOMAIN m, m[o].status = "inflight", o # c[1]
        PROVE  Line(e, o) \/ (Writes(g, m, o) /\ o \notin d)
    <3>1. CASE Line(c, o)
      <4>1. PICK k \in DOMAIN c : c[k] = o
        BY <3>1 DEF Line
      <4>2. k - 1 \in DOMAIN e /\ k - 1 + 1 = k
        BY <1>4, <2>2, <4>1
      <4>3. e[k - 1] = o
        BY <1>4, <4>1, <4>2, Zenon
      <4> QED
        BY <4>2, <4>3 DEF Line
    <3>2. CASE ~Line(c, o)
      BY <1>1, <2>2, <3>2 DEF Owed
    <3> QED
      BY <3>1, <3>2
  <2> QED
    BY <1>5, <2>1, <2>2 DEF Owed
<1> QED
  BY <1>1, <1>4, <1>5, <1>6, <1>8, <1>9, <1>10, <1>11, <1>12, <1>13, <1>15, <1>16, <1>17 DEF Flow, Headless

\* The operation that left the chain is on the wire with its last frame.
LEMMA FinishFlow ==
  ASSUME NEW p, NEW m, NEW o, NEW f, NEW d, Flow(p, m, {o}, f, d), Writes(f, m, o), o \notin d
  PROVE  Flow(p, m, {}, f, d)
  BY DEF Flow, Owed

-----------------------------------------------------------------------------
(* The pump.                                                               *)

\* A line of operations, oldest first, has as many as it is long.
LEMMA LineCount ==
  ASSUME NEW q \in Seq(Nat), \A i, j \in DOMAIN q : i < j => q[i] < q[j]
  PROVE  Cardinality(Range(q)) = Len(q) /\ Len(q) \in Nat
<1>1. DOMAIN q = 1 .. Len(q) /\ Len(q) \in Nat /\ \A i \in DOMAIN q : q[i] \in Nat /\ q[i] \in Range(q)
  BY NatOf DEF Range
<1>2. ASSUME NEW i \in 1 .. Len(q), NEW j \in 1 .. Len(q), q[i] = q[j] PROVE i = j
  <2>1. ~(q[i] < q[j]) /\ ~(q[j] < q[i])
    BY <1>1, <1>2
  <2>2. ~(i < j) /\ ~(j < i)
    BY <1>1, <2>1, Zenon
  <2> QED
    BY <1>1, <2>2
<1> DEFINE b == [i \in 1 .. Len(q) |-> q[i]]
<1>3. b \in [1 .. Len(q) -> Range(q)] /\ IsInjective(b)
  BY <1>1, <1>2 DEF IsInjective
<1>4. \A t \in Range(q) : \E i \in 1 .. Len(q) : b[i] = t
  BY <1>1 DEF Range
<1>5. b \in Bijection(1 .. Len(q), Range(q))
  BY <1>3, <1>4 DEF Bijection, Injection, Surjection
<1>6. ExistsBijection(1 .. Len(q), Range(q))
  BY <1>5 DEF ExistsBijection
<1> QED
  BY <1>1, <1>6, FS_CountingElements

\* A line that is appended waits as it did out of the queue.
LEMMA AppendBudget ==
  ASSUME NEW p, NEW m, NEW u, NEW w, NEW q, NEW f, NEW d,
         p.stream # None, Flow(p, m, {}, f, d), Queued(p.queue, q, m), Budget(p, m, q),
         Appends(p, m, u, w, q)
  PROVE  Budget(u, w, <<>>)
<1> DEFINE a == p.stream
           c == p.chain[a]
           n == p.sent[a]
           e == c \o q
           g == p.geometryOp
<1>1. /\ p \in Planes /\ m \in Made /\ w \in Made /\ DOMAIN w = DOMAIN m /\ q \in Seq(Nat)
      /\ Routed(p) /\ Chained(p, m)
  BY DEF Flow, Queued, Appends
<1>2. a \in Attachments
  BY <1>1, PlaneOf, Numbers DEF Routed, Attachments
<1>3. /\ c \in Seq(Nat) /\ n \in Int /\ n >= -1 /\ (n >= 0 => c # <<>>)
      /\ p.queue \in Seq(Nat) /\ p.nextId \in Nat
  BY <1>1, <1>2, PlaneOf DEF Chained, ChainOf
<1>4. /\ Len(c) \in Nat /\ Len(q) \in Nat /\ DOMAIN c = 1 .. Len(c) /\ DOMAIN q = 1 .. Len(q)
      /\ (c = <<>> <=> Len(c) = 0)
  BY <1>1, <1>3, NatOf
<1>5. /\ DOMAIN e = 1 .. Len(c) + Len(q)
      /\ \A i \in 1 .. Len(c) : e[i] = c[i]
      /\ \A i \in 1 .. Len(q) : e[Len(c) + i] = q[i]
  BY <1>1, <1>3, <1>4
<1>6. /\ u.chain[u.stream] = e /\ u.sent[u.stream] = n /\ u.geometryOp = g
      /\ SameBudget(p, u) /\ u.queue = p.queue /\ u.nextId = p.nextId + Len(q)
  BY <1>2 DEF Appends, SameBudget
<1>7. Waits(u, <<>>) <=> Waits(p, q)
  <2> DEFINE ended == \E i \in DOMAIN e : e[i] = g /\ (i > 1 \/ n = -1)
             begun == \E i \in DOMAIN c : c[i] = g /\ (i > 1 \/ n = -1)
  <2>1. Waits(u, <<>>) <=> g # None /\ ended
    BY <1>6, Lines DEF Waits
  <2>2. Waits(p, q) <=> g # None /\ (Line(q, g) \/ begun)
    BY DEF Waits
  <2> HIDE DEF c, n, e, g
  <2>3. ASSUME Line(q, g) PROVE ended
    <3>1. PICK k \in 1 .. Len(q) : q[k] = g
      BY <1>4, <2>3 DEF Line
    <3>2. Len(c) + k \in DOMAIN e /\ e[Len(c) + k] = g
      BY <1>4, <1>5, <3>1
    <3>3. Len(c) + k > 1 \/ n = -1
      BY <1>3, <1>4
    <3> QED
      BY <3>2, <3>3
  <2>4. ASSUME begun PROVE ended
    <3>1. PICK i \in 1 .. Len(c) : c[i] = g /\ (i > 1 \/ n = -1)
      BY <1>4, <2>4
    <3>2. i \in DOMAIN e /\ e[i] = g
      BY <1>4, <1>5, <3>1
    <3> QED
      BY <3>1, <3>2
  <2>5. ASSUME ended PROVE Line(q, g) \/ begun
    <3>1. PICK i \in 1 .. Len(c) + Len(q) : e[i] = g /\ (i > 1 \/ n = -1)
      BY <1>5, <2>5
    <3>2. CASE i <= Len(c)
      <4>1. i \in 1 .. Len(c) /\ c[i] = g
        BY <1>4, <1>5, <3>1, <3>2
      <4> QED
        BY <1>4, <3>1, <4>1
    <3>3. CASE ~(i <= Len(c))
      <4>1. i - Len(c) \in 1 .. Len(q) /\ Len(c) + (i - Len(c)) = i
        BY <1>4, <3>1, <3>3
      <4>2. q[i - Len(c)] = g
        BY <1>5, <3>1, <4>1
      <4> QED
        BY <1>4, <4>1, <4>2 DEF Line
    <3> QED
      BY <3>2, <3>3
  <2> HIDE DEF ended, begun
  <2> QED
    BY <2>1, <2>2, <2>3, <2>4, <2>5
<1>8. Len(w) = Len(m) /\ Len(m) \in Nat
  BY <1>1, SameLength
<1>9. /\ Len(p.queue) <= MaxQueued /\ p.nextId >= 1
      /\ p.nextId + Len(p.queue) + Len(q) <= Len(m) + 1 /\ \A o \in DOMAIN m : m[o].id <= Len(m)
      /\ Len(p.queue) \in Nat
  BY <1>3, NatOf DEF Budget, Bounded, Issued
<1>10. ASSUME NEW o \in DOMAIN m PROVE w[o].id <= Len(m)
  <2>1. CASE ~Line(q, o)
    <3>1. w[o] = m[o]
      BY <2>1 DEF Appends
    <3> QED
      BY <1>9, <3>1
  <2>2. CASE Line(q, o)
    <3>1. PICK i \in DOMAIN q : w[o].id = p.nextId + i - 1
      BY <2>2 DEF Appends
    <3>2. i \in Nat /\ i <= Len(q)
      BY <1>4
    <3> HIDE DEF c
    <3> QED
      BY <1>3, <1>4, <1>8, <1>9, <3>1, <3>2
  <2> QED
    BY <2>1, <2>2
<1>11. Issued(u, w, <<>>)
  <2>1. Len(<<>>) = 0
    OBVIOUS
  <2>2. u.nextId >= 1 /\ u.nextId + Len(u.queue) + Len(<<>>) <= Len(w) + 1
    BY <1>3, <1>4, <1>6, <1>8, <1>9, <2>1
  <2> QED
    BY <1>1, <1>8, <1>10, <2>2 DEF Issued
<1>12. Len(u.queue) <= MaxQueued
  BY <1>6, <1>9
<1> QED
  BY <1>1, <1>6, <1>7, <1>8, <1>11, <1>12, BudgetKept

\* Appending moves the bytes of the line to the window.
LEMMA AppendGood ==
  ASSUME NEW p, NEW m, NEW u, NEW w, NEW q, NEW f, NEW d,
         p.stream # None, Good(p, m, q, {}, f, d), Appends(p, m, u, w, q)
  PROVE  /\ Good(u, w, <<>>, {}, f, d)
         /\ Cardinality(InflightOf(w)) = Cardinality(InflightOf(m)) + Len(q)
         /\ Cardinality(InflightOf(m)) \in Nat /\ Len(q) \in Nat
<1>1. /\ Flow(p, m, {}, f, d) /\ Queued(p.queue, q, m) /\ Counted(p, m, q) /\ Consents(p, m)
  BY DEF Good
<1>2. Flow(u, w, {}, f, d) /\ Queued(u.queue, <<>>, w)
  BY <1>1, AppendFlow
<1>3. /\ p \in Planes /\ m \in Made /\ w \in Made /\ q \in Seq(Nat) /\ p.queue \in Seq(Nat)
      /\ DOMAIN w = DOMAIN m /\ \A o \in DOMAIN m : w[o].kind = m[o].kind
  BY <1>1, PlaneOf DEF Flow, Queued, Appends
<1>4. /\ Range(q) \subseteq DOMAIN m /\ Range(p.queue) \subseteq DOMAIN m
      /\ \A o \in Range(q) : m[o].status = "queued" /\ Line(q, o)
  BY <1>1 DEF Queued, Range, Line
<1>5. InflightOf(w) = InflightOf(m) \cup Range(q)
  <2>1. \A o \in DOMAIN m : /\ Line(q, o) => w[o].status = "inflight"
                            /\ ~Line(q, o) => w[o] = m[o]
    BY DEF Appends
  <2> QED
    BY <1>3, <1>4, <2>1, Lines DEF InflightOf
<1>6. InflightOf(m) \cap Range(q) = {} /\ InflightOf(m) \subseteq DOMAIN m
  BY <1>4 DEF InflightOf
<1>7. /\ BytesOf(m, InflightOf(w)) = BytesOf(m, InflightOf(m)) + BytesOf(m, Range(q))
      /\ Cardinality(InflightOf(w)) = Cardinality(InflightOf(m)) + Cardinality(Range(q))
  <2>1. InflightOf(m) \in SUBSET DOMAIN m /\ Range(q) \in SUBSET DOMAIN m
    BY <1>4, <1>6
  <2>2. m \in Made
    BY <1>3
  <2>3. ASSUME NEW A \in SUBSET DOMAIN m, NEW B \in SUBSET DOMAIN m, A \cap B = {}
        PROVE  /\ BytesOf(m, A \cup B) = BytesOf(m, A) + BytesOf(m, B)
               /\ Cardinality(A \cup B) = Cardinality(A) + Cardinality(B)
    BY <2>2, <2>3, BytesAdd
  <2> QED
    BY ONLY <1>5, <1>6, <2>1, <2>3
<1>8. /\ BytesOf(w, InflightOf(w)) = BytesOf(m, InflightOf(w))
      /\ BytesOf(w, Range(p.queue)) = BytesOf(m, Range(p.queue))
  BY <1>3, <1>4, <1>5, <1>6, BytesKept
<1>9. Cardinality(Range(q)) = Len(q) /\ Len(q) \in Nat
  BY <1>1, <1>3, LineCount DEF Queued
<1>10. /\ BytesOf(m, Range(q)) \in Nat /\ BytesOf(m, InflightOf(m)) \in Nat
       /\ Cardinality(InflightOf(m)) \in Nat
  BY <1>3, <1>4, <1>6, Finite
<1>11. /\ u.queue = p.queue /\ u.queuedBytes = p.queuedBytes
       /\ u.inflightBytes = p.inflightBytes + BytesOf(m, Range(q))
       /\ u.geometryOp = p.geometryOp /\ u.consent = p.consent /\ u.consentBytes = p.consentBytes
       /\ u.stream = p.stream /\ u.attempt = p.attempt
  BY DEF Appends
<1>12. /\ p.queuedBytes \in Int /\ p.inflightBytes \in Int /\ p.consentBytes \in Int
  BY <1>3, PlaneOf
<1>13. BytesOf(w, Range(<<>>)) = 0 /\ Len(<<>>) = 0
  BY BytesNone, NoRange, Zenon
<1>14. Counted(u, w, <<>>)
  <2>1. u.queuedBytes = BytesOf(w, Range(u.queue))
    BY <1>1, <1>8, <1>11 DEF Counted
  <2>2. u.inflightBytes = BytesOf(w, InflightOf(w))
    BY <1>1, <1>7, <1>8, <1>11 DEF Counted
  <2>3. u.consentBytes = IF u.consent = None THEN 0 ELSE 2
    BY <1>1, <1>11 DEF Counted
  <2>4. Retained(u) + BytesOf(w, Range(<<>>)) = Retained(p) + BytesOf(m, Range(q))
    BY <1>10, <1>11, <1>12, <1>13 DEF Retained
  <2>5. Retained(u) + BytesOf(w, Range(<<>>)) <= MaxBytes + (IF u.geometryOp = None THEN 0 ELSE 1)
    BY <1>1, <1>11, <2>4 DEF Counted
  <2>6. Cardinality(InflightOf(w)) + Len(<<>>) <= Window
    BY <1>1, <1>7, <1>9, <1>10, <1>13 DEF Counted
  <2>7. u.geometryOp # None =>
          u.geometryOp \in InflightOf(w) \cup Range(<<>>) /\ w[u.geometryOp].kind = "resize"
    BY <1>1, <1>3, <1>4, <1>5, <1>6, <1>11 DEF Counted
  <2> QED
    BY <2>1, <2>2, <2>3, <2>5, <2>6, <2>7 DEF Counted
<1>15. Consents(u, w)
  <2>1. \A o \in DOMAIN m : m[o].status = "settled" => w[o] = m[o]
    <3>1. \A o \in DOMAIN m : m[o].status = "settled" => ~Line(q, o)
      BY <1>4, Lines
    <3> QED
      BY <3>1 DEF Appends
  <2> QED
    BY <1>1, <1>3, <1>11, <2>1 DEF Consents
<1>16. Budget(u, w, <<>>)
  BY <1>1, AppendBudget DEF Good
<1> QED
  BY <1>2, <1>7, <1>9, <1>10, <1>14, <1>15, <1>16 DEF Good

\* maybeSendGeometry makes one operation more, which is the line.
LEMMA GeometryGood ==
  ASSUME NEW p, NEW m, NEW u, NEW w, NEW f, NEW d,
         Good(p, m, <<>>, {}, f, d), p.geometryOp = None, Cardinality(InflightOf(m)) < Window,
         p.stream # None, p.hydrated, p.desired \notin {None, p.sentGeometry},
         u = [p EXCEPT !.geometryOp = Len(m) + 1], w = Append(m, NewOp("resize", None))
  PROVE  Good(u, w, <<Len(m) + 1>>, {}, f, d)
<1> DEFINE r == NewOp("resize", None)
           z == Len(m) + 1
           q == <<z>>
<1>1. /\ Flow(p, m, {}, f, d) /\ Queued(p.queue, <<>>, m) /\ Counted(p, m, <<>>) /\ Consents(p, m)
  BY DEF Good
<1>2. p \in Planes /\ m \in Made /\ p.queue \in Seq(Nat)
  BY <1>1, PlaneOf DEF Flow
<1>3. /\ r \in Operations /\ r.gen = None /\ r.status = "queued" /\ r.outcome = "none"
      /\ r.kind = "resize" /\ r.id = None
  BY Numbers DEF NewOp, Operations, Kinds, Statuses, OutcomeNames
<1>4. /\ w \in Made /\ DOMAIN w = DOMAIN m \cup {Len(m) + 1} /\ Len(m) + 1 \notin DOMAIN m
  <2>1. w = Append(m, r)
    OBVIOUS
  <2> HIDE DEF r
  <2>2. r \in Operations
    BY <1>3
  <2>3. w \in Made
    BY ONLY <1>2, <2>1, <2>2, NewMade
  <2>4. DOMAIN w = DOMAIN m \cup {Len(m) + 1}
    BY ONLY <1>2, <2>1, <2>2, NewMade
  <2>5. Len(m) + 1 \notin DOMAIN m
    BY ONLY <1>2, <2>1, <2>2, NewMade
  <2> QED
    BY <2>3, <2>4, <2>5
<1>5. \A o \in DOMAIN m : w[o] = m[o] /\ o < Len(m) + 1
  BY <1>2, <1>3, NewMade
<1>6. w[Len(m) + 1] = r /\ Len(m) \in Nat
  BY <1>2, <1>3, NewMade
<1>7. /\ u \in Planes /\ u.geometryOp = z /\ z \in Nat \ {0}
      /\ u.stream = p.stream /\ u.last = p.last /\ u.attached = p.attached /\ u.nextId = p.nextId
      /\ u.chain = p.chain /\ u.sent = p.sent /\ u.queue = p.queue
      /\ u.queuedBytes = p.queuedBytes /\ u.inflightBytes = p.inflightBytes
      /\ u.consent = p.consent /\ u.consentBytes = p.consentBytes /\ u.attempt = p.attempt
      /\ SameBudget(p, u)
  <2>1. z \in Nat /\ z # 0 /\ u = [p EXCEPT !.geometryOp = z]
    BY <1>6
  <2> HIDE DEF z, q, r
  <2>2. u \in Planes
    BY <1>2, <2>1, ZenonT(40) DEF Planes
  <2> QED
    BY <1>2, <2>1, <2>2, Zenon DEF Planes, SameBudget
<1>8. q \in Seq(Nat) /\ Len(q) = 1 /\ DOMAIN q = {1} /\ q[1] = z /\ Range(q) = {z}
  BY <1>7 DEF Range
<1>9. DOMAIN w = DOMAIN m \cup {z} /\ z \notin DOMAIN m /\ w[z] = r
      /\ \A o \in DOMAIN m : w[o] = m[o] /\ o < z
  BY <1>4, <1>5, <1>6
<1>10. Flow(p, w, {}, f, d)
  BY <1>1, <1>3, AddFlow, Zenon
<1> HIDE DEF r, z, q
<1>11. Flow(u, w, {}, f, d)
  <2>1. SameRoute(p, u)
    BY <1>1, <1>7 DEF SameRoute, Flow, Routed
  <2> QED
    BY <1>10, <2>1, FlowKept
<1>12. Queued(u.queue, q, w)
  <2>1. \A i \in DOMAIN p.queue :
          /\ p.queue[i] \in DOMAIN m /\ m[p.queue[i]].status = "queued" /\ m[p.queue[i]].kind # "resize"
    BY <1>1 DEF Queued
  <2>2. \A o \in DOMAIN m : m[o].status = "queued" => Line(p.queue, o)
    BY <1>1, Lines DEF Queued
  <2>3. \A i, j \in DOMAIN p.queue : i < j => p.queue[i] < p.queue[j]
    BY <1>1 DEF Queued
  <2>4. Line(q, z)
    BY <1>8 DEF Line
  <2> QED
    BY <1>2, <1>3, <1>7, <1>8, <1>9, <2>1, <2>2, <2>3, <2>4 DEF Queued
<1>13. Counted(u, w, q)
  <2>1. InflightOf(w) = InflightOf(m) /\ InflightOf(m) \subseteq DOMAIN m
    BY <1>3, <1>9 DEF InflightOf
  <2>2. Range(p.queue) \subseteq DOMAIN m
    BY <1>1 DEF Queued, Range
  <2>3. /\ BytesOf(w, Range(p.queue)) = BytesOf(m, Range(p.queue))
        /\ BytesOf(w, InflightOf(m)) = BytesOf(m, InflightOf(m))
    <3>1. \A o \in Range(p.queue) : w[o].kind = m[o].kind
      BY <1>9, <2>2
    <3>2. \A o \in InflightOf(m) : w[o].kind = m[o].kind
      BY <1>9, <2>1
    <3> QED
      BY <3>1, <3>2, BytesKept, ZenonT(40)
  <2>4. BytesOf(w, Range(q)) = 1
    <3>1. w \in Made /\ z \in DOMAIN w /\ w[z].kind = "resize"
      BY <1>3, <1>4, <1>9
    <3>2. BytesOf(w, {z}) = Bytes(w[z].kind)
      BY <3>1, BytesSingle
    <3> QED
      BY <1>8, <3>1, <3>2 DEF Bytes
  <2>5. /\ p.queuedBytes = BytesOf(m, Range(p.queue)) /\ p.inflightBytes = BytesOf(m, InflightOf(m))
        /\ p.consentBytes = IF p.consent = None THEN 0 ELSE 2
        /\ Retained(p) + BytesOf(m, Range(<<>>)) <= MaxBytes
    BY <1>1, Numbers DEF Counted
  <2>6. Retained(p) \in Int /\ Retained(u) = Retained(p) /\ BytesOf(m, Range(<<>>)) = 0
    <3>1. p.queuedBytes \in Int /\ p.inflightBytes \in Int /\ p.consentBytes \in Int
      BY <1>2, PlaneOf
    <3>2. BytesOf(m, Range(<<>>)) = 0
      BY BytesNone, NoRange, Zenon
    <3> QED
      BY <1>7, <3>1, <3>2 DEF Retained
  <2>7. Retained(u) + BytesOf(w, Range(q)) <= MaxBytes + (IF u.geometryOp = None THEN 0 ELSE 1)
    BY <1>7, <2>4, <2>5, <2>6, Numbers
  <2>8. Cardinality(InflightOf(w)) + Len(q) <= Window
    <3>1. Cardinality(InflightOf(m)) \in Nat
      BY <1>2, <2>1, Finite
    <3> QED
      BY <1>8, <2>1, <3>1, Numbers
  <2>9. u.geometryOp \in InflightOf(w) \cup Range(q) /\ w[u.geometryOp].kind = "resize"
    BY <1>3, <1>7, <1>8, <1>9
  <2> QED
    BY <1>7, <2>1, <2>3, <2>5, <2>7, <2>8, <2>9 DEF Counted
<1>14. Consents(u, w)
  BY <1>1, <1>7, <1>9 DEF Consents
<1>15. Budget(u, w, q)
  <2>1. Bounded(p) /\ Issued(p, m, <<>>) /\ Paid(p, m, <<>>)
    BY DEF Good, Budget
  <2>2. Bounded(u)
    BY <1>7, <2>1 DEF Bounded, SameBudget
  <2>3. Len(w) = Len(m) + 1 /\ Len(m) \in Nat
    BY <1>2 DEF Made
  <2>4. p.nextId \in Nat /\ Len(p.queue) \in Nat
    BY <1>2, PlaneOf, NatOf
  <2>5. Issued(u, w, q)
    <3>1. Len(<<>>) = 0
      OBVIOUS
    <3>2. \A o \in DOMAIN w : w[o].id <= Len(w)
      <4>1. \A o \in DOMAIN m : m[o].id <= Len(m) /\ m[o].id \in Nat
        BY <1>2, <2>1, OperationOf DEF Issued
      <4>2. None <= Len(m) + 1
        BY <2>3, Numbers
      <4> QED
        BY <1>3, <1>9, <2>3, <4>1, <4>2
    <3> QED
      BY <1>7, <1>8, <2>1, <2>3, <2>4, <3>1, <3>2 DEF Issued
  <2>6. Due(p, <<>>)
    BY DEF Due, Waits
  <2>7. ~Due(u, q)
    <3>1. Line(q, z)
      BY <1>8 DEF Line
    <3>2. Waits(u, q)
      BY <1>7, <3>1, Numbers DEF Waits
    <3> QED
      BY <1>7, <3>2 DEF Due, SameBudget
  <2>8. Asked(u) = Asked(p) /\ Asked(p) \in Nat
    <3>1. Asked(u) = Asked(p)
      BY <1>7 DEF Asked, SameBudget
    <3> QED
      BY <1>2, <3>1, AskedNat
  <2>9. Paid(u, w, q)
    BY <2>1, <2>3, <2>6, <2>7, <2>8 DEF Paid
  <2> QED
    BY <2>2, <2>5, <2>9 DEF Budget
<1> QED
  BY <1>11, <1>12, <1>13, <1>14, <1>15 DEF Good, q, z

\* The pump takes the line from the head of the queue.
Takes(p, m, u, q, n) ==
  /\ u \in Planes /\ q \in Seq(Nat) /\ Len(q) = n /\ Len(u.queue) = Len(p.queue) - n
  /\ \A i \in 1 .. n : q[i] = p.queue[i]
  /\ \A i \in 1 .. Len(p.queue) - n : u.queue[i] = p.queue[i + n]
  /\ u.queuedBytes = p.queuedBytes - BytesOf(m, Range(q))
  /\ u.stream = p.stream /\ u.last = p.last /\ u.attached = p.attached /\ u.nextId = p.nextId
  /\ u.chain = p.chain /\ u.sent = p.sent /\ u.inflightBytes = p.inflightBytes
  /\ u.consent = p.consent /\ u.consentBytes = p.consentBytes /\ u.attempt = p.attempt
  /\ u.geometryOp = p.geometryOp /\ SameBudget(p, u)

LEMMA TakeGood ==
  ASSUME NEW p, NEW m, NEW u, NEW q, NEW n \in Nat, NEW f, NEW d,
         Good(p, m, <<>>, {}, f, d), n <= Len(p.queue), n <= Window - Cardinality(InflightOf(m)),
         Takes(p, m, u, q, n)
  PROVE  Good(u, m, q, {}, f, d)
<1>1. /\ Flow(p, m, {}, f, d) /\ Queued(p.queue, <<>>, m) /\ Counted(p, m, <<>>) /\ Consents(p, m)
  BY DEF Good
<1> DEFINE c == p.queue
           e == u.queue
<1>2. /\ p \in Planes /\ m \in Made /\ c \in Seq(Nat) /\ u \in Planes /\ e \in Seq(Nat)
      /\ q \in Seq(Nat)
  BY <1>1, PlaneOf DEF Flow, Takes
<1>3. /\ Len(c) \in Nat /\ DOMAIN c = 1 .. Len(c) /\ DOMAIN q = 1 .. n
      /\ DOMAIN e = 1 .. Len(c) - n
      /\ \A i \in DOMAIN q : i \in DOMAIN c /\ q[i] = c[i] /\ i <= n
      /\ \A i \in DOMAIN e : i + n \in DOMAIN c /\ e[i] = c[i + n] /\ i + n > n
  <2>1. /\ Len(c) \in Nat /\ DOMAIN c = 1 .. Len(c) /\ DOMAIN q = 1 .. Len(q) /\ DOMAIN e = 1 .. Len(e)
    BY <1>2, NatOf
  <2>2. Len(q) = n /\ Len(e) = Len(c) - n
    BY DEF Takes
  <2>3. \A i \in 1 .. n : q[i] = c[i]
    BY DEF Takes
  <2>4. \A i \in 1 .. Len(c) - n : e[i] = c[i + n]
    BY DEF Takes
  <2> HIDE DEF c, e
  <2>5. n <= Len(c)
    BY DEF c
  <2> QED
    BY <2>1, <2>2, <2>3, <2>4, <2>5
<1>4. /\ \A i \in DOMAIN c : c[i] \in DOMAIN m /\ m[c[i]].status = "queued" /\ m[c[i]].kind # "resize"
      /\ \A o \in DOMAIN m : m[o].status = "queued" => Line(c, o)
      /\ \A i, j \in DOMAIN c : i < j => c[i] < c[j]
      /\ \A i \in DOMAIN c : c[i] \in Nat
  BY <1>1, <1>2, Lines, NatOf DEF Queued
<1> HIDE DEF c, e
<1>5. ASSUME NEW o, Line(c, o) PROVE Line(e, o) \/ Line(q, o)
  <2>1. PICK k \in DOMAIN c : c[k] = o
    BY <1>5 DEF Line
  <2>2. CASE k <= n
    <3>1. k \in DOMAIN q /\ q[k] = o
      BY <1>3, <2>1, <2>2
    <3> QED
      BY <3>1 DEF Line
  <2>3. CASE ~(k <= n)
    <3>1. k - n \in DOMAIN e /\ k - n + n = k
      BY <1>3, <2>3
    <3>2. e[k - n] = o
      BY <1>3, <2>1, <3>1
    <3> QED
      BY <3>1, <3>2 DEF Line
  <2> QED
    BY <2>2, <2>3
<1>6. Queued(e, q, m)
  <2>1. \A i \in DOMAIN e : e[i] \in DOMAIN m /\ m[e[i]].status = "queued" /\ m[e[i]].kind # "resize"
    BY <1>3, <1>4
  <2>2. \A i \in DOMAIN q : q[i] \in DOMAIN m /\ m[q[i]].status = "queued"
    BY <1>3, <1>4
  <2>3. \A o \in DOMAIN m : m[o].status = "queued" => Line(e, o) \/ Line(q, o)
    BY <1>4, <1>5
  <2>4. ASSUME NEW i \in DOMAIN e, NEW j \in DOMAIN e, i < j PROVE e[i] < e[j]
    <3>1. i + n < j + n /\ i + n \in DOMAIN c /\ j + n \in DOMAIN c
      BY <1>3, <2>4
    <3>2. c[i + n] < c[j + n]
      BY <1>4, <3>1
    <3> QED
      BY <1>3, <3>2
  <2>5. \A i, j \in DOMAIN q : i < j => q[i] < q[j]
    BY <1>3, <1>4
  <2>6. ASSUME NEW i \in DOMAIN q, NEW j \in DOMAIN e PROVE q[i] # e[j] /\ q[i] < e[j]
    <3>1. i \in DOMAIN c /\ j + n \in DOMAIN c /\ i < j + n /\ q[i] = c[i] /\ e[j] = c[j + n]
      BY <1>3
    <3>2. c[i] < c[j + n] /\ c[i] \in Nat /\ c[j + n] \in Nat
      BY <1>4, <3>1
    <3> QED
      BY <3>1, <3>2
  <2> QED
    BY <1>2, <2>1, <2>2, <2>3, <2>4, <2>5, <2>6 DEF Queued
<1>7. Range(c) = Range(e) \cup Range(q) /\ Range(e) \cap Range(q) = {} /\ Range(c) \subseteq DOMAIN m
  <2>1. \A o : Line(c, o) <=> Line(e, o) \/ Line(q, o)
    BY <1>3, <1>5, ZenonT(40) DEF Line
  <2>2. \A o : ~(Line(e, o) /\ Line(q, o))
    BY <1>6 DEF Line, Queued
  <2>3. \A o : Line(c, o) => o \in DOMAIN m
    BY <1>4 DEF Line
  <2> QED
    BY <2>1, <2>2, <2>3, Lines
<1>8. /\ BytesOf(m, Range(c)) = BytesOf(m, Range(e)) + BytesOf(m, Range(q))
      /\ BytesOf(m, Range(e)) \in Nat /\ BytesOf(m, Range(q)) \in Nat
  <2>1. Range(e) \in SUBSET DOMAIN m /\ Range(q) \in SUBSET DOMAIN m
    BY <1>7
  <2> QED
    BY <1>2, <1>7, <2>1, BytesAdd, Finite, ZenonT(40)
<1>9. /\ u.queuedBytes = p.queuedBytes - BytesOf(m, Range(q)) /\ u.inflightBytes = p.inflightBytes
      /\ u.consent = p.consent /\ u.consentBytes = p.consentBytes /\ u.attempt = p.attempt
      /\ u.geometryOp = p.geometryOp /\ u.stream = p.stream /\ Len(q) = n
  BY DEF Takes
<1>10. Counted(u, m, q)
  <2>1. /\ p.queuedBytes = BytesOf(m, Range(c)) /\ p.inflightBytes = BytesOf(m, InflightOf(m))
        /\ p.consentBytes = IF p.consent = None THEN 0 ELSE 2
        /\ Retained(p) + BytesOf(m, Range(<<>>)) <= MaxBytes + (IF p.geometryOp = None THEN 0 ELSE 1)
        /\ p.geometryOp # None =>
             p.geometryOp \in InflightOf(m) \cup Range(<<>>) /\ m[p.geometryOp].kind = "resize"
    BY <1>1 DEF Counted, c
  <2>2. u.queuedBytes = BytesOf(m, Range(e))
    BY <1>8, <1>9, <2>1
  <2>3. Retained(u) + BytesOf(m, Range(q)) = Retained(p) + BytesOf(m, Range(<<>>))
    <3>1. BytesOf(m, Range(<<>>)) = 0
      BY BytesNone, NoRange, Zenon
    <3>2. p.queuedBytes \in Int /\ p.inflightBytes \in Int /\ p.consentBytes \in Int
      BY <1>2, PlaneOf
    <3> QED
      BY <1>8, <1>9, <3>1, <3>2 DEF Retained
  <2>4. Cardinality(InflightOf(m)) + Len(q) <= Window
    <3>1. Cardinality(InflightOf(m)) \in Nat
      BY <1>2, Finite DEF InflightOf
    <3> QED
      BY <1>9, <3>1, Numbers
  <2> QED
    BY <1>9, <2>1, <2>2, <2>3, <2>4, NoRange DEF Counted, e
<1>11. Consents(u, m)
  BY <1>1, <1>9 DEF Consents
<1>12. Flow(u, m, {}, f, d)
  <2>1. SameRoute(p, u)
    BY <1>1 DEF SameRoute, Takes, Flow, Routed
  <2> QED
    BY <1>1, <2>1, FlowKept
<1>13. Budget(u, m, q)
  <2>1. ~Line(q, p.geometryOp) \/ p.geometryOp = None
    <3>1. p.geometryOp # None => p.geometryOp \in InflightOf(m)
      BY <1>1, NoRange DEF Counted
    <3> QED
      BY <1>3, <1>4, <3>1 DEF InflightOf, Line
  <2>2. Waits(u, q) <=> Waits(p, <<>>)
    <3>1. u.geometryOp = p.geometryOp /\ u.chain = p.chain /\ u.sent = p.sent /\ u.stream = p.stream
      BY DEF Takes
    <3> QED
      BY <2>1, <3>1, Lines DEF Waits
  <2>3. Budget(p, m, <<>>) /\ SameBudget(p, u) /\ u.nextId = p.nextId
    BY DEF Good, Takes
  <2>4. Len(q) = n /\ Len(e) = Len(c) - n /\ Len(<<>>) = 0 /\ n <= Len(c)
    BY DEF Takes, e, c
  <2>5. Issued(u, m, q)
    <3>1. Issued(p, m, <<>>)
      BY <2>3 DEF Budget
    <3>2. p.nextId \in Nat
      BY <1>2, PlaneOf
    <3>3. p.nextId + Len(c) + 0 <= Len(m) + 1
      BY <2>4, <3>1 DEF Issued, c
    <3>4. u.nextId + Len(e) + Len(q) <= Len(m) + 1
      BY <1>3, <2>3, <2>4, <3>2, <3>3
    <3> QED
      BY <2>3, <3>1, <3>4 DEF Issued, e
  <2>6. Len(u.queue) <= MaxQueued
    <3>1. Len(c) <= MaxQueued
      BY <2>3 DEF Budget, Bounded, c
    <3>2. Len(q) \in Nat /\ Len(c) \in Nat /\ MaxQueued \in Nat
      BY <1>2, <1>3, NatOf, Numbers
    <3>3. Len(e) <= MaxQueued
      BY ONLY <2>4, <3>1, <3>2
    <3> QED
      BY <3>3 DEF e
  <2> QED
    BY <1>2, <2>2, <2>3, <2>5, <2>6, BudgetKept
<1> QED
  BY <1>6, <1>10, <1>11, <1>12, <1>13 DEF Good, e

LEMMA SubSeqOf ==
  ASSUME NEW c \in Seq(Nat), NEW n \in Nat, n <= Len(c)
  PROVE  /\ SubSeq(c, 1, n) \in Seq(Nat) /\ Len(SubSeq(c, 1, n)) = n
         /\ \A i \in 1 .. n : SubSeq(c, 1, n)[i] = c[i]
         /\ SubSeq(c, n + 1, Len(c)) \in Seq(Nat) /\ Len(SubSeq(c, n + 1, Len(c))) = Len(c) - n
         /\ \A i \in 1 .. Len(c) - n : SubSeq(c, n + 1, Len(c))[i] = c[i + n]
<1>1. /\ Len(c) \in Nat /\ \A i \in 1 .. Len(c) : c[i] \in Nat
  BY NatOf
<1>2. /\ \A i \in 1 .. n : c[i] \in Nat
      /\ \A i \in n + 1 .. Len(c) : c[i] \in Nat
  BY <1>1
<1>3. SubSeq(c, 1, n) \in Seq(Nat) /\ Len(SubSeq(c, 1, n)) = n
  BY <1>1, <1>2
<1>4. \A i \in 1 .. n : SubSeq(c, 1, n)[i] = c[i]
  BY <1>1
<1>5. SubSeq(c, n + 1, Len(c)) \in Seq(Nat) /\ Len(SubSeq(c, n + 1, Len(c))) = Len(c) - n
  BY <1>1, <1>2
<1>6. \A i \in 1 .. Len(c) - n : SubSeq(c, n + 1, Len(c))[i] = c[i + n]
  BY <1>1
<1> QED
  BY <1>3, <1>4, <1>5, <1>6

\* What a method that appends leaves alone.
Rests(p, u) ==
  /\ u.stream = p.stream /\ u.attached = p.attached /\ u.detached = p.detached
  /\ u.hydrated = p.hydrated /\ u.desired = p.desired /\ u.sentGeometry = p.sentGeometry

LEMMA AppendDone ==
  ASSUME NEW p, NEW m, NEW t, NEW q, NEW f, NEW d,
         p.stream # None, Good(p, m, q, {}, f, d), t = AppendOperations([p |-> p, ops |-> m], q)
  PROVE  /\ Good(t.p, t.ops, <<>>, {}, f, d) /\ t = [p |-> t.p, ops |-> t.ops]
         /\ Cardinality(InflightOf(t.ops)) = Cardinality(InflightOf(m)) + Len(q)
         /\ Cardinality(InflightOf(m)) \in Nat /\ Len(q) \in Nat
         /\ Rests(p, t.p) /\ t.p.queue = p.queue /\ t.p.geometryOp = p.geometryOp
<1> DEFINE s == [p |-> p, ops |-> m]
<1>1. /\ p \in Planes /\ m \in Made /\ q \in Seq(Nat) /\ Range(q) \subseteq DOMAIN m
      /\ p.stream \in Attachments
  <2>1. p \in Planes /\ m \in Made /\ Routed(p) /\ Queued(p.queue, q, m)
    BY DEF Good, Flow
  <2>2. p.stream \in Attachments
    BY <2>1, PlaneOf, Numbers DEF Routed, Attachments
  <2> QED
    BY <2>1, <2>2 DEF Queued, Range
<1>2. s.p = p /\ s.ops = m /\ s \in States
  BY <1>1 DEF States
<1>3. t = AppendOperations(s, q)
  OBVIOUS
<1> HIDE DEF s
<1>4. Appends(s.p, s.ops, AppendOperations(s, q).p, AppendOperations(s, q).ops, q)
  BY <1>1, <1>2, AppendFields
<1>5. Appends(p, m, t.p, t.ops, q)
  BY <1>2, <1>3, <1>4
<1>6. t = [p |-> t.p, ops |-> t.ops]
  BY <1>3, Zenon DEF AppendOperations, Appended
<1>7. Rests(p, t.p) /\ t.p.queue = p.queue /\ t.p.geometryOp = p.geometryOp
  BY <1>5 DEF Appends, Rests
<1> QED
  BY <1>5, <1>6, <1>7, AppendGood

LEMMA QueueGood ==
  ASSUME NEW p, NEW m, NEW t, NEW f, NEW d,
         p.stream # None, Good(p, m, <<>>, {}, f, d), t = PumpQueue([p |-> p, ops |-> m])
  PROVE  /\ Good(t.p, t.ops, <<>>, {}, f, d)
         /\ Cardinality(InflightOf(t.ops)) < Window =>
              t.p.queue = <<>> /\ Cardinality(InflightOf(m)) < Window
         /\ Rests(p, t.p) /\ t.p.geometryOp = p.geometryOp
<1> DEFINE c == p.queue
           room == Window - Cardinality(InflightOf(m))
           n == IF Len(c) < room THEN Len(c) ELSE room
           q == SubSeq(c, 1, n)
           e == SubSeq(c, n + 1, Len(c))
           b == p.queuedBytes - BytesOf(m, Range(q))
           u == [p EXCEPT !.queue = e, !.queuedBytes = b]
<1>1. t = AppendOperations([p |-> u, ops |-> m], q)
  BY DEF PumpQueue, Inflight, InflightOf
<1>2. p \in Planes /\ m \in Made /\ c \in Seq(Nat) /\ p.queuedBytes \in Int
  BY PlaneOf DEF Good, Flow
<1>3. Cardinality(InflightOf(m)) \in Nat /\ Cardinality(InflightOf(m)) <= Window
  <2>1. Cardinality(InflightOf(m)) \in Nat
    BY <1>2, Finite DEF InflightOf
  <2>2. Cardinality(InflightOf(m)) + Len(<<>>) <= Window /\ Len(<<>>) = 0
    BY DEF Good, Counted
  <2> QED
    BY <2>1, <2>2
<1>4. Len(c) \in Nat /\ room \in Nat
  BY <1>2, <1>3, NatOf, Numbers
<1> HIDE DEF c, room
<1>5. n \in Nat /\ n <= Len(c) /\ n <= room /\ (n = Len(c) \/ n = room)
  BY <1>4
<1> HIDE DEF n
<1>6. /\ q \in Seq(Nat) /\ Len(q) = n /\ \A i \in 1 .. n : q[i] = c[i]
      /\ e \in Seq(Nat) /\ Len(e) = Len(c) - n /\ \A i \in 1 .. Len(c) - n : e[i] = c[i + n]
  BY <1>2, <1>5, SubSeqOf, Zenon
<1> HIDE DEF q, e
<1>7. BytesOf(m, Range(q)) \in Int
  <2>1. Range(q) \subseteq Range(c)
    <3>1. DOMAIN q = 1 .. n /\ 1 .. n \subseteq DOMAIN c
      BY <1>2, <1>4, <1>5, <1>6, NatOf
    <3> QED
      BY <1>6, <3>1 DEF Range
  <2>2. Range(c) \subseteq DOMAIN m
    BY DEF Good, Queued, Range, c
  <2> QED
    BY <1>2, <2>1, <2>2, Finite
<1>8. b \in Int
  BY <1>2, <1>7
<1> HIDE DEF b
<1>9. u \in Planes
  BY <1>2, <1>6, <1>8, Zenon DEF Planes
<1>10. /\ u.queue = e /\ u.queuedBytes = b
       /\ u.stream = p.stream /\ u.last = p.last /\ u.attached = p.attached /\ u.nextId = p.nextId
       /\ u.chain = p.chain /\ u.sent = p.sent /\ u.inflightBytes = p.inflightBytes
       /\ u.consent = p.consent /\ u.consentBytes = p.consentBytes /\ u.attempt = p.attempt
       /\ u.geometryOp = p.geometryOp /\ u.detached = p.detached /\ u.hydrated = p.hydrated
       /\ u.desired = p.desired /\ u.sentGeometry = p.sentGeometry
       /\ u.typed = p.typed /\ u.resizes = p.resizes /\ u.resyncs = p.resyncs
  BY <1>2 DEF Planes
<1> HIDE DEF u
<1>11. Takes(p, m, u, q, n)
  BY <1>6, <1>9, <1>10 DEF Takes, SameBudget, b, c
<1>12. Good(u, m, q, {}, f, d)
  BY <1>5, <1>11, TakeGood DEF c, room
<1>13. /\ Good(t.p, t.ops, <<>>, {}, f, d)
       /\ Cardinality(InflightOf(t.ops)) = Cardinality(InflightOf(m)) + Len(q)
       /\ Rests(u, t.p) /\ t.p.queue = u.queue /\ t.p.geometryOp = u.geometryOp
  BY <1>1, <1>10, <1>12, AppendDone
<1>14. ASSUME Cardinality(InflightOf(t.ops)) < Window
       PROVE  t.p.queue = <<>> /\ Cardinality(InflightOf(m)) < Window
  <2>1. n < room
    BY <1>3, <1>5, <1>6, <1>13, <1>14, Numbers DEF room
  <2>2. Len(e) = 0
    BY <1>4, <1>5, <1>6, <2>1
  <2>3. e = <<>>
    BY <1>6, <2>2
  <2> QED
    BY <1>3, <1>5, <1>6, <1>10, <1>13, <1>14, <2>3, Numbers
<1> QED
  BY <1>10, <1>13, <1>14 DEF Rests

\* pumpInputs leaves a good plane, and nothing it should have sent.
LEMMA PumpGood ==
  ASSUME NEW p, NEW m, NEW t, NEW f, NEW d,
         Good(p, m, <<>>, {}, f, d), t = Pump([p |-> p, ops |-> m])
  PROVE  Good(t.p, t.ops, <<>>, {}, f, d) /\ Pumped(t.p, t.ops)
<1> DEFINE s == [p |-> p, ops |-> m]
           g == MaybeSendGeometry(s)
<1>1. s.p = p /\ s.ops = m /\ Inflight(s) = InflightOf(m)
  BY DEF Inflight, InflightOf
<1>2. CASE ~CanSend(p)
  <2>1. t = s
    BY <1>1, <1>2 DEF Pump
  <2>2. t.p = p /\ t.ops = m
    BY <2>1
  <2> QED
    BY <1>2, <2>2 DEF Pumped
<1>3. CASE CanSend(p)
  <2>1. t = PumpQueue(g) /\ p.stream # None
    BY <1>1, <1>3 DEF Pump, CanSend
  <2>2. /\ g = [p |-> g.p, ops |-> g.ops] /\ Good(g.p, g.ops, <<>>, {}, f, d) /\ Rests(p, g.p)
        /\ Cardinality(InflightOf(g.ops)) < Window => Cardinality(InflightOf(m)) < Window
        /\ \/ g.p.geometryOp # None
           \/ ~p.hydrated \/ p.desired \in {None, p.sentGeometry}
           \/ ~(Cardinality(InflightOf(m)) < Window)
    <3>1. CASE /\ p.hydrated /\ p.geometryOp = None /\ Cardinality(InflightOf(m)) < Window
               /\ p.desired \notin {None, p.sentGeometry}
      <4> DEFINE u == [p EXCEPT !.geometryOp = Len(m) + 1]
                 w == Append(m, NewOp("resize", None))
                 q == <<Len(m) + 1>>
      <4>1. g = AppendOperations([p |-> u, ops |-> w], q)
        BY <1>1, <3>1 DEF MaybeSendGeometry, HasRoom
      <4>2. p \in Planes /\ m \in Made /\ Len(m) \in Nat
        BY Numbered DEF Good, Flow
      <4>3. u.geometryOp = Len(m) + 1 /\ Rests(p, u)
        BY <4>2 DEF Planes, Rests
      <4>4. u.geometryOp # None /\ u.stream # None
        BY <2>1, <4>2, <4>3, Numbers DEF Rests
      <4>5. Good(u, w, q, {}, f, d)
        BY <2>1, <3>1, GeometryGood, Zenon
      <4> HIDE DEF u, w, q, g
      <4>6. /\ Good(g.p, g.ops, <<>>, {}, f, d) /\ g = [p |-> g.p, ops |-> g.ops]
            /\ Rests(u, g.p) /\ g.p.geometryOp = u.geometryOp
        BY <4>1, <4>4, <4>5, AppendDone
      <4> QED
        BY <3>1, <4>3, <4>4, <4>6 DEF Rests
    <3>2. CASE ~(/\ p.hydrated /\ p.geometryOp = None /\ Cardinality(InflightOf(m)) < Window
                 /\ p.desired \notin {None, p.sentGeometry})
      <4>1. g = s
        BY <1>1, <3>2 DEF MaybeSendGeometry, HasRoom
      <4>2. g.p = p /\ g.ops = m /\ g = [p |-> p, ops |-> m]
        BY <4>1, <1>1
      <4> HIDE DEF g
      <4>3. Rests(p, g.p)
        BY <4>2 DEF Rests
      <4> QED
        BY <3>2, <4>2, <4>3
    <3> QED
      BY <3>1, <3>2
  <2> HIDE DEF g, s
  <2>3. /\ Good(t.p, t.ops, <<>>, {}, f, d)
        /\ Cardinality(InflightOf(t.ops)) < Window =>
             t.p.queue = <<>> /\ Cardinality(InflightOf(g.ops)) < Window
        /\ Rests(g.p, t.p) /\ t.p.geometryOp = g.p.geometryOp
    <3>1. g.p.stream # None
      BY <2>1, <2>2 DEF Rests
    <3>2. t = PumpQueue([p |-> g.p, ops |-> g.ops])
      BY <2>1, <2>2
    <3> QED
      BY <2>2, <3>1, <3>2, QueueGood
  <2> QED
    BY <2>2, <2>3 DEF Rests, Pumped
<1> QED
  BY <1>2, <1>3

-----------------------------------------------------------------------------
(* The ends of an operation.                                               *)

LEMMA Settling ==
  ASSUME NEW m \in Made, NEW o \in DOMAIN m, NEW outcome \in OutcomeNames
  PROVE  Settles(m, [m EXCEPT ![o].status = "settled", ![o].outcome = outcome], o, outcome)
<1> DEFINE r == [m[o] EXCEPT !.status = "settled", !.outcome = outcome]
           w == [m EXCEPT ![o] = r]
<1>1. m[o] \in Operations /\ m = [y \in DOMAIN m |-> m[y]]
  BY Numbered DEF Made
<1>2. /\ r \in Operations /\ r.kind = m[o].kind /\ r.gen = m[o].gen /\ r.id = m[o].id
      /\ r.attempt = m[o].attempt /\ r.status = "settled" /\ r.outcome = outcome
  BY <1>1, Zenon DEF Operations, Statuses
<1>3. [m EXCEPT ![o].status = "settled", ![o].outcome = outcome] = w
  OBVIOUS
<1> HIDE DEF r
<1>4. /\ DOMAIN w = DOMAIN m /\ w[o] = r /\ \A y \in DOMAIN m : y # o => w[y] = m[y]
      /\ w = [y \in DOMAIN m |-> w[y]]
  OBVIOUS
<1>5. \A y \in DOMAIN m : w[y] \in Operations
  BY <1>2, <1>4, Numbered
<1> HIDE DEF w
<1>6. w \in Made
  BY <1>4, <1>5, Rewritten
<1> QED
  BY <1>2, <1>3, <1>4, <1>6 DEF Settles

\* One operation less in the window.
Frees(p, m, u, o) ==
  /\ SameRoute(p, u) /\ u.queue = p.queue /\ u.queuedBytes = p.queuedBytes
  /\ u.inflightBytes = p.inflightBytes - Bytes(m[o].kind)
  /\ u.geometryOp = (IF p.geometryOp = o THEN None ELSE p.geometryOp)
  /\ u.attempt = p.attempt /\ SameBudget(p, u)
  /\ \/ u.consent = p.consent /\ u.consentBytes = p.consentBytes
     \/ /\ u.consent = o /\ u.consentBytes = 2 /\ m[o].kind = "paste" /\ m[o].attempt = p.attempt

LEMMA FreesGood ==
  ASSUME NEW p, NEW m, NEW u, NEW w, NEW o, NEW outcome, NEW f, NEW d, NEW e,
         Good(p, m, <<>>, {o}, f, d), m[o].status = "inflight", ~Line(p.chain[p.stream], o),
         Frees(p, m, u, o), Settles(m, w, o, outcome),
         outcome \in {"written", "rejected_unsafe_paste"} => Writes(f, m, o),
         outcome \in {"cancelled", "refused", "released"} => ~Writes(f, m, o),
         e = d \/ (e = d \cup {o} /\ Writes(f, m, o))
  PROVE  Good(u, w, <<>>, {}, f, e)
<1>1. /\ Flow(p, m, {o}, f, d) /\ Queued(p.queue, <<>>, m) /\ Counted(p, m, <<>>) /\ Consents(p, m)
  BY DEF Good
<1>2. Flow(u, w, {}, f, e)
  BY <1>1, SettleFlow DEF Frees
<1>3. /\ p \in Planes /\ u \in Planes /\ m \in Made /\ w \in Made /\ DOMAIN w = DOMAIN m
      /\ o \in DOMAIN m /\ o # None /\ Named(p, m)
      /\ \A y \in DOMAIN m : y # o => w[y] = m[y]
      /\ \A y \in DOMAIN m : w[y].kind = m[y].kind
      /\ w[o].status = "settled" /\ w[o].gen = m[o].gen /\ w[o].attempt = m[o].attempt
  BY <1>1, OperationOf, Numbers DEF Flow, Settles, Frees, SameRoute
<1>4. Queued(u.queue, <<>>, w)
  <2>1. /\ p.queue \in Seq(Nat) /\ <<>> \in Seq(Nat)
        /\ \A i \in DOMAIN p.queue :
             p.queue[i] \in DOMAIN m /\ m[p.queue[i]].status = "queued" /\ m[p.queue[i]].kind # "resize"
        /\ \A y \in DOMAIN m : m[y].status = "queued" => Line(p.queue, y)
        /\ \A i, j \in DOMAIN p.queue : i < j => p.queue[i] < p.queue[j]
    BY <1>1, Lines DEF Queued
  <2>2. \A i \in DOMAIN p.queue : p.queue[i] # o
    BY <2>1
  <2>3. DOMAIN <<>> = {}
    OBVIOUS
  <2>4. u.queue = p.queue
    BY DEF Frees
  <2> QED
    BY <1>3, <2>1, <2>2, <2>3, <2>4 DEF Queued
<1>5. /\ InflightOf(m) = InflightOf(w) \cup {o} /\ o \notin InflightOf(w)
      /\ InflightOf(w) \subseteq DOMAIN m
  BY <1>3 DEF InflightOf
<1>6. /\ BytesOf(m, InflightOf(m)) = BytesOf(m, InflightOf(w)) + Bytes(m[o].kind)
      /\ Cardinality(InflightOf(m)) = Cardinality(InflightOf(w)) + 1
  <2>1. InflightOf(w) \in SUBSET DOMAIN m /\ {o} \in SUBSET DOMAIN m /\ InflightOf(w) \cap {o} = {}
    BY <1>3, <1>5
  <2>2. BytesOf(m, {o}) = Bytes(m[o].kind) /\ Cardinality({o}) = 1
    BY <1>3, BytesSingle
  <2> QED
    BY <1>3, <1>5, <2>1, <2>2, BytesAdd
<1>7. /\ BytesOf(w, InflightOf(w)) = BytesOf(m, InflightOf(w))
      /\ BytesOf(w, Range(p.queue)) = BytesOf(m, Range(p.queue))
  <2>1. \A y \in InflightOf(w) : w[y].kind = m[y].kind
    BY <1>3, <1>5
  <2>2. \A y \in Range(p.queue) : w[y].kind = m[y].kind
    BY <1>1, <1>3 DEF Queued, Range
  <2> QED
    BY <2>1, <2>2, BytesKept
<1>8. /\ BytesOf(m, InflightOf(w)) \in Nat /\ Cardinality(InflightOf(w)) \in Nat
      /\ Bytes(m[o].kind) \in {1, 2} /\ (m[o].kind = "paste" => Bytes(m[o].kind) = 2)
  BY <1>3, <1>5, Finite, Numbers DEF Bytes
<1>9. Counted(u, w, <<>>)
  <2>1. /\ p.queuedBytes = BytesOf(m, Range(p.queue)) /\ p.inflightBytes = BytesOf(m, InflightOf(m))
        /\ p.consentBytes = IF p.consent = None THEN 0 ELSE 2
        /\ Retained(p) + BytesOf(m, Range(<<>>)) <= MaxBytes + (IF p.geometryOp = None THEN 0 ELSE 1)
        /\ Cardinality(InflightOf(m)) + Len(<<>>) <= Window
        /\ p.geometryOp # None =>
             p.geometryOp \in InflightOf(m) \cup Range(<<>>) /\ m[p.geometryOp].kind = "resize"
    BY <1>1 DEF Counted
  <2>2. /\ u.queue = p.queue /\ u.queuedBytes = p.queuedBytes
        /\ u.inflightBytes = p.inflightBytes - Bytes(m[o].kind)
        /\ u.geometryOp = (IF p.geometryOp = o THEN None ELSE p.geometryOp)
        /\ \/ u.consent = p.consent /\ u.consentBytes = p.consentBytes
           \/ u.consent = o /\ u.consentBytes = 2 /\ m[o].kind = "paste"
    BY DEF Frees
  <2>3. BytesOf(m, Range(<<>>)) = 0 /\ BytesOf(w, Range(<<>>)) = 0 /\ Len(<<>>) = 0
    BY BytesNone, NoRange, Zenon
  <2>4. p.queuedBytes \in Int /\ p.inflightBytes \in Int /\ p.consentBytes \in Int
    BY <1>3, PlaneOf
  <2>5. u.queuedBytes = BytesOf(w, Range(u.queue)) /\ u.inflightBytes = BytesOf(w, InflightOf(w))
    BY <1>6, <1>7, <1>8, <2>1, <2>2
  <2>6. u.consentBytes = IF u.consent = None THEN 0 ELSE 2
    BY <1>3, <2>1, <2>2
  <2>7. Retained(u) + BytesOf(w, Range(<<>>)) <= MaxBytes + (IF u.geometryOp = None THEN 0 ELSE 1)
    <3>1. Retained(p) <= MaxBytes + (IF p.geometryOp = None THEN 0 ELSE 1) /\ MaxBytes \in Nat
      BY <2>1, <2>3, <2>4, Numbers DEF Retained
    <3>2. CASE u.consent = p.consent /\ u.consentBytes = p.consentBytes
      <4>1. Retained(u) = Retained(p) - Bytes(m[o].kind) /\ Retained(p) \in Int
        BY <1>8, <2>2, <2>4, <3>2 DEF Retained
      <4>2. Retained(u) <= MaxBytes
        BY <1>8, <3>1, <4>1
      <4> QED
        BY <1>8, <2>3, <3>1, <4>1, <4>2
    <3>3. CASE u.consent = o /\ u.consentBytes = 2 /\ m[o].kind = "paste"
      <4>1. p.geometryOp # o
        BY <1>3, <2>1, <3>3
      <4>2. p.consentBytes \in {0, 2}
        BY <2>1
      <4>3. Retained(u) <= Retained(p) /\ Retained(p) \in Int /\ Retained(u) \in Int
        BY <1>8, <2>2, <2>4, <3>3, <4>2 DEF Retained
      <4> QED
        BY <2>2, <2>3, <3>1, <4>1, <4>3
    <3> QED
      BY <2>2, <3>2, <3>3
  <2>8. Cardinality(InflightOf(w)) + Len(<<>>) <= Window
    BY <1>6, <1>8, <2>1, <2>3, Numbers
  <2>9. u.geometryOp # None =>
          u.geometryOp \in InflightOf(w) \cup Range(<<>>) /\ w[u.geometryOp].kind = "resize"
    BY <1>3, <1>5, <2>1, <2>2, NoRange
  <2> QED
    BY <2>5, <2>6, <2>7, <2>8, <2>9 DEF Counted
<1>10. Consents(u, w)
  <2>1. u.stream = p.stream /\ u.attempt = p.attempt
    BY DEF Frees, SameRoute
  <2>2. CASE u.consent = p.consent
    <3>1. p.consent # None => p.consent # o
      BY <1>1 DEF Consents
    <3> QED
      BY <1>1, <1>3, <2>1, <2>2, <3>1 DEF Consents
  <2>3. CASE u.consent = o /\ m[o].attempt = p.attempt
    BY <1>3, <2>1, <2>3 DEF Consents, Named
  <2> QED
    BY <2>2, <2>3 DEF Frees
<1>11. Budget(u, w, <<>>)
  <2>1. /\ u.geometryOp = (IF p.geometryOp = o THEN None ELSE p.geometryOp)
        /\ u.chain = p.chain /\ u.sent = p.sent /\ u.stream = p.stream
        /\ u.nextId = p.nextId /\ u.queue = p.queue /\ SameBudget(p, u)
    BY DEF Frees, SameRoute
  <2>2. Waits(u, <<>>) <=> Waits(p, <<>>)
    <3>1. CASE p.geometryOp = o
      <4>1. ~Waits(p, <<>>)
        BY <3>1, Lines DEF Waits, Line
      <4>2. ~Waits(u, <<>>)
        BY <2>1, <3>1 DEF Waits
      <4> QED
        BY <4>1, <4>2
    <3>2. CASE p.geometryOp # o
      BY <2>1, <3>2 DEF Waits
    <3> QED
      BY <3>1, <3>2
  <2>3. Len(w) = Len(m)
    BY <1>3, SameLength
  <2>4. Budget(p, m, <<>>)
    BY DEF Good
  <2>5. \A y \in DOMAIN w : w[y].id = m[y].id
    BY <1>3 DEF Settles
  <2>6. Issued(u, w, <<>>) /\ Len(u.queue) <= MaxQueued
    BY <1>3, <2>1, <2>3, <2>4, <2>5 DEF Budget, Issued, Bounded
  <2> QED
    BY <1>3, <2>1, <2>2, <2>3, <2>4, <2>6, BudgetKept
<1> QED
  BY <1>2, <1>4, <1>9, <1>10, <1>11 DEF Good

\* settleInflight: the operation ends as the wire says, and the place is used.
LEMMA SettleGood ==
  ASSUME NEW p, NEW m, NEW o, NEW outcome \in OutcomeNames, NEW t, NEW f, NEW d, NEW e,
         Good(p, m, <<>>, {o}, f, d), o \in InflightOf(m), ~Line(p.chain[p.stream], o),
         outcome \in {"written", "rejected_unsafe_paste"} => Writes(f, m, o),
         outcome \in {"cancelled", "refused", "released"} => ~Writes(f, m, o),
         outcome = "rejected_unsafe_paste" => m[o].kind = "paste",
         e = d \/ (e = d \cup {o} /\ Writes(f, m, o)),
         t = Settle([p |-> p, ops |-> m], o, outcome)
  PROVE  Good(t.p, t.ops, <<>>, {}, f, e) /\ Pumped(t.p, t.ops)
<1> DEFINE w == [m EXCEPT ![o].status = "settled", ![o].outcome = outcome]
           b == p.inflightBytes - Bytes(m[o].kind)
           z == IF p.geometryOp = o THEN None ELSE p.geometryOp
           v == [p EXCEPT !.inflightBytes = b, !.geometryOp = z]
           consents == outcome = "rejected_unsafe_paste" /\ m[o].attempt = v.attempt
           u == IF consents THEN [v EXCEPT !.consent = o, !.consentBytes = Bytes(m[o].kind)] ELSE v
<1>1. p \in Planes /\ m \in Made /\ o \in DOMAIN m /\ m[o].status = "inflight" /\ Routed(p)
  BY DEF Good, Flow, InflightOf
<1>2. t = Pump([p |-> u, ops |-> w])
  BY <1>1 DEF Settle, Inflight, InflightOf
<1>3. Settles(m, w, o, outcome)
  BY <1>1, Settling, Zenon
<1> HIDE DEF w
<1>4. /\ b \in Int /\ z \in Nat /\ o \in Nat /\ Bytes(m[o].kind) \in Int
      /\ outcome = "rejected_unsafe_paste" => Bytes(m[o].kind) = 2
  BY <1>1, PlaneOf, OperationOf, Numbers DEF Bytes
<1>5. v \in Planes
  <2> HIDE DEF b, z
  <2> QED
    BY <1>1, <1>4, Zenon DEF Planes
<1>6. /\ v.stream = p.stream /\ v.last = p.last /\ v.attached = p.attached /\ v.nextId = p.nextId
      /\ v.chain = p.chain /\ v.sent = p.sent /\ v.queue = p.queue
      /\ v.queuedBytes = p.queuedBytes /\ v.inflightBytes = b /\ v.geometryOp = z
      /\ v.attempt = p.attempt /\ v.consent = p.consent /\ v.consentBytes = p.consentBytes
      /\ v.hydrated = p.hydrated /\ v.desired = p.desired /\ v.sentGeometry = p.sentGeometry
      /\ v.typed = p.typed /\ v.resizes = p.resizes /\ v.resyncs = p.resyncs
  BY <1>1 DEF Planes
<1> HIDE DEF v
<1>7. Frees(p, m, u, o)
  <2>1. CASE consents
    <3>1. u = [v EXCEPT !.consent = o, !.consentBytes = 2]
      BY <1>4, <2>1, Zenon
    <3> HIDE DEF u
    <3>2. u \in Planes
      <4>1. o \in Nat /\ v \in Planes /\ 2 \in Int
        BY <1>4, <1>5
      <4> QED
        BY ONLY <3>1, <4>1, Zenon DEF Planes
    <3>3. /\ u.stream = v.stream /\ u.last = v.last /\ u.attached = v.attached
          /\ u.nextId = v.nextId /\ u.chain = v.chain /\ u.sent = v.sent /\ u.queue = v.queue
          /\ u.queuedBytes = v.queuedBytes /\ u.inflightBytes = v.inflightBytes
          /\ u.geometryOp = v.geometryOp /\ u.attempt = v.attempt
          /\ u.consent = o /\ u.consentBytes = 2
          /\ u.hydrated = v.hydrated /\ u.desired = v.desired /\ u.sentGeometry = v.sentGeometry
          /\ u.typed = v.typed /\ u.resizes = v.resizes /\ u.resyncs = v.resyncs
      BY <1>5, <3>1 DEF Planes
    <3>4. SameRoute(p, u)
      BY <1>1, <1>6, <3>2, <3>3 DEF SameRoute, Routed
    <3> QED
      BY <1>6, <2>1, <3>3, <3>4 DEF Frees, SameBudget
  <2>2. CASE ~consents
    <3>1. u = v
      BY <2>2
    <3>2. SameRoute(p, v)
      BY <1>1, <1>5, <1>6 DEF SameRoute, Routed
    <3> QED
      BY <1>6, <3>1, <3>2, Zenon DEF Frees, SameBudget
  <2> QED
    BY <2>1, <2>2
<1> HIDE DEF u
<1>8. Good(u, w, <<>>, {}, f, e)
  BY <1>1, <1>3, <1>7, FreesGood
<1> QED
  BY <1>2, <1>8, PumpGood

\* releaseUnsentOperation
LEMMA ReleaseGood ==
  ASSUME NEW p, NEW m, NEW o, NEW t, NEW f, NEW d,
         Good(p, m, <<>>, {o}, f, d), o \in InflightOf(m), ~Line(p.chain[p.stream], o),
         ~Writes(f, m, o), t = ReleaseUnsent([p |-> p, ops |-> m], o)
  PROVE  Good(t.p, t.ops, <<>>, {}, f, d) /\ Pumped(t.p, t.ops)
<1> DEFINE w == [m EXCEPT ![o].status = "settled", ![o].outcome = "released"]
           b == p.inflightBytes - Bytes(m[o].kind)
           z == IF p.geometryOp = o THEN None ELSE p.geometryOp
           v == [p EXCEPT !.inflightBytes = b, !.geometryOp = z]
<1>1. p \in Planes /\ m \in Made /\ o \in DOMAIN m /\ m[o].status = "inflight" /\ Routed(p)
  BY DEF Good, Flow, InflightOf
<1>2. t = Pump([p |-> v, ops |-> w])
  BY <1>1, SMTT(30) DEF ReleaseUnsent, Inflight, InflightOf
<1>3. Settles(m, w, o, "released")
  BY <1>1, Settling, Zenon DEF OutcomeNames
<1> HIDE DEF w
<1>4. b \in Int /\ z \in Nat
  BY <1>1, PlaneOf, Numbers
<1>5. v \in Planes
  <2> HIDE DEF b, z
  <2> QED
    BY <1>1, <1>4, Zenon DEF Planes
<1>6. /\ v.stream = p.stream /\ v.last = p.last /\ v.attached = p.attached /\ v.nextId = p.nextId
      /\ v.chain = p.chain /\ v.sent = p.sent /\ v.queue = p.queue
      /\ v.queuedBytes = p.queuedBytes /\ v.inflightBytes = b /\ v.geometryOp = z
      /\ v.attempt = p.attempt /\ v.consent = p.consent /\ v.consentBytes = p.consentBytes
      /\ v.hydrated = p.hydrated /\ v.desired = p.desired /\ v.sentGeometry = p.sentGeometry
      /\ v.typed = p.typed /\ v.resizes = p.resizes /\ v.resyncs = p.resyncs
  BY <1>1 DEF Planes
<1> HIDE DEF v
<1>7. Frees(p, m, v, o)
  BY <1>1, <1>5, <1>6 DEF Frees, SameBudget, SameRoute, Routed
<1>8. Good(v, w, <<>>, {}, f, d)
  BY <1>1, <1>3, <1>7, FreesGood
<1> QED
  BY <1>2, <1>8, PumpGood

-----------------------------------------------------------------------------
(* enqueueInput and abandonInputs.                                         *)

Extends(c, z, e) ==
  /\ e \in Seq(Nat) /\ Len(e) = Len(c) + 1 /\ Len(c) \in Nat
  /\ DOMAIN e = 1 .. Len(c) + 1 /\ DOMAIN c = 1 .. Len(c)
  /\ \A i \in 1 .. Len(c) : e[i] = c[i]
  /\ e[Len(c) + 1] = z
  /\ Range(e) = Range(c) \cup {z}

LEMMA AppendOf ==
  ASSUME NEW c \in Seq(Nat), NEW z \in Nat
  PROVE  Extends(c, z, Append(c, z))
<1> DEFINE e == Append(c, z)
<1>1. /\ e \in Seq(Nat) /\ Len(e) = Len(c) + 1 /\ Len(c) \in Nat
      /\ DOMAIN c = 1 .. Len(c)
  OBVIOUS
<1>2. DOMAIN e = 1 .. Len(c) + 1
  BY <1>1
<1>3. \A i \in 1 .. Len(c) : e[i] = c[i]
  OBVIOUS
<1>4. e[Len(c) + 1] = z
  OBVIOUS
<1>5. \A i \in 1 .. Len(c) + 1 : i \in 1 .. Len(c) \/ i = Len(c) + 1
  BY <1>1
<1>6. Range(e) = Range(c) \cup {z}
  BY <1>1, <1>2, <1>3, <1>4, <1>5 DEF Range
<1> HIDE DEF e
<1>7. Extends(c, z, e)
  BY <1>1, <1>2, <1>3, <1>4, <1>6 DEF Extends
<1> QED
  BY <1>7 DEF e

\* The operation that is about to be made was asked for.
Covered(p, m) == Len(m) < Asked(p) /\ (Due(p, <<>>) => Len(m) + 1 < Asked(p))

\* A new operation is refused and nothing retained, or it is the last of the queue.
LEMMA AddGood ==
  ASSUME NEW p, NEW m, NEW u, NEW w, NEW r \in Operations, NEW f, NEW d,
         Good(p, m, <<>>, {}, f, d), w = Append(m, r), r.gen = None, r.kind # "resize",
         r.id = None, Covered(p, m),
         \/ r.status = "settled" /\ r.outcome = "refused" /\ u = p
         \/ /\ r.status = "queued" /\ r.outcome = "none"
            /\ Retained(p) + Bytes(r.kind) <= MaxBytes /\ Len(p.queue) < MaxQueued
            /\ u = [p EXCEPT !.queue = Append(p.queue, Len(m) + 1),
                             !.queuedBytes = p.queuedBytes + Bytes(r.kind)]
  PROVE  Good(u, w, <<>>, {}, f, d) /\ InflightOf(w) = InflightOf(m)
<1> DEFINE z == Len(m) + 1
           c == p.queue
           e == u.queue
           q == <<>>
<1>1. /\ Flow(p, m, {}, f, d) /\ Queued(c, q, m) /\ Counted(p, m, q) /\ Consents(p, m)
  BY DEF Good
<1>2. p \in Planes /\ m \in Made /\ c \in Seq(Nat) /\ Routed(p)
  BY <1>1, PlaneOf DEF Flow
<1>3. /\ w \in Made /\ DOMAIN w = DOMAIN m \cup {Len(m) + 1} /\ Len(m) + 1 \notin DOMAIN m
  <2>1. w \in Made
    BY <1>2, NewMade, Zenon
  <2>2. DOMAIN w = DOMAIN m \cup {Len(m) + 1}
    BY <1>2, NewMade
  <2>3. Len(m) + 1 \notin DOMAIN m
    BY <1>2, NewMade
  <2> QED
    BY <2>1, <2>2, <2>3
<1>4. \A o \in DOMAIN m : w[o] = m[o] /\ o < Len(m) + 1
  BY <1>2, NewMade
<1>5. w[Len(m) + 1] = r /\ Len(m) \in Nat
  BY <1>2, NewMade
<1>6. /\ DOMAIN w = DOMAIN m \cup {z} /\ z \notin DOMAIN m /\ z \in Nat /\ z # None
      /\ \A o \in DOMAIN m : w[o] = m[o] /\ o < z
      /\ w[z] = r
  BY <1>3, <1>4, <1>5, Numbers
<1> DEFINE taken == r.status = "queued"
<1>7. \/ ~taken /\ r.status = "settled" /\ r.outcome = "refused" /\ u = p
      \/ /\ taken /\ r.outcome = "none" /\ Retained(p) + Bytes(r.kind) <= MaxBytes
         /\ Len(c) < MaxQueued
         /\ u = [p EXCEPT !.queue = Append(c, z), !.queuedBytes = p.queuedBytes + Bytes(r.kind)]
  OBVIOUS
<1> HIDE DEF z
<1>8. /\ p.queuedBytes \in Int /\ p.inflightBytes \in Int /\ p.consentBytes \in Int
      /\ Bytes(r.kind) \in Nat
  <2>1. Bytes(r.kind) \in {1, 2}
    BY Numbers
  <2> QED
    BY <1>2, <2>1, PlaneOf
<1>9. /\ u \in Planes
      /\ u.stream = p.stream /\ u.last = p.last /\ u.attached = p.attached /\ u.nextId = p.nextId
      /\ u.chain = p.chain /\ u.sent = p.sent /\ u.inflightBytes = p.inflightBytes
      /\ u.consent = p.consent /\ u.consentBytes = p.consentBytes /\ u.attempt = p.attempt
      /\ u.geometryOp = p.geometryOp /\ SameBudget(p, u)
      /\ ~taken => e = c /\ u.queuedBytes = p.queuedBytes
      /\ taken => e = Append(c, z) /\ u.queuedBytes = p.queuedBytes + Bytes(r.kind)
  <2>1. CASE taken
    <3> DEFINE b == p.queuedBytes + Bytes(r.kind)
               l == Append(c, z)
    <3>1. b \in Int /\ l \in Seq(Nat) /\ u = [p EXCEPT !.queue = l, !.queuedBytes = b]
      BY <1>2, <1>6, <1>7, <1>8, <2>1
    <3> HIDE DEF b, l
    <3>2. u \in Planes
      BY ONLY <1>2, <3>1, Zenon DEF Planes
    <3> QED
      BY <1>2, <2>1, <3>1, <3>2, Zenon DEF Planes, SameBudget, b, l
  <2>2. CASE ~taken
    BY <1>2, <1>7, <2>2 DEF SameBudget
  <2> QED
    BY <2>1, <2>2
<1> HIDE DEF c, e, q
<1>10. Flow(u, w, {}, f, d)
  <2>1. Flow(p, w, {}, f, d)
    BY <1>1, <1>7, AddFlow, Zenon
  <2>2. SameRoute(p, u)
    BY <1>2, <1>9 DEF SameRoute, Routed
  <2> QED
    BY <2>1, <2>2, FlowKept
<1>11. /\ \A i \in DOMAIN c :
            c[i] \in DOMAIN m /\ m[c[i]].status = "queued" /\ m[c[i]].kind # "resize"
       /\ \A o \in DOMAIN m : m[o].status = "queued" => Line(c, o)
       /\ \A i, j \in DOMAIN c : i < j => c[i] < c[j]
       /\ q \in Seq(Nat) /\ DOMAIN q = {} /\ q = <<>>
       /\ DOMAIN c = 1 .. Len(c) /\ Len(c) \in Nat
  BY <1>1, <1>2, NatOf, Lines DEF Queued, q
<1>12. Queued(e, q, w) /\ Range(c) \subseteq DOMAIN m
       /\ Range(e) = Range(c) \cup (IF taken THEN {z} ELSE {})
  <2>1. Range(c) \subseteq DOMAIN m
    BY <1>11 DEF Range
  <2>2. CASE ~taken
    <3>1. e = c
      BY <1>9, <2>2
    <3> QED
      BY <1>2, <1>6, <1>11, <2>1, <2>2, <3>1 DEF Queued
  <2>3. CASE taken
    <3>1. /\ e \in Seq(Nat) /\ DOMAIN e = 1 .. Len(c) + 1
          /\ \A i \in DOMAIN c : e[i] = c[i] /\ i \in DOMAIN e
          /\ e[Len(c) + 1] = z /\ Len(c) + 1 \in DOMAIN e
          /\ Range(e) = Range(c) \cup {z}
          /\ \A i \in DOMAIN e : i \in DOMAIN c \/ i = Len(c) + 1
      <4>1. c \in Seq(Nat) /\ z \in Nat /\ e = Append(c, z)
        BY <1>2, <1>6, <1>9, <2>3
      <4>2. /\ e \in Seq(Nat) /\ Len(c) \in Nat
            /\ DOMAIN e = 1 .. Len(c) + 1 /\ DOMAIN c = 1 .. Len(c)
            /\ \A i \in 1 .. Len(c) : e[i] = c[i]
            /\ e[Len(c) + 1] = z
            /\ Range(e) = Range(c) \cup {z}
        <5>1. Extends(c, z, e)
          BY ONLY <4>1, AppendOf
        <5> QED
          BY ONLY <5>1 DEF Extends
      <4>3. Len(c) + 1 \in DOMAIN e /\ \A i \in DOMAIN e : i \in DOMAIN c \/ i = Len(c) + 1
        BY ONLY <4>2
      <4>4. \A i \in DOMAIN c : e[i] = c[i] /\ i \in DOMAIN e
        BY ONLY <4>2
      <4> QED
        BY <4>2, <4>3, <4>4
    <3>2. \A i \in DOMAIN e :
            e[i] \in DOMAIN w /\ w[e[i]].status = "queued" /\ w[e[i]].kind # "resize"
      BY <1>6, <1>11, <2>3, <3>1, SMTT(30)
    <3>3. ASSUME NEW o \in DOMAIN w, w[o].status = "queued" PROVE Line(e, o)
      <4>1. CASE o = z
        BY <3>1, <4>1 DEF Line
      <4>2. CASE o \in DOMAIN m
        BY <1>6, <1>11, <3>1, <3>3, <4>2 DEF Line
      <4> QED
        BY <1>6, <4>1, <4>2
    <3>4. ASSUME NEW i \in DOMAIN e, NEW j \in DOMAIN e, i < j PROVE e[i] < e[j]
      <4>1. i \in DOMAIN c
        BY <1>11, <3>1, <3>4
      <4>2. CASE j \in DOMAIN c
        BY <1>11, <3>1, <3>4, <4>1, <4>2
      <4>3. CASE j = Len(c) + 1
        BY <1>6, <1>11, <3>1, <4>1, <4>3
      <4> QED
        BY <3>1, <4>2, <4>3
    <3> QED
      BY <1>11, <2>1, <2>3, <3>1, <3>2, <3>3, <3>4, Zenon DEF Queued
  <2> QED
    BY <2>2, <2>3
<1>13. InflightOf(w) = InflightOf(m) /\ InflightOf(m) \subseteq DOMAIN m
  BY <1>6, <1>7 DEF InflightOf
<1>14. /\ BytesOf(w, Range(c)) = BytesOf(m, Range(c))
       /\ BytesOf(w, InflightOf(m)) = BytesOf(m, InflightOf(m))
  <2>1. \A o \in Range(c) : w[o].kind = m[o].kind
    BY <1>6, <1>12
  <2>2. \A o \in InflightOf(m) : w[o].kind = m[o].kind
    BY <1>6, <1>13
  <2>3. BytesOf(w, Range(c)) = BytesOf(m, Range(c))
    BY ONLY <2>1, BytesKept
  <2>4. BytesOf(w, InflightOf(m)) = BytesOf(m, InflightOf(m))
    BY ONLY <2>2, BytesKept
  <2> QED
    BY <2>3, <2>4
<1>15. BytesOf(w, Range(e)) = BytesOf(m, Range(c)) + (IF taken THEN Bytes(r.kind) ELSE 0)
       /\ BytesOf(m, Range(c)) \in Nat
  <2>1. /\ Range(c) \in SUBSET DOMAIN w /\ {z} \in SUBSET DOMAIN w /\ Range(c) \cap {z} = {}
        /\ Range(c) \in SUBSET DOMAIN m
    BY <1>6, <1>12
  <2>2. /\ BytesOf(w, {z}) = Bytes(r.kind)
        /\ BytesOf(w, Range(c) \cup {z}) = BytesOf(w, Range(c)) + BytesOf(w, {z})
        /\ BytesOf(m, Range(c)) \in Nat
    <3>1. w \in Made /\ z \in DOMAIN w /\ w[z].kind = r.kind
      BY <1>3, <1>6
    <3>2. BytesOf(w, {z}) = Bytes(r.kind)
      BY <3>1, BytesSingle, Zenon
    <3>3. BytesOf(w, Range(c) \cup {z}) = BytesOf(w, Range(c)) + BytesOf(w, {z})
      BY <2>1, <3>1, BytesAdd, ZenonT(40)
    <3>4. BytesOf(m, Range(c)) \in Nat
      BY <1>2, <2>1, Finite
    <3> QED
      BY <3>2, <3>3, <3>4
  <2>3. CASE taken
    BY <1>12, <1>14, <2>2, <2>3
  <2>4. CASE ~taken
    <3>1. Range(e) = Range(c)
      BY <1>12, <2>4
    <3> QED
      BY <1>14, <2>2, <2>4, <3>1
  <2> QED
    BY <2>3, <2>4
<1>16. Counted(u, w, q)
  <2>1. /\ p.queuedBytes = BytesOf(m, Range(c)) /\ p.inflightBytes = BytesOf(m, InflightOf(m))
        /\ p.consentBytes = IF p.consent = None THEN 0 ELSE 2
        /\ Retained(p) + BytesOf(m, Range(q)) <= MaxBytes + (IF p.geometryOp = None THEN 0 ELSE 1)
        /\ Cardinality(InflightOf(m)) + Len(q) <= Window
        /\ p.geometryOp # None =>
             p.geometryOp \in InflightOf(m) \cup Range(q) /\ m[p.geometryOp].kind = "resize"
    BY <1>1 DEF Counted, c
  <2>2. BytesOf(m, Range(q)) = 0 /\ BytesOf(w, Range(q)) = 0 /\ Range(q) = {}
    BY <1>11, BytesNone, NoRange, Zenon
  <2>3. u.queuedBytes = BytesOf(w, Range(e))
    BY <1>8, <1>9, <1>15, <2>1
  <2>4. Retained(u) + BytesOf(w, Range(q)) <= MaxBytes + (IF u.geometryOp = None THEN 0 ELSE 1)
    <3>1. CASE taken
      <4>1. Retained(u) = Retained(p) + Bytes(r.kind) /\ Retained(u) \in Int
        BY <1>8, <1>9, <3>1 DEF Retained
      <4>2. Retained(u) <= MaxBytes
        BY <1>7, <3>1, <4>1
      <4> QED
        BY <2>2, <4>1, <4>2, Numbers
    <3>2. CASE ~taken
      <4>1. Retained(u) = Retained(p)
        BY <1>9, <3>2 DEF Retained
      <4> QED
        BY <1>9, <2>1, <2>2, <4>1
    <3> QED
      BY <3>1, <3>2
  <2>5. u.geometryOp # None =>
          u.geometryOp \in InflightOf(w) \cup Range(q) /\ w[u.geometryOp].kind = "resize"
    BY <1>6, <1>9, <1>13, <2>1, <2>2
  <2> QED
    BY <1>9, <1>13, <1>14, <2>1, <2>3, <2>4, <2>5, ZenonT(40) DEF Counted, e
<1>17. Consents(u, w)
  BY <1>1, <1>6, <1>9 DEF Consents
<1>18. Budget(u, w, q)
  <2>1. Bounded(p) /\ Issued(p, m, q) /\ Len(q) = 0
    BY <1>11 DEF Good, Budget, q
  <2>2. Len(w) = Len(m) + 1 /\ Len(m) \in Nat
    BY <1>2, <1>5 DEF Made
  <2>3. /\ Len(e) \in Nat /\ Len(e) <= Len(c) + 1 /\ (~taken => Len(e) = Len(c))
        /\ (taken => Len(c) < MaxQueued)
    <3>1. CASE taken
      <4>1. e = Append(c, z)
        BY <1>9, <3>1
      <4>2. Len(e) = Len(c) + 1
        BY <1>2, <1>6, <4>1, AppendOf
      <4> QED
        BY <1>7, <1>11, <3>1, <4>2
    <3>2. CASE ~taken
      BY <1>9, <1>11, <3>2
    <3> QED
      BY <3>1, <3>2
  <2>4. Bounded(u)
    <3>1. Len(e) <= MaxQueued
      BY <1>11, <2>1, <2>3, Numbers DEF Bounded, c
    <3> QED
      BY <1>9, <2>1, <3>1 DEF Bounded, SameBudget, e
  <2>5. Issued(u, w, q)
    <3>1. p.nextId \in Nat /\ p.nextId >= 1 /\ p.nextId + Len(c) + Len(q) <= Len(m) + 1
      BY <1>2, <2>1, PlaneOf DEF Issued, c
    <3>2. u.nextId >= 1 /\ u.nextId + Len(e) + Len(q) <= Len(w) + 1
      BY <1>9, <1>11, <2>1, <2>2, <2>3, <3>1
    <3>3. \A o \in DOMAIN w : w[o].id <= Len(w)
      <4>1. \A o \in DOMAIN m : m[o].id <= Len(m) /\ m[o].id \in Nat
        BY <1>2, <2>1, OperationOf DEF Issued
      <4>2. None <= Len(m) + 1
        BY <2>2, Numbers
      <4> QED
        BY <1>6, <2>2, <4>1, <4>2
    <3> QED
      BY <3>2, <3>3 DEF Issued, e
  <2>6. /\ Due(u, q) <=> Due(p, <<>>)
        /\ Asked(u) = Asked(p)
    <3>1. Due(u, q) <=> Due(p, q)
      BY <1>9, DueSame DEF SameBudget
    <3> QED
      BY <1>9, <3>1 DEF Asked, SameBudget, q
  <2>7. Asked(p) \in Nat
    BY <1>2, PlaneOf DEF Asked
  <2>8. Paid(u, w, q)
    BY <2>2, <2>6, <2>7 DEF Paid, Covered
  <2> QED
    BY <2>4, <2>5, <2>8 DEF Budget
<1> QED
  BY <1>10, <1>12, <1>13, <1>16, <1>17, <1>18 DEF Good, e, q

LEMMA EnqueueGood ==
  ASSUME NEW p, NEW m, NEW kind \in {"key", "paste"}, NEW attempt \in Nat, NEW t, NEW f, NEW d,
         Good(p, m, <<>>, {}, f, d), Pumped(p, m), Covered(p, m),
         t = Enqueued([p |-> p, ops |-> m], kind, attempt)
  PROVE  Good(t.p, t.ops, <<>>, {}, f, d) /\ Pumped(t.p, t.ops)
<1> DEFINE r == NewOp(kind, attempt)
           x == [r EXCEPT !.status = "settled", !.outcome = "refused"]
           refused == Len(p.queue) >= MaxQueued \/ Retained(p) + Bytes(kind) > MaxBytes
<1>1. /\ r \in Operations /\ r.gen = None /\ r.status = "queued" /\ r.outcome = "none"
      /\ r.kind = kind /\ r.kind # "resize" /\ r.id = None /\ x.id = None
      /\ x \in Operations /\ x.gen = None /\ x.status = "settled" /\ x.outcome = "refused"
      /\ x.kind = kind /\ x.kind # "resize"
  BY Numbers, Zenon DEF NewOp, Operations, Kinds, Statuses, OutcomeNames
<1>2. p \in Planes
  BY DEF Good, Flow
<1>3. CASE refused
  <2>1. t = [p |-> p, ops |-> Append(m, x)]
    BY <1>3, Zenon DEF Enqueued
  <2> DEFINE w == Append(m, x)
  <2>2. t.p = p /\ t.ops = w
    BY <2>1
  <2> HIDE DEF w, x, r
  <2>3. Good(p, w, <<>>, {}, f, d) /\ InflightOf(w) = InflightOf(m)
    BY <1>1, AddGood, ZenonT(40) DEF w
  <2> QED
    BY <2>2, <2>3 DEF Pumped
<1>4. CASE ~refused
  <2> DEFINE u == [p EXCEPT !.queue = Append(p.queue, Len(m) + 1),
                            !.queuedBytes = p.queuedBytes + Bytes(r.kind)]
             w == Append(m, r)
  <2>1. t = Pump([p |-> u, ops |-> w])
    BY <1>1, <1>4 DEF Enqueued
  <2>2. Retained(p) + Bytes(r.kind) <= MaxBytes
    <3>1. Retained(p) \in Int /\ Bytes(kind) \in Int /\ MaxBytes \in Int
      <4>1. p.queuedBytes \in Int /\ p.inflightBytes \in Int /\ p.consentBytes \in Int
        BY <1>2, PlaneOf
      <4> QED
        BY <4>1, Numbers DEF Retained
    <3> QED
      BY <1>1, <1>4, <3>1
  <2>4. Len(p.queue) < MaxQueued
    BY <1>2, <1>4, PlaneOf, NatOf, Numbers
  <2> HIDE DEF r, x
  <2>3. Good(u, w, <<>>, {}, f, d)
    BY <1>1, <2>2, <2>4, AddGood, ZenonT(40)
  <2> HIDE DEF u, w
  <2> QED
    BY <2>1, <2>3, PumpGood
<1> QED
  BY <1>3, <1>4

\* abandonInputs
LEMMA AbandonGood ==
  ASSUME NEW p, NEW m, NEW t, NEW f, NEW d,
         Good(p, m, <<>>, {}, f, d), t = Abandoned([p |-> p, ops |-> m])
  PROVE  Good(t.p, t.ops, <<>>, {}, f, d) /\ t.p.stream = None
<1> DEFINE w == [o \in DOMAIN m |->
                   CASE m[o].status = "inflight" -> [m[o] EXCEPT !.status = "settled", !.outcome = "unknown"]
                     [] m[o].status = "queued"   -> [m[o] EXCEPT !.status = "settled", !.outcome = "cancelled"]
                     [] OTHER -> m[o]]
           u == [p EXCEPT !.stream = None, !.attached = FALSE, !.hydrated = FALSE,
                          !.queue = <<>>, !.queuedBytes = 0, !.inflightBytes = 0,
                          !.sentGeometry = None, !.geometryOp = None, !.nextId = 1,
                          !.consent = None, !.consentBytes = 0]
<1>1. /\ p \in Planes /\ m \in Made /\ Flow(p, m, {}, f, d)
  BY DEF Good, Flow
<1>2. t.p = u /\ t.ops = w
  <2>1. t.ops = w
    BY Zenon DEF Abandoned, AllEnded
  <2>2. t.p = WithoutConsent([p EXCEPT !.stream = None, !.attached = FALSE, !.hydrated = FALSE,
           !.queue = <<>>, !.queuedBytes = 0, !.inflightBytes = 0, !.sentGeometry = None,
           !.geometryOp = None, !.nextId = 1])
    BY DEF Abandoned
  <2>3. t.p = u
    BY <1>1, <2>2 DEF WithoutConsent, Planes
  <2> QED
    BY <2>1, <2>3, Zenon
<1>3. u \in Planes
  <2>1. <<>> \in Seq(Nat) /\ None \in Nat /\ 0 \in Int /\ 1 \in Nat
    BY Numbers
  <2> DEFINE e == <<>>
  <2>2. u = [p EXCEPT !.stream = None, !.attached = FALSE, !.hydrated = FALSE,
                      !.queue = e, !.queuedBytes = 0, !.inflightBytes = 0,
                      !.sentGeometry = None, !.geometryOp = None, !.nextId = 1,
                      !.consent = None, !.consentBytes = 0] /\ e \in Seq(Nat)
    BY <2>1
  <2> HIDE DEF u, e
  <2> QED
    BY ONLY <1>1, <2>1, <2>2, Zenon DEF Planes
<1>4. /\ u.stream = None /\ u.attached = FALSE /\ u.queue = <<>> /\ u.queuedBytes = 0
      /\ u.inflightBytes = 0 /\ u.geometryOp = None /\ u.consent = None /\ u.consentBytes = 0
      /\ u.last = p.last /\ u.chain = p.chain /\ u.sent = p.sent
      /\ u.hydrated = FALSE /\ u.nextId = 1 /\ u.sentGeometry = None /\ u.desired = p.desired
      /\ u.typed = p.typed /\ u.resizes = p.resizes /\ u.resyncs = p.resyncs
  BY <1>1 DEF Planes
<1>5. ASSUME NEW o \in DOMAIN m
      PROVE  /\ w[o] \in Operations /\ w[o].kind = m[o].kind /\ w[o].gen = m[o].gen
             /\ w[o].status = "settled" /\ w[o].id = m[o].id
             /\ m[o].status = "settled" => w[o] = m[o]
             /\ m[o].status = "inflight" => w[o].outcome = "unknown"
             /\ m[o].status = "queued" => w[o].outcome = "cancelled"
  <2> DEFINE r == m[o]
  <2>1. r \in Operations
    BY <1>1, Numbered
  <2>2. w[o] = CASE r.status = "inflight" -> [r EXCEPT !.status = "settled", !.outcome = "unknown"]
                 [] r.status = "queued"   -> [r EXCEPT !.status = "settled", !.outcome = "cancelled"]
                 [] OTHER -> r
    OBVIOUS
  <2>3. r.status \in {"queued", "inflight", "settled"}
    BY <2>1 DEF Operations, Statuses
  <2> HIDE DEF w, r
  <2>4. CASE r.status = "inflight"
    <3>1. w[o] = [r EXCEPT !.status = "settled", !.outcome = "unknown"]
      BY <2>2, <2>4
    <3> QED
      BY <2>1, <2>4, <3>1, Zenon DEF Operations, Statuses, OutcomeNames, r
  <2>5. CASE r.status = "queued"
    <3>1. w[o] = [r EXCEPT !.status = "settled", !.outcome = "cancelled"]
      BY <2>2, <2>5
    <3> QED
      BY <2>1, <2>5, <3>1, Zenon DEF Operations, Statuses, OutcomeNames, r
  <2>6. CASE r.status = "settled"
    <3>1. w[o] = r
      BY <2>2, <2>6
    <3> QED
      BY <2>1, <2>6, <3>1 DEF r
  <2> QED
    BY <2>3, <2>4, <2>5, <2>6
<1>6. DOMAIN w = DOMAIN m /\ w = [o \in DOMAIN m |-> w[o]]
  OBVIOUS
<1> HIDE DEF w, u
<1>7. w \in Made
  BY <1>1, <1>5, <1>6, Rewritten
<1>8. Ends(m, w)
  BY <1>5, <1>6, <1>7 DEF Ends
<1>9. Flow(u, w, {}, f, d)
  BY <1>1, <1>3, <1>4, <1>8, AbandonFlow
<1>10. \A o \in DOMAIN w : w[o].status = "settled"
  BY <1>5, <1>6
<1>11. Queued(u.queue, <<>>, w)
  <2>1. <<>> \in Seq(Nat) /\ DOMAIN <<>> = {}
    OBVIOUS
  <2> QED
    BY <1>4, <1>10, <2>1 DEF Queued
<1>12. Counted(u, w, <<>>)
  <2>1. InflightOf(w) = {}
    BY <1>10 DEF InflightOf
  <2>2. /\ BytesOf(w, Range(<<>>)) = 0 /\ BytesOf(w, {}) = 0 /\ Cardinality({}) = 0
        /\ Len(<<>>) = 0
    BY BytesNone, NoRange
  <2>3. Retained(u) = 0
    BY <1>4 DEF Retained
  <2>4. 0 + 0 <= MaxBytes + 0 /\ 0 + 0 <= Window
    BY Numbers
  <2> QED
    BY <1>4, <2>1, <2>2, <2>3, <2>4 DEF Counted
<1>13. Consents(u, w)
  BY <1>4 DEF Consents
<1>14. Budget(u, w, <<>>)
  <2>1. Bounded(p) /\ Issued(p, m, <<>>) /\ Paid(p, m, <<>>)
    BY DEF Good, Budget
  <2>2. Len(w) = Len(m) /\ Len(m) \in Nat /\ Len(<<>>) = 0
    BY <1>1, <1>6, <1>7, SameLength
  <2>3. Bounded(u)
    BY <1>4, <2>1, <2>2, Numbers DEF Bounded
  <2>4. Issued(u, w, <<>>)
    BY <1>4, <1>5, <1>6, <2>1, <2>2 DEF Issued
  <2>5. Asked(u) = Asked(p) /\ ~Due(u, <<>>)
    BY <1>4 DEF Asked, Due
  <2>6. Paid(u, w, <<>>)
    BY <2>1, <2>2, <2>5 DEF Paid
  <2> QED
    BY <2>3, <2>4, <2>6 DEF Budget
<1> QED
  BY <1>2, <1>4, <1>9, <1>11, <1>12, <1>13, <1>14 DEF Good

-----------------------------------------------------------------------------
(* The actions.                                                            *)

\* What the counters are about stays, but a consent may go.
SameCounts(p, u) ==
  /\ u.stream = p.stream /\ u.queue = p.queue /\ u.queuedBytes = p.queuedBytes
  /\ u.inflightBytes = p.inflightBytes /\ u.geometryOp = p.geometryOp
  /\ \/ u.consent = p.consent /\ u.consentBytes = p.consentBytes /\ u.attempt = p.attempt
     \/ u.consent = None /\ u.consentBytes = 0

LEMMA CountsGood ==
  ASSUME NEW p, NEW m, NEW u, NEW x, NEW y, NEW f, NEW g, NEW d, NEW e,
         Good(p, m, <<>>, x, f, d), Flow(u, m, y, g, e), SameCounts(p, u),
         Budget(u, m, <<>>)
  PROVE  Good(u, m, <<>>, y, g, e)
<1>1. /\ Queued(p.queue, <<>>, m) /\ Counted(p, m, <<>>) /\ Consents(p, m)
      /\ p \in Planes
  BY DEF Good, Flow
<1>2. p.queuedBytes \in Int /\ p.inflightBytes \in Int /\ p.consentBytes \in Int
  BY <1>1, PlaneOf
<1>3. Retained(u) <= Retained(p) /\ Retained(u) \in Int /\ Retained(p) \in Int
  <2>1. u.consentBytes = p.consentBytes \/ (u.consentBytes = 0 /\ p.consentBytes \in {0, 2})
    BY <1>1 DEF SameCounts, Counted
  <2>2. u.queuedBytes = p.queuedBytes /\ u.inflightBytes = p.inflightBytes
    BY DEF SameCounts
  <2> QED
    BY <1>2, <2>1, <2>2 DEF Retained
<1>4. Counted(u, m, <<>>)
  <2>1. BytesOf(m, Range(<<>>)) = 0
    BY BytesNone, NoRange, Zenon
  <2>2. Retained(u) + BytesOf(m, Range(<<>>)) <= MaxBytes + (IF u.geometryOp = None THEN 0 ELSE 1)
    <3>1. Retained(p) + 0 <= MaxBytes + (IF p.geometryOp = None THEN 0 ELSE 1)
      BY <1>1, <2>1 DEF Counted
    <3>2. u.geometryOp = p.geometryOp /\ MaxBytes \in Int
      BY Numbers DEF SameCounts
    <3> QED
      BY <1>3, <2>1, <3>1, <3>2
  <2>3. u.consentBytes = IF u.consent = None THEN 0 ELSE 2
    BY <1>1 DEF Counted, SameCounts
  <2>4. /\ u.queue = p.queue /\ u.queuedBytes = p.queuedBytes
        /\ u.inflightBytes = p.inflightBytes /\ u.geometryOp = p.geometryOp
    BY DEF SameCounts
  <2> QED
    BY <1>1, <2>2, <2>3, <2>4 DEF Counted
<1>5. Consents(u, m)
  BY <1>1 DEF Consents, SameCounts
<1>6. u.queue = p.queue
  BY DEF SameCounts
<1> QED
  BY <1>1, <1>4, <1>5, <1>6 DEF Good

\* A plane of which nothing that counts changed.
LEMMA MinorGood ==
  ASSUME NEW p, NEW m, NEW u, NEW f, NEW d,
         Good(p, m, <<>>, {}, f, d), SameRoute(p, u), SameCounts(p, u),
         Budget(u, m, <<>>)
  PROVE  Good(u, m, <<>>, {}, f, d)
<1>1. Flow(u, m, {}, f, d)
  BY FlowKept DEF Good
<1> QED
  BY <1>1, CountsGood

\* The plane is one, and with its operations what S holds.
LEMMA Planar ==
  ASSUME IInv
  PROVE  /\ S = [p |-> plane, ops |-> ops] /\ plane \in Planes /\ ops \in Made
         /\ Good(plane, ops, <<>>, {}, frames, answered) /\ Pumped(plane, ops)
         /\ Routed(plane) /\ Inflight(S) = InflightOf(ops) /\ Budget(plane, ops, <<>>)
  BY DEF IInv, Good, Flow, S, At, Inflight, InflightOf

LEMMA InitInv == Init => IInv
<1> SUFFICES ASSUME Init PROVE IInv
  OBVIOUS
<1>1. /\ ops = <<>> /\ frames = <<>> /\ answered = {} /\ DOMAIN ops = {} /\ DOMAIN frames = {}
      /\ Len(<<>>) = 0 /\ <<>> \in Seq(Nat)
  BY DEF Init
<1> DEFINE ch == [a \in Attachments |-> <<>>]
           se == [a \in Attachments |-> -1]
<1>2. /\ ch \in [Attachments -> Seq(Nat)] /\ se \in [Attachments -> Int]
      /\ \A a \in Attachments : ch[a] = <<>> /\ se[a] = -1
  BY <1>1
<1>3. plane = [stream |-> None, last |-> 0, attached |-> FALSE, hydrated |-> FALSE,
              detached |-> FALSE, resyncs |-> 0,
              queue |-> <<>>, queuedBytes |-> 0, inflightBytes |-> 0, nextId |-> 1,
              chain |-> ch, sent |-> se,
              desired |-> None, resizes |-> 0, sentGeometry |-> None, geometryOp |-> None,
              attempt |-> 0, typed |-> 0, consent |-> None, consentBytes |-> 0]
  BY DEF Init
<1> HIDE DEF ch, se
<1>4. plane \in Planes
  BY <1>1, <1>2, <1>3, Numbers DEF Planes
<1>5. /\ plane.stream = None /\ plane.last = 0 /\ ~plane.attached /\ plane.queue = <<>>
      /\ plane.queuedBytes = 0 /\ plane.inflightBytes = 0 /\ plane.chain = ch /\ plane.sent = se
      /\ plane.geometryOp = None /\ plane.consent = None /\ plane.consentBytes = 0
      /\ ~plane.hydrated /\ plane.nextId = 1 /\ plane.desired = None /\ plane.sentGeometry = None
      /\ plane.typed = 0 /\ plane.resizes = 0 /\ plane.resyncs = 0
  BY <1>3
<1> HIDE DEF Init
<1>6. ops \in Made /\ frames \in Sent
  BY <1>1 DEF Made, Sent
<1>7. Flow(plane, ops, {}, frames, answered)
  <2>1. Routed(plane)
    BY <1>2, <1>5, Numbers DEF Routed
  <2>2. Chained(plane, ops)
    BY <1>2, <1>5 DEF Chained, ChainOf
  <2>3. Wired(plane, ops, frames)
    BY <1>1, <1>5 DEF Wired, Framed, Ordered
  <2>4. Named(plane, ops) /\ Aged(ops) /\ Truthful(ops, frames)
    BY <1>1 DEF Named, Aged, Truthful
  <2>5. Owed(plane, ops, {}, frames, answered)
    BY <1>1 DEF Owed
  <2> QED
    BY <1>4, <1>6, <2>1, <2>2, <2>3, <2>4, <2>5 DEF Flow
<1>8. Queued(plane.queue, <<>>, ops)
  BY <1>1, <1>5 DEF Queued
<1>9. Counted(plane, ops, <<>>)
  <2>1. InflightOf(ops) = {}
    BY <1>1 DEF InflightOf
  <2>2. BytesOf(ops, Range(<<>>)) = 0 /\ BytesOf(ops, {}) = 0 /\ Cardinality({}) = 0
    BY BytesNone, NoRange
  <2>3. Retained(plane) = 0
    BY <1>5 DEF Retained
  <2>4. 0 + 0 <= MaxBytes + 0 /\ 0 + 0 <= Window
    BY Numbers
  <2> QED
    BY <1>1, <1>5, <2>1, <2>2, <2>3, <2>4, Zenon DEF Counted
<1>10. Consents(plane, ops) /\ Pumped(plane, ops)
  BY <1>5 DEF Consents, Pumped, CanSend
<1>11. Budget(plane, ops, <<>>)
  <2>1. 0 <= MaxQueued /\ 0 <= MaxTyped /\ 0 <= MaxResizes /\ 0 <= MaxResync
    BY ConstantsAssumption
  <2>2. Bounded(plane)
    BY <1>1, <1>5, <2>1 DEF Bounded
  <2>3. Issued(plane, ops, <<>>)
    BY <1>1, <1>5 DEF Issued
  <2>4. Paid(plane, ops, <<>>)
    BY <1>1, <1>5 DEF Paid, Due, Asked
  <2> QED
    BY <2>2, <2>3, <2>4 DEF Budget
<1> QED
  BY <1>7, <1>8, <1>9, <1>10, <1>11 DEF IInv, Good

\* The fields of a plane that typing or the consent of a paste change.
LEMMA ViewFields ==
  ASSUME NEW p \in Planes, Routed(p), NEW u,
         \/ u = Typed(p) \/ u = WithoutConsent(p) \/ u = WithoutConsent(Typed(p))
         \/ u = [WithoutConsent(Typed(p)) EXCEPT !.attempt = @ + 1]
  PROVE  /\ u \in Planes /\ SameRoute(p, u) /\ SameCounts(p, u) /\ u.attempt \in Nat
         /\ u.attached = p.attached /\ u.detached = p.detached /\ u.hydrated = p.hydrated
         /\ u.desired = p.desired /\ u.sentGeometry = p.sentGeometry
         /\ u.resizes = p.resizes /\ u.resyncs = p.resyncs
<1>1. p.typed + 1 \in Nat /\ p.attempt + 1 \in Nat /\ None \in Nat /\ 0 \in Int
  BY PlaneOf, Numbers
<1> DEFINE typed == p.typed + 1
           attempt == p.attempt + 1
<1>2. u \in Planes
  <2>1. ASSUME NEW q \in Planes PROVE WithoutConsent(q) \in Planes
    BY <1>1, Zenon DEF Planes, WithoutConsent
  <2>2. Typed(p) = [p EXCEPT !.typed = typed]
    BY DEF Typed
  <2>3. Typed(p) \in Planes
    <3> HIDE DEF typed
    <3>1. typed \in Nat
      BY <1>1 DEF typed
    <3> QED
      BY <2>2, <3>1, ZenonT(40) DEF Planes
  <2>4. WithoutConsent(Typed(p)).attempt = p.attempt
    BY DEF WithoutConsent, Typed, Planes
  <2>5. ASSUME NEW q \in Planes, NEW n \in Nat PROVE [q EXCEPT !.attempt = n] \in Planes
    BY Zenon DEF Planes
  <2>6. [WithoutConsent(Typed(p)) EXCEPT !.attempt = @ + 1]
          = [WithoutConsent(Typed(p)) EXCEPT !.attempt = attempt]
    BY <2>4
  <2> QED
    BY <1>1, <2>1, <2>3, <2>5, <2>6
<1>3. u.attempt \in Nat
  BY <1>2, PlaneOf
<1>4. /\ u.stream = p.stream /\ u.last = p.last /\ u.nextId = p.nextId
      /\ u.chain = p.chain /\ u.sent = p.sent /\ u.queue = p.queue
      /\ u.queuedBytes = p.queuedBytes /\ u.inflightBytes = p.inflightBytes
      /\ u.geometryOp = p.geometryOp
      /\ u.attached = p.attached /\ u.detached = p.detached /\ u.hydrated = p.hydrated
      /\ u.desired = p.desired /\ u.sentGeometry = p.sentGeometry
      /\ u.resizes = p.resizes /\ u.resyncs = p.resyncs
  BY ZenonT(40) DEF Planes, Typed, WithoutConsent
<1>5. \/ u.consent = p.consent /\ u.consentBytes = p.consentBytes /\ u.attempt = p.attempt
      \/ u.consent = None /\ u.consentBytes = 0
  BY Zenon DEF Planes, Typed, WithoutConsent
<1>6. SameRoute(p, u)
  BY <1>2, <1>4 DEF SameRoute, Routed
<1> QED
  BY <1>2, <1>3, <1>4, <1>5, <1>6 DEF SameCounts

LEMMA ViewGood ==
  ASSUME NEW p, NEW m, NEW u, NEW f, NEW d, Good(p, m, <<>>, {}, f, d), Pumped(p, m),
         \/ u = Typed(p) \/ u = WithoutConsent(p) \/ u = WithoutConsent(Typed(p))
         \/ u = [WithoutConsent(Typed(p)) EXCEPT !.attempt = @ + 1],
         Budget(u, m, <<>>)
  PROVE  Good(u, m, <<>>, {}, f, d) /\ Pumped(u, m) /\ u.attempt \in Nat
<1>1. p \in Planes /\ Routed(p)
  BY DEF Good, Flow
<1>2. /\ u \in Planes /\ SameRoute(p, u) /\ SameCounts(p, u) /\ u.attempt \in Nat
      /\ u.attached = p.attached /\ u.detached = p.detached /\ u.hydrated = p.hydrated
      /\ u.desired = p.desired /\ u.sentGeometry = p.sentGeometry
  BY <1>1, ViewFields
<1>3. Pumped(u, m)
  BY <1>2 DEF Pumped, CanSend, SameCounts
<1> QED
  BY <1>2, <1>3, MinorGood

\* A consent that goes asks for nothing.
LEMMA ConsentGood ==
  ASSUME NEW p, NEW m, NEW u, NEW f, NEW d, Good(p, m, <<>>, {}, f, d), Pumped(p, m),
         u = WithoutConsent(p)
  PROVE  Good(u, m, <<>>, {}, f, d) /\ Pumped(u, m)
<1>1. p \in Planes /\ m \in Made /\ Routed(p) /\ Budget(p, m, <<>>)
  BY DEF Good, Flow
<1>2. /\ u \in Planes /\ SameRoute(p, u) /\ SameCounts(p, u)
      /\ u.attached = p.attached /\ u.hydrated = p.hydrated
      /\ u.desired = p.desired /\ u.sentGeometry = p.sentGeometry
      /\ u.resizes = p.resizes /\ u.resyncs = p.resyncs
  BY <1>1, ViewFields
<1>3. u.typed = p.typed
  BY <1>1 DEF WithoutConsent, Planes
<1>4. Budget(u, m, <<>>)
  <2>1. Bounded(u) /\ Asked(u) = Asked(p)
    BY <1>1, <1>2, <1>3 DEF Budget, Bounded, Asked, SameCounts, SameRoute
  <2>2. Due(u, <<>>) <=> Due(p, <<>>)
    BY <1>2, DueSame DEF SameRoute, SameCounts
  <2> QED
    BY <1>1, <1>2, <2>1, <2>2, Repaid DEF SameRoute, SameCounts
<1> QED
  BY <1>4, ViewGood

\* An input asks for the operation that is about to be made.
LEMMA TypedGood ==
  ASSUME NEW p, NEW m, NEW u, NEW f, NEW d, Good(p, m, <<>>, {}, f, d), Pumped(p, m),
         p.typed < MaxTyped,
         \/ u = Typed(p) \/ u = WithoutConsent(Typed(p))
         \/ u = [WithoutConsent(Typed(p)) EXCEPT !.attempt = @ + 1]
  PROVE  /\ Good(u, m, <<>>, {}, f, d) /\ Pumped(u, m) /\ u.attempt \in Nat
         /\ Covered(u, m)
<1>1. p \in Planes /\ m \in Made /\ Routed(p) /\ Budget(p, m, <<>>)
  BY DEF Good, Flow
<1>2. /\ u \in Planes /\ SameRoute(p, u) /\ SameCounts(p, u)
      /\ u.attached = p.attached /\ u.hydrated = p.hydrated
      /\ u.desired = p.desired /\ u.sentGeometry = p.sentGeometry
      /\ u.resizes = p.resizes /\ u.resyncs = p.resyncs
  BY <1>1, ViewFields
<1>3. u.typed = p.typed + 1
  <2>1. Typed(p).typed = p.typed + 1
    BY <1>1 DEF Typed, Planes
  <2>2. ASSUME NEW v PROVE WithoutConsent([p EXCEPT !.typed = v]).typed = v
    BY <1>1 DEF WithoutConsent, Planes
  <2>3. WithoutConsent(Typed(p)).typed = p.typed + 1
    BY <2>2 DEF Typed
  <2>4. [WithoutConsent(Typed(p)) EXCEPT !.attempt = @ + 1].typed = WithoutConsent(Typed(p)).typed
    BY <1>1 DEF WithoutConsent, Typed, Planes
  <2> QED
    BY <2>1, <2>3, <2>4
<1>4. p.typed \in Nat /\ Asked(p) \in Nat /\ Len(m) \in Nat /\ MaxTyped \in Nat
  BY <1>1, PlaneOf, AskedNat, Numbered, ConstantsAssumption
<1>5. Asked(u) = Asked(p) + 1
  <2>1. p.resizes \in Nat /\ p.resyncs \in Nat /\ p.last \in Nat /\ u.last = p.last
    BY <1>1, <1>2, PlaneOf DEF SameRoute
  <2> QED
    BY <1>2, <1>3, <1>4, <2>1 DEF Asked
<1>6. Due(u, <<>>) <=> Due(p, <<>>)
  BY <1>2, DueSame DEF SameRoute, SameCounts
<1>7. Budget(u, m, <<>>)
  <2>1. Bounded(u)
    BY <1>1, <1>2, <1>3, <1>4 DEF Budget, Bounded, SameCounts
  <2> QED
    BY <1>1, <1>2, <1>5, <2>1, Repaid DEF SameRoute, SameCounts
<1>8. Covered(u, m)
  BY <1>1, <1>4, <1>5, <1>6 DEF Budget, Paid, Covered
<1> QED
  BY <1>7, <1>8, ViewGood

LEMMA SendInputInv == IInv /\ SendInput => IInv'
<1> SUFFICES ASSUME IInv, SendInput PROVE IInv'
  OBVIOUS
<1> DEFINE u == Typed(plane)
           t == Enqueued([p |-> u, ops |-> ops], "key", None)
<1>1. Good(u, ops, <<>>, {}, frames, answered) /\ Pumped(u, ops) /\ Covered(u, ops)
  BY Planar, TypedGood DEF SendInput, MayType
<1>2. plane' = t.p /\ ops' = t.ops /\ frames' = frames /\ answered' = answered
  BY DEF SendInput, Leave, At, WireRests
<1> HIDE DEF u
<1>3. Good(t.p, t.ops, <<>>, {}, frames, answered) /\ Pumped(t.p, t.ops)
  BY <1>1, EnqueueGood, Numbers
<1> QED
  BY <1>2, <1>3 DEF IInv

LEMMA WritePasteInv == IInv /\ WritePaste => IInv'
<1> SUFFICES ASSUME IInv, WritePaste PROVE IInv'
  OBVIOUS
<1> DEFINE u == [WithoutConsent(Typed(plane)) EXCEPT !.attempt = @ + 1]
           t == Enqueued([p |-> u, ops |-> ops], "paste", u.attempt)
<1>1. /\ Good(u, ops, <<>>, {}, frames, answered) /\ Pumped(u, ops) /\ u.attempt \in Nat
      /\ Covered(u, ops)
  <2>1. plane.typed < MaxTyped
    BY DEF WritePaste, MayType
  <2> QED
    BY <2>1, Planar, TypedGood, Zenon
<1>2. plane' = t.p /\ ops' = t.ops /\ frames' = frames /\ answered' = answered
  BY DEF WritePaste, Leave, At, WireRests
<1> HIDE DEF u
<1>3. Good(t.p, t.ops, <<>>, {}, frames, answered) /\ Pumped(t.p, t.ops)
  BY <1>1, EnqueueGood
<1> QED
  BY <1>2, <1>3 DEF IInv

LEMMA ConfirmInv == IInv /\ ConfirmUnsafePaste => IInv'
<1> SUFFICES ASSUME IInv, ConfirmUnsafePaste PROVE IInv'
  OBVIOUS
<1>1. frames' = frames /\ answered' = answered
  BY DEF ConfirmUnsafePaste, WireRests
<1>2. CASE ops[plane.consent].gen = plane.stream
  <2> DEFINE u == WithoutConsent(Typed(plane))
             t == Enqueued([p |-> u, ops |-> ops], "paste", None)
  <2>1. Good(u, ops, <<>>, {}, frames, answered) /\ Pumped(u, ops) /\ Covered(u, ops)
    BY Planar, TypedGood DEF ConfirmUnsafePaste, MayType
  <2>2. plane' = t.p /\ ops' = t.ops
    BY <1>2 DEF ConfirmUnsafePaste, Leave, At
  <2> HIDE DEF u
  <2>3. Good(t.p, t.ops, <<>>, {}, frames, answered) /\ Pumped(t.p, t.ops)
    BY <2>1, EnqueueGood, Numbers
  <2> QED
    BY <1>1, <2>2, <2>3 DEF IInv
<1>3. CASE ops[plane.consent].gen # plane.stream
  <2> DEFINE u == WithoutConsent(plane)
  <2>1. Good(u, ops, <<>>, {}, frames, answered) /\ Pumped(u, ops)
    BY Planar, ConsentGood
  <2>2. plane' = u /\ ops' = ops
    BY <1>3 DEF ConfirmUnsafePaste, Leave, At
  <2> QED
    BY <1>1, <2>1, <2>2 DEF IInv
<1> QED
  BY <1>2, <1>3

LEMMA DropConsentInv == IInv /\ DropConsent => IInv'
<1> SUFFICES ASSUME IInv, DropConsent PROVE IInv'
  OBVIOUS
<1>1. /\ plane' = WithoutConsent(plane) /\ ops' = ops
      /\ frames' = frames /\ answered' = answered
  BY DEF DropConsent, WireRests
<1>2. Good(plane', ops, <<>>, {}, frames, answered) /\ Pumped(plane', ops)
  BY <1>1, Planar, ConsentGood
<1> QED
  BY <1>1, <1>2 DEF IInv

LEMMA ResizeInv == ASSUME NEW geometry \in Geometries PROVE IInv /\ Resize(geometry) => IInv'
<1> SUFFICES ASSUME IInv, Resize(geometry) PROVE IInv'
  OBVIOUS
<1> DEFINE u == [plane EXCEPT !.desired = geometry, !.resizes = @ + 1]
           t == Pump([p |-> u, ops |-> ops])
<1>1. plane' = t.p /\ ops' = t.ops /\ frames' = frames /\ answered' = answered
  BY DEF Resize, Leave, At, WireRests
<1>2. plane \in Planes /\ Routed(plane) /\ Good(plane, ops, <<>>, {}, frames, answered)
  BY Planar
<1>3. geometry \in Nat /\ plane.resizes + 1 \in Nat
  BY <1>2, PlaneOf, ConstantsAssumption
<1>4. /\ u \in Planes /\ SameRoute(plane, u) /\ SameCounts(plane, u)
      /\ u.desired = geometry /\ u.resizes = plane.resizes + 1
      /\ u.attached = plane.attached /\ u.hydrated = plane.hydrated
      /\ u.sentGeometry = plane.sentGeometry /\ u.typed = plane.typed /\ u.resyncs = plane.resyncs
  <2>1. u \in Planes
    BY <1>2, <1>3, Zenon DEF Planes
  <2> QED
    BY <1>2, <2>1, Zenon DEF Planes, SameRoute, SameCounts, Routed
<1> HIDE DEF u
<1>5. Good(u, ops, <<>>, {}, frames, answered)
  <2>1. Budget(plane, ops, <<>>) /\ ops \in Made
    BY Planar
  <2>2. plane.resizes < MaxResizes /\ MaxResizes \in Nat /\ plane.resizes \in Nat
    BY <1>2, PlaneOf, ConstantsAssumption DEF Resize
  <2>3. Bounded(u)
    BY <1>4, <2>1, <2>2 DEF Budget, Bounded, SameCounts
  <2>4. Asked(u) = Asked(plane) + 1
    <3>1. plane.typed \in Nat /\ plane.resyncs \in Nat /\ plane.last \in Nat /\ u.last = plane.last
      BY <1>2, <1>4, PlaneOf DEF SameRoute
    <3> QED
      BY <1>4, <2>2, <3>1 DEF Asked
  <2>5. Budget(u, ops, <<>>)
    BY <1>2, <1>4, <2>1, <2>3, <2>4, Repaid DEF SameRoute, SameCounts
  <2> QED
    BY <1>2, <1>4, <2>5, MinorGood
<1>6. Good(t.p, t.ops, <<>>, {}, frames, answered) /\ Pumped(t.p, t.ops)
  BY <1>5, PumpGood
<1> QED
  BY <1>1, <1>6 DEF IInv

LEMMA AbandonInv ==
  ASSUME IInv, NEW u, u = plane \/ u = [plane EXCEPT !.detached = TRUE],
         Leave(Abandoned(At(u))), UNCHANGED <<frames, answered>>
  PROVE  IInv'
<1> DEFINE t == Abandoned([p |-> u, ops |-> ops])
<1>1. plane' = t.p /\ ops' = t.ops /\ frames' = frames /\ answered' = answered
  BY DEF Leave, At
<1>2. plane \in Planes /\ Routed(plane) /\ Good(plane, ops, <<>>, {}, frames, answered)
  BY Planar
<1>3. Good(u, ops, <<>>, {}, frames, answered)
  <2>1. u \in Planes
    BY <1>2, ZenonT(40) DEF Planes
  <2>2. SameRoute(plane, u) /\ SameCounts(plane, u)
    BY <1>2, <2>1, ZenonT(40) DEF Planes, SameRoute, SameCounts, Routed
  <2>3. /\ u.hydrated = plane.hydrated /\ u.desired = plane.desired
        /\ u.sentGeometry = plane.sentGeometry /\ u.attached = plane.attached
        /\ u.typed = plane.typed /\ u.resizes = plane.resizes /\ u.resyncs = plane.resyncs
    BY <1>2, ZenonT(40) DEF Planes
  <2>4. Budget(plane, ops, <<>>) /\ ops \in Made
    BY Planar
  <2>5. Bounded(u) /\ Asked(u) = Asked(plane)
    BY <2>2, <2>3, <2>4 DEF Budget, Bounded, Asked, SameRoute, SameCounts
  <2>6. Due(u, <<>>) <=> Due(plane, <<>>)
    BY <2>2, <2>3, DueSame DEF SameRoute, SameCounts
  <2>7. Budget(u, ops, <<>>)
    BY <1>2, <2>1, <2>2, <2>4, <2>5, <2>6, Repaid DEF SameRoute, SameCounts
  <2> QED
    BY <1>2, <2>2, <2>7, MinorGood
<1>4. Good(t.p, t.ops, <<>>, {}, frames, answered) /\ t.p.stream = None
  BY <1>3, AbandonGood
<1>5. Pumped(t.p, t.ops)
  BY <1>4 DEF Pumped, CanSend
<1> QED
  BY <1>1, <1>4, <1>5 DEF IInv

LEMMA DetachInv == IInv /\ Detach => IInv'
  BY AbandonInv DEF Detach, WireRests

LEMMA LoseRouteInv == IInv /\ LoseRoute => IInv'
  BY AbandonInv DEF LoseRoute, S, WireRests

LEMMA AttachInv == IInv /\ Attach => IInv'
<1> SUFFICES ASSUME IInv, Attach PROVE IInv'
  OBVIOUS
<1> DEFINE n == plane.last + 1
           u == [plane EXCEPT !.last = n, !.stream = n, !.nextId = 1]
<1>1. /\ plane' = u /\ ops' = ops /\ frames' = frames /\ answered' = answered
      /\ plane.stream = None /\ plane.last < MaxAttach
  BY DEF Attach, WireRests
<1>2. /\ plane \in Planes /\ Routed(plane) /\ Good(plane, ops, <<>>, {}, frames, answered)
      /\ Flow(plane, ops, {}, frames, answered)
  BY Planar DEF Good
<1>3. n \in Nat
  BY <1>2, PlaneOf
<1>4. /\ u \in Planes /\ u.stream = n /\ u.last = n /\ u.chain = plane.chain
      /\ u.sent = plane.sent /\ u.queue = plane.queue /\ u.queuedBytes = plane.queuedBytes
      /\ u.inflightBytes = plane.inflightBytes /\ u.geometryOp = plane.geometryOp
      /\ u.consent = plane.consent /\ u.consentBytes = plane.consentBytes
      /\ u.attached = plane.attached /\ u.hydrated = plane.hydrated /\ u.nextId = 1
      /\ u.desired = plane.desired /\ u.sentGeometry = plane.sentGeometry
      /\ u.typed = plane.typed /\ u.resizes = plane.resizes /\ u.resyncs = plane.resyncs
  <2> HIDE DEF n
  <2> QED
    BY <1>2, <1>3, Zenon DEF Planes
<1> HIDE DEF u
<1>5. Flow(u, ops, {}, frames, answered)
  BY <1>1, <1>2, <1>4, AttachFlow
<1>6. Queued(u.queue, <<>>, ops) /\ Counted(u, ops, <<>>)
  BY <1>2, <1>4 DEF Good, Counted, Retained
<1>7. Consents(u, ops)
  BY <1>1, <1>2, <1>4 DEF Good, Consents
<1>8. Pumped(u, ops)
  BY <1>1, <1>2, <1>4 DEF Pumped, CanSend, Routed
<1>9. Budget(u, ops, <<>>)
  <2>1. /\ Bounded(plane) /\ Issued(plane, ops, <<>>) /\ Paid(plane, ops, <<>>) /\ ops \in Made
    BY Planar DEF Budget
  <2>2. Bounded(u)
    BY <1>4, <2>1 DEF Bounded
  <2>3. Len(ops) \in Nat /\ Len(plane.queue) \in Nat /\ plane.nextId \in Nat /\ Len(<<>>) = 0
    BY <1>2, <2>1, PlaneOf, NatOf, Numbered
  <2>4. Issued(u, ops, <<>>)
    BY <1>4, <2>1, <2>3 DEF Issued
  <2>5. Asked(u) = Asked(plane) + 1 /\ Asked(plane) \in Nat
    <3>1. /\ plane.typed \in Nat /\ plane.resizes \in Nat /\ plane.resyncs \in Nat
          /\ plane.last \in Nat
      BY <1>2, PlaneOf
    <3> QED
      BY <1>4, <3>1 DEF Asked
  <2>6. Paid(u, ops, <<>>)
    BY <2>1, <2>3, <2>5 DEF Paid
  <2> QED
    BY <2>2, <2>4, <2>6 DEF Budget
<1> QED
  BY <1>1, <1>5, <1>6, <1>7, <1>8, <1>9 DEF IInv, Good

\* ATTACH_STATE and the end of the hydration pump.
LEMMA OpenInv ==
  ASSUME IInv, NEW u, plane.stream # None,
         \/ u = [plane EXCEPT !.attached = TRUE]
         \/ plane.attached /\ ~plane.hydrated /\ u = [plane EXCEPT !.hydrated = TRUE],
         Leave(Pump(At(u))), UNCHANGED <<frames, answered>>
  PROVE  IInv'
<1> DEFINE t == Pump([p |-> u, ops |-> ops])
<1>1. plane' = t.p /\ ops' = t.ops /\ frames' = frames /\ answered' = answered
  BY DEF Leave, At
<1>2. plane \in Planes /\ Routed(plane) /\ Good(plane, ops, <<>>, {}, frames, answered)
  BY Planar
<1>3. Good(u, ops, <<>>, {}, frames, answered)
  <2>1. u \in Planes
    BY <1>2, ZenonT(40) DEF Planes
  <2>2. SameRoute(plane, u) /\ SameCounts(plane, u)
    BY <1>2, <2>1, ZenonT(40) DEF Planes, SameRoute, SameCounts, Routed
  <2>3. /\ u.desired = plane.desired /\ u.sentGeometry = plane.sentGeometry
        /\ u.typed = plane.typed /\ u.resizes = plane.resizes /\ u.resyncs = plane.resyncs
        /\ \/ u.attached /\ u.hydrated = plane.hydrated
           \/ u.attached = plane.attached /\ plane.attached /\ ~plane.hydrated /\ u.hydrated
    BY <1>2, ZenonT(40) DEF Planes
  <2>4. Budget(plane, ops, <<>>) /\ ops \in Made
    BY Planar
  <2>5. Bounded(u) /\ Asked(u) = Asked(plane)
    BY <2>2, <2>3, <2>4 DEF Budget, Bounded, Asked, SameRoute, SameCounts
  <2>6. Due(u, <<>>) => Due(plane, <<>>)
    <3>1. Waits(u, <<>>) <=> Waits(plane, <<>>)
      BY <2>2 DEF Waits, SameRoute, SameCounts
    <3> QED
      BY <2>2, <2>3, <3>1 DEF Due, SameRoute
  <2>7. Budget(u, ops, <<>>)
    BY <1>2, <2>1, <2>2, <2>4, <2>5, <2>6, Repaid DEF SameRoute, SameCounts
  <2> QED
    BY <1>2, <2>2, <2>7, MinorGood
<1>4. Good(t.p, t.ops, <<>>, {}, frames, answered) /\ Pumped(t.p, t.ops)
  BY <1>3, PumpGood
<1> QED
  BY <1>1, <1>4 DEF IInv

LEMMA ReceiveAttachedInv == IInv /\ ReceiveAttached => IInv'
  BY OpenInv DEF ReceiveAttached, WireRests

LEMMA CompleteHydrationInv == IInv /\ CompleteHydration => IInv'
<1> SUFFICES ASSUME IInv, CompleteHydration PROVE IInv'
  OBVIOUS
<1>1. plane.stream # None
  BY Planar DEF CompleteHydration, Routed
<1> QED
  BY <1>1, OpenInv DEF CompleteHydration, WireRests

LEMMA ReceiveRouteResyncInv == IInv /\ ReceiveRouteResync => IInv'
<1> SUFFICES ASSUME IInv, ReceiveRouteResync PROVE IInv'
  OBVIOUS
<1> DEFINE v == WithoutConsent(plane)
           n == v.resyncs + 1
           u == [v EXCEPT !.hydrated = FALSE, !.resyncs = n]
<1>1. plane' = u /\ ops' = ops /\ frames' = frames /\ answered' = answered
  BY DEF ReceiveRouteResync, WireRests
<1>2. /\ Good(v, ops, <<>>, {}, frames, answered) /\ Pumped(v, ops)
  BY Planar, ConsentGood
<1> HIDE DEF v
<1>3. v \in Planes /\ Routed(v)
  BY <1>2 DEF Good, Flow
<1>4. n \in Nat
  BY <1>3, PlaneOf
<1>5. u \in Planes
  <2> HIDE DEF n
  <2> QED
    BY <1>3, <1>4, Zenon DEF Planes
<1>6. /\ SameRoute(v, u) /\ SameCounts(v, u) /\ ~u.hydrated /\ u.attached = v.attached
      /\ u.detached = v.detached /\ u.desired = v.desired /\ u.sentGeometry = v.sentGeometry
      /\ u.typed = v.typed /\ u.resizes = v.resizes /\ u.resyncs = n
  BY <1>3, <1>5, Zenon DEF Planes, SameRoute, SameCounts, Routed
<1> HIDE DEF u
<1>7. Good(u, ops, <<>>, {}, frames, answered)
  <2>1. Budget(v, ops, <<>>) /\ ops \in Made
    BY <1>2 DEF Good, Flow
  <2>2. v.resyncs < MaxResync /\ MaxResync \in Nat /\ v.resyncs \in Nat
    <3>1. v.resyncs = plane.resyncs
      BY Planar, ViewFields DEF v
    <3> QED
      BY <1>3, <3>1, PlaneOf, ConstantsAssumption DEF ReceiveRouteResync
  <2>3. Bounded(u)
    BY <1>6, <2>1, <2>2 DEF Budget, Bounded, SameCounts
  <2>4. Asked(u) = Asked(v) + 1
    <3>1. v.typed \in Nat /\ v.resizes \in Nat /\ v.last \in Nat /\ u.last = v.last
      BY <1>3, <1>6, PlaneOf DEF SameRoute
    <3> QED
      BY <1>6, <2>2, <3>1 DEF Asked
  <2>5. Budget(u, ops, <<>>)
    BY <1>3, <1>5, <1>6, <2>1, <2>3, <2>4, Repaid DEF SameRoute, SameCounts
  <2> QED
    BY <1>2, <1>6, <2>5, MinorGood
<1>8. Pumped(u, ops)
  BY <1>2, <1>6 DEF Pumped, CanSend, SameCounts
<1> QED
  BY <1>1, <1>7, <1>8 DEF IInv

-----------------------------------------------------------------------------
(* The actions of the send chain and of Core.                              *)

\* What leaving the chain and starting the head leave alone.
Quiet(p, u) ==
  /\ SameCounts(p, u) /\ u.attached = p.attached /\ u.detached = p.detached
  /\ u.hydrated = p.hydrated /\ u.desired = p.desired
  /\ u.typed = p.typed /\ u.resizes = p.resizes /\ u.resyncs = p.resyncs

LEMMA ShiftedFields ==
  ASSUME NEW p \in Planes, NEW a \in Attachments, p.chain[a] # <<>>
  PROVE  Shifts(p, Shifted(p, a), a) /\ Quiet(p, Shifted(p, a))
         /\ Shifted(p, a).sentGeometry = p.sentGeometry
<1> DEFINE c == Tail(p.chain[a])
           ch == [p.chain EXCEPT ![a] = c]
           se == [p.sent EXCEPT ![a] = -1]
           u == [p EXCEPT !.chain = ch, !.sent = se]
<1>1. p.chain \in [Attachments -> Seq(Nat)] /\ p.sent \in [Attachments -> Int]
  BY Zenon DEF Planes
<1>2. c \in Seq(Nat)
  BY <1>1, TailOf
<1>3. ch \in [Attachments -> Seq(Nat)] /\ se \in [Attachments -> Int]
  <2> HIDE DEF c
  <2> QED
    BY <1>1, <1>2
<1>4. Shifted(p, a) = u
  BY DEF Shifted
<1>5. u \in Planes
  <2> HIDE DEF ch, se
  <2> QED
    BY <1>3, Zenon DEF Planes
<1>6. /\ u.chain = ch /\ u.sent = se
      /\ u.stream = p.stream /\ u.last = p.last /\ u.attached = p.attached
      /\ u.nextId = p.nextId /\ u.queue = p.queue /\ u.queuedBytes = p.queuedBytes
      /\ u.inflightBytes = p.inflightBytes /\ u.geometryOp = p.geometryOp
      /\ u.consent = p.consent /\ u.consentBytes = p.consentBytes /\ u.attempt = p.attempt
      /\ u.detached = p.detached /\ u.hydrated = p.hydrated /\ u.desired = p.desired
      /\ u.sentGeometry = p.sentGeometry
      /\ u.typed = p.typed /\ u.resizes = p.resizes /\ u.resyncs = p.resyncs
  <2> HIDE DEF ch, se
  <2> QED
    BY DEF Planes
<1> HIDE DEF u
<1> QED
  BY <1>4, <1>5, <1>6 DEF Shifts, Quiet, SameCounts

\* The count of the frames of the head, with the geometry last sent.
Counts(p, u, a, n, z) ==
  \/ u = [p EXCEPT !.sent[a] = n] /\ z = p.sentGeometry
  \/ u = [[p EXCEPT !.sent[a] = n] EXCEPT !.sentGeometry = z]

Sends(p, u, a, n, z) ==
  /\ u \in Planes /\ u.stream = p.stream /\ u.last = p.last /\ u.attached = p.attached
  /\ u.nextId = p.nextId /\ u.chain = p.chain /\ u.sent = [p.sent EXCEPT ![a] = n]
  /\ u.sentGeometry = z /\ Quiet(p, u)

LEMMA SentFields ==
  ASSUME NEW p \in Planes, NEW a \in Attachments, NEW n \in Int, NEW z \in Nat, NEW u,
         Counts(p, u, a, n, z)
  PROVE  Sends(p, u, a, n, z)
<1> DEFINE se == [p.sent EXCEPT ![a] = n]
           v == [p EXCEPT !.sent = se, !.sentGeometry = z]
<1>1. se \in [Attachments -> Int]
  BY DEF Planes
<1>2. u = v
  <2>1. ASSUME u = [p EXCEPT !.sent[a] = n], z = p.sentGeometry PROVE u = v
    <3>1. u = [p EXCEPT !.sent = se]
      BY <2>1
    <3> HIDE DEF se
    <3> QED
      BY <2>1, <3>1, Zenon DEF Planes
  <2>2. ASSUME u = [[p EXCEPT !.sent[a] = n] EXCEPT !.sentGeometry = z] PROVE u = v
    <3>1. u = [[p EXCEPT !.sent = se] EXCEPT !.sentGeometry = z]
      BY <2>2
    <3> HIDE DEF se
    <3> QED
      BY <3>1 DEF Planes
  <2> QED
    BY <2>1, <2>2 DEF Counts
<1> HIDE DEF se
<1>3. v \in Planes
  BY <1>1, Zenon DEF Planes
<1>4. /\ v.sent = se /\ v.sentGeometry = z /\ v.chain = p.chain
      /\ v.stream = p.stream /\ v.last = p.last /\ v.attached = p.attached
      /\ v.nextId = p.nextId /\ v.queue = p.queue /\ v.queuedBytes = p.queuedBytes
      /\ v.inflightBytes = p.inflightBytes /\ v.geometryOp = p.geometryOp
      /\ v.consent = p.consent /\ v.consentBytes = p.consentBytes /\ v.attempt = p.attempt
      /\ v.detached = p.detached /\ v.hydrated = p.hydrated /\ v.desired = p.desired
      /\ v.typed = p.typed /\ v.resizes = p.resizes /\ v.resyncs = p.resyncs
  BY DEF Planes
<1> HIDE DEF v
<1> QED
  BY <1>2, <1>3, <1>4 DEF Sends, Quiet, SameCounts, se

\* The chain takes part in the budget only through the operation that waits.
LEMMA QuietBudget ==
  ASSUME IInv, NEW u \in Planes, Quiet(plane, u), u.last = plane.last, u.nextId = plane.nextId,
         u.sentGeometry \in {plane.sentGeometry, plane.desired},
         Due(u, <<>>) => Due(plane, <<>>)
  PROVE  Budget(u, ops, <<>>)
<1>1. plane \in Planes /\ ops \in Made /\ Budget(plane, ops, <<>>)
  BY Planar
<1>2. Bounded(u) /\ Asked(u) = Asked(plane)
  BY <1>1 DEF Budget, Bounded, Asked, Quiet, SameCounts
<1> QED
  BY <1>1, <1>2, Repaid DEF Quiet, SameCounts

\* The head of a chain that is not the stream's leaves it, and nothing settles.
LEMMA PastInv ==
  ASSUME IInv, NEW a \in Attachments, a # plane.stream, plane.chain[a] # <<>>,
         Leave(Settle(At(Shifted(plane, a)), Head(plane.chain[a]), "cancelled")),
         frames' = frames, answered' = answered
  PROVE  IInv'
<1> DEFINE u == Shifted(plane, a)
           o == Head(plane.chain[a])
           s == [p |-> u, ops |-> ops]
<1>1. /\ plane \in Planes /\ Good(plane, ops, <<>>, {}, frames, answered)
      /\ Flow(plane, ops, {}, frames, answered) /\ Pumped(plane, ops)
  BY Planar DEF Good
<1>2. Shifts(plane, u, a) /\ Quiet(plane, u) /\ u.sentGeometry = plane.sentGeometry
  BY <1>1, ShiftedFields
<1>3. o \notin Inflight(s)
  <2>1. o = plane.chain[a][1] /\ 1 \in DOMAIN plane.chain[a]
    BY <1>1, PlaneOf, TailOf, NatOf
  <2>2. o \in DOMAIN ops /\ ops[o].gen = a
    BY <1>1, <2>1 DEF Flow, Chained, ChainOf
  <2>3. ops[o].status # "inflight"
    BY <1>1, <2>2 DEF Flow, Named
  <2> QED
    BY <2>3 DEF Inflight
<1>4. Settle(s, o, "cancelled") = s
  BY <1>3 DEF Settle
<1>5. plane' = u /\ ops' = ops
  BY <1>4 DEF Leave, At
<1> HIDE DEF u
<1>6. Flow(u, ops, {}, frames, answered)
  BY <1>1, <1>2, ShiftPast
<1>7. Good(u, ops, <<>>, {}, frames, answered)
  <2>1. plane.stream # None => plane.stream \in Attachments
    BY <1>1, Planar, PlaneOf, Numbers DEF Routed, Attachments
  <2>2. /\ plane.stream # None => u.chain[u.stream] = plane.chain[plane.stream]
        /\ plane.stream # None => u.sent[u.stream] = plane.sent[plane.stream]
        /\ u.stream = plane.stream
    BY <1>1, <1>2, <2>1, PlaneOf DEF Shifts
  <2>3. Due(u, <<>>) => Due(plane, <<>>)
    BY <1>2, <2>2 DEF Due, Waits, Quiet, SameCounts
  <2>4. Budget(u, ops, <<>>)
    BY <1>2, <2>3, QuietBudget DEF Shifts
  <2> QED
    BY <1>1, <1>2, <1>6, <2>4, CountsGood DEF Quiet
<1>8. Pumped(u, ops)
  BY <1>1, <1>2 DEF Pumped, CanSend, Quiet, SameCounts
<1> QED
  BY <1>5, <1>7, <1>8 DEF IInv

\* Of the chain of the stream only the head stops waiting when the head leaves.
LEMMA HeadBudget ==
  ASSUME IInv, NEW a \in Attachments, a = plane.stream, plane.chain[a] # <<>>,
         NEW u, Shifts(plane, u, a), Quiet(plane, u), u.sentGeometry = plane.sentGeometry,
         \/ plane.sent[a] >= 0 \/ plane.chain[a][1] # plane.geometryOp
         \/ ~plane.hydrated \/ plane.desired = plane.sentGeometry
  PROVE  Budget(u, ops, <<>>)
<1> DEFINE c == plane.chain[a]
           e == Tail(c)
           n == plane.sent[a]
           g == plane.geometryOp
<1>1. plane \in Planes /\ Chained(plane, ops) /\ Routed(plane) /\ a # None
  BY Planar, Numbers DEF Good, Flow
<1>2. c \in Seq(Nat) /\ c # <<>> /\ n \in Int
  BY <1>1, PlaneOf
<1>3. \A i, j \in DOMAIN c : i < j => c[i] # c[j]
  BY <1>1 DEF Chained, Live
<1>4. u.chain[u.stream] = e /\ u.sent[u.stream] = -1 /\ u.geometryOp = g /\ u.stream = a
  BY <1>1, PlaneOf DEF Shifts, Quiet, SameCounts
<1>5. /\ DOMAIN c = 1 .. Len(c) /\ Len(c) \in Nat /\ Len(c) > 0
      /\ DOMAIN e = 1 .. Len(c) - 1 /\ \A i \in 1 .. Len(c) - 1 : e[i] = c[i + 1]
  BY <1>2
<1>6. Waits(u, <<>>) <=> g # None /\ \E i \in DOMAIN e : e[i] = g
  BY <1>4, Lines DEF Waits
<1>7. Waits(plane, <<>>) <=> g # None /\ \E i \in DOMAIN c : c[i] = g /\ (i > 1 \/ n = -1)
  BY Lines DEF Waits
<1> HIDE DEF c, e, n, g
<1>8. ASSUME Waits(u, <<>>) PROVE Waits(plane, <<>>)
  <2>1. PICK i \in 1 .. Len(c) - 1 : e[i] = g
    BY <1>5, <1>6, <1>8
  <2>2. i + 1 \in DOMAIN c /\ c[i + 1] = g /\ i + 1 > 1
    BY <1>5, <2>1
  <2> QED
    BY <1>6, <1>7, <1>8, <2>2
<1>9. ASSUME Waits(plane, <<>>), ~Waits(u, <<>>) PROVE c[1] = g /\ n = -1
  <2>1. PICK i \in 1 .. Len(c) : c[i] = g /\ (i > 1 \/ n = -1)
    BY <1>5, <1>7, <1>9
  <2>2. ~(i > 1)
    <3>1. SUFFICES ASSUME i > 1 PROVE FALSE
      OBVIOUS
    <3>2. i - 1 \in DOMAIN e /\ i - 1 + 1 = i
      BY <1>5, <3>1
    <3>3. e[i - 1] = g
      BY <1>5, <2>1, <3>2
    <3> QED
      BY <1>6, <1>7, <1>9, <3>2, <3>3
  <2>3. i = 1
    BY <1>5, <2>2
  <2> QED
    BY <2>1, <2>2, <2>3
<1>10. Due(u, <<>>) => Due(plane, <<>>)
  <2>1. /\ u.hydrated = plane.hydrated /\ u.desired = plane.desired
        /\ u.sentGeometry = plane.sentGeometry /\ u.stream = plane.stream
    BY <1>4 DEF Quiet
  <2>2. CASE Waits(u, <<>>) <=> Waits(plane, <<>>)
    BY <2>1, <2>2 DEF Due
  <2>3. CASE ~Waits(u, <<>>) /\ Waits(plane, <<>>)
    <3>1. ~plane.hydrated \/ plane.desired = plane.sentGeometry
      BY <1>9, <2>3 DEF c, n, g
    <3> QED
      BY <2>1, <2>3, <3>1 DEF Due
  <2> QED
    BY <1>8, <2>2, <2>3
<1> QED
  BY <1>10, QuietBudget DEF Shifts

\* The head of the stream's chain leaves it; it is in flight until it settles.
LEMMA HeadGood ==
  ASSUME IInv, NEW a \in Attachments, a = plane.stream, NEW c, c = plane.chain[a], c # <<>>, NEW g,
         \/ plane.sent[a] >= 0 \/ c[1] # plane.geometryOp
         \/ ~plane.hydrated \/ plane.desired = plane.sentGeometry,
         g \in Sent, Framed(ops, g), Ordered(ops, g),
         \A o : o # c[1] => (Writes(g, ops, o) <=> Writes(frames, ops, o)),
         Writes(frames, ops, c[1]) => Writes(g, ops, c[1]),
         \A i \in DOMAIN g : (i \in DOMAIN frames /\ g[i] = frames[i]) \/ g[i].o = c[1]
  PROVE  /\ Good(Shifted(plane, a), ops, <<>>, {c[1]}, g, answered)
         /\ Flow(Shifted(plane, a), ops, {c[1]}, g, answered)
         /\ c[1] \in InflightOf(ops) /\ c[1] # None
         /\ ~Line(Shifted(plane, a).chain[Shifted(plane, a).stream], c[1])
         /\ ~Writes(frames, ops, c[1]) /\ c[1] \notin answered
         /\ Quiet(plane, Shifted(plane, a))
         /\ Shifted(plane, a).sentGeometry = plane.sentGeometry
<1> DEFINE u == Shifted(plane, a)
<1>1. /\ plane \in Planes /\ Good(plane, ops, <<>>, {}, frames, answered)
      /\ Flow(plane, ops, {}, frames, answered)
  BY Planar DEF Good
<1>2. Shifts(plane, u, a) /\ Quiet(plane, u) /\ u.sentGeometry = plane.sentGeometry
  BY <1>1, ShiftedFields
<1>3. plane.stream # None
  BY Numbers
<1> HIDE DEF u
<1>4. /\ Flow(u, ops, {c[1]}, g, answered)
      /\ c[1] \in DOMAIN ops /\ ops[c[1]].status = "inflight"
      /\ c[1] # None /\ ~Line(u.chain[u.stream], c[1]) /\ ~Writes(frames, ops, c[1])
      /\ c[1] \notin answered
  <2>1. Shifts(plane, u, plane.stream) /\ c = plane.chain[plane.stream]
    BY <1>2
  <2> QED
    <3>1. Flow(u, ops, {c[1]}, g, answered)
      BY <1>1, <1>3, <2>1, ShiftHead
    <3>2. c[1] \in DOMAIN ops /\ ops[c[1]].status = "inflight" /\ c[1] # None
      BY <1>1, <1>3, <2>1, ShiftHead, ZenonT(40)
    <3>3. ~Writes(frames, ops, c[1])
      BY <1>1, <1>3, <2>1, ShiftHead, Zenon
    <3>5. Headless(u, c[1])
      BY <1>1, <1>3, <2>1, ShiftHead, ZenonT(40)
    <3>4. c[1] \notin answered
      BY <1>1, <1>3, <2>1, ShiftHead, ZenonT(40)
    <3> QED
      BY <3>1, <3>2, <3>3, <3>4, <3>5 DEF Headless
<1>5. Good(u, ops, <<>>, {c[1]}, g, answered)
  <2>1. Budget(u, ops, <<>>)
    BY <1>2, HeadBudget
  <2> QED
    BY <1>1, <1>2, <1>4, <2>1, CountsGood DEF Quiet
<1> QED
  BY <1>2, <1>4, <1>5 DEF InflightOf, u

LEMMA StartSendInv == ASSUME NEW a \in Attachments PROVE IInv /\ StartSend(a) => IInv'
<1> SUFFICES ASSUME IInv, StartSend(a) PROVE IInv'
  OBVIOUS
<1> DEFINE c == plane.chain[a]
           o == Head(c)
           started == [plane EXCEPT !.sent[a] = 0]
<1>1. /\ plane \in Planes /\ Good(plane, ops, <<>>, {}, frames, answered)
      /\ Flow(plane, ops, {}, frames, answered) /\ Pumped(plane, ops) /\ ops \in Made
  BY Planar DEF Good
<1>2. c # <<>> /\ plane.sent[a] = -1 /\ frames' = frames /\ answered' = answered
  BY DEF StartSend, WireRests
<1>3. c \in Seq(Nat) /\ o = c[1]
  BY <1>1, <1>2, PlaneOf, TailOf
<1>4. ASSUME NEW u, NEW z \in {plane.sentGeometry, plane.desired}, plane' = u, ops' = ops,
             Counts(plane, u, a, 0, z), a = plane.stream,
             \/ z = plane.sentGeometry /\ o # plane.geometryOp
             \/ z = plane.desired /\ o = plane.geometryOp
      PROVE  IInv'
  <2>0. z \in Nat /\ 0 \in Int
    BY <1>1, PlaneOf
  <2>1. /\ u \in Planes /\ u.stream = plane.stream /\ u.last = plane.last
        /\ u.attached = plane.attached /\ u.nextId = plane.nextId /\ u.chain = plane.chain
        /\ u.sent = [plane.sent EXCEPT ![a] = 0] /\ u.sentGeometry = z /\ Quiet(plane, u)
    <3>1. Sends(plane, u, a, 0, z)
      BY <1>1, <1>4, <2>0, SentFields
    <3> QED
      BY <3>1 DEF Sends
  <2>2. Flow(u, ops, {}, frames, answered)
    BY <1>1, <1>2, <2>1, StartFlow
  <2>3. Good(u, ops, <<>>, {}, frames, answered)
    <3> DEFINE g == plane.geometryOp
    <3>1. /\ u.chain[u.stream] = c /\ u.sent[u.stream] = 0 /\ u.geometryOp = g /\ u.stream = a
      BY <1>1, <1>4, <2>1, PlaneOf DEF Quiet, SameCounts
    <3>2. /\ DOMAIN c = 1 .. Len(c) /\ Len(c) \in Nat /\ Len(c) > 0
      BY <1>2, <1>3
    <3>3. Waits(u, <<>>) <=> g # None /\ \E i \in DOMAIN c : c[i] = g /\ i > 1
      <4>1. Waits(u, <<>>) <=> g # None /\ \E i \in DOMAIN c : c[i] = g /\ (i > 1 \/ 0 = -1)
        BY <3>1, Lines DEF Waits
      <4> QED
        BY <4>1
    <3>4. Waits(plane, <<>>) <=> g # None /\ \E i \in DOMAIN c : c[i] = g
      <4>1. Waits(plane, <<>>) <=> g # None /\ \E i \in DOMAIN c : c[i] = g /\ (i > 1 \/ -1 = -1)
        BY <1>2, <1>4, Lines DEF Waits
      <4> QED
        BY <4>1
    <3>5. /\ u.hydrated = plane.hydrated /\ u.desired = plane.desired /\ u.sentGeometry = z
      BY <2>1 DEF Quiet
    <3>6. Due(u, <<>>) => Due(plane, <<>>)
      <4>1. CASE z = plane.sentGeometry /\ o # g
        <5>1. Waits(u, <<>>) <=> Waits(plane, <<>>)
          <6> HIDE DEF c, o, g
          <6>1. ASSUME NEW i \in DOMAIN c, c[i] = g PROVE i > 1
            BY <1>3, <3>2, <4>1, <6>1
          <6> QED
            BY <3>3, <3>4, <6>1
        <5> QED
          BY <1>4, <3>1, <3>5, <4>1, <5>1 DEF Due
      <4>2. CASE z = plane.desired /\ o = g
        <5>1. ~Waits(u, <<>>)
          <6>1. \A i, j \in DOMAIN c : i < j => c[i] # c[j]
            BY <1>1, <1>4, Numbers DEF Flow, Chained, Live
          <6> HIDE DEF c, o, g
          <6>2. ASSUME NEW i \in DOMAIN c, c[i] = g PROVE ~(i > 1)
            <7>1. c[1] = g /\ 1 \in DOMAIN c
              BY <1>3, <3>2, <4>2 DEF g
            <7> QED
              BY <6>1, <6>2, <7>1
          <6> QED
            BY <3>3, <6>2
        <5> QED
          BY <3>5, <4>2, <5>1 DEF Due
      <4> QED
        BY <1>4, <4>1, <4>2
    <3>7. Budget(u, ops, <<>>)
      BY <2>1, <3>6, QuietBudget
    <3> QED
      BY <1>1, <2>1, <2>2, <3>7, CountsGood DEF Quiet
  <2>5. Pumped(u, ops)
    BY <1>1, <2>1 DEF Pumped, CanSend, Quiet, SameCounts
  <2> QED
    BY <1>2, <1>4, <2>3, <2>5 DEF IInv
<1>5. CASE a # plane.stream
  <2>1. Leave(Settle(At(Shifted(plane, a)), o, "cancelled"))
    BY <1>5 DEF StartSend, IsCurrent
  <2> QED
    BY <1>2, <1>5, <2>1, PastInv
<1>6. CASE a = plane.stream /\ o # plane.geometryOp
  <2>1. Leave(At(started))
    BY <1>6 DEF StartSend, IsCurrent
  <2>2. plane' = started /\ ops' = ops
    BY <2>1 DEF Leave, At
  <2>3. Counts(plane, started, a, 0, plane.sentGeometry)
    BY DEF Counts
  <2> QED
    BY <1>4, <1>6, <2>2, <2>3
<1>7. CASE a = plane.stream /\ o = plane.geometryOp
           /\ (~plane.hydrated \/ plane.desired = plane.sentGeometry)
  <2> DEFINE u == Shifted(plane, a)
             t == ReleaseUnsent([p |-> u, ops |-> ops], o)
  <2>1. Leave(ReleaseUnsent(At(Shifted(plane, a)), o))
    BY <1>7 DEF StartSend, IsCurrent
  <2>2. plane' = t.p /\ ops' = t.ops
    BY <2>1 DEF Leave, At
  <2>3. /\ frames \in Sent /\ Framed(ops, frames) /\ Ordered(ops, frames)
    BY <1>1 DEF Flow, Wired
  <2>4. /\ Good(u, ops, <<>>, {o}, frames, answered) /\ o \in InflightOf(ops)
        /\ ~Line(u.chain[u.stream], o) /\ ~Writes(frames, ops, o)
    <3> HIDE DEF c, o
    <3> QED
      BY <1>2, <1>3, <1>7, <2>3, HeadGood, Zenon DEF c
  <2> HIDE DEF u, o
  <2>5. Good(t.p, t.ops, <<>>, {}, frames, answered) /\ Pumped(t.p, t.ops)
    BY <2>4, ReleaseGood
  <2> QED
    BY <1>2, <2>2, <2>5 DEF IInv
<1>8. CASE a = plane.stream /\ o = plane.geometryOp
           /\ ~(~plane.hydrated \/ plane.desired = plane.sentGeometry)
  <2>1. Leave(At([started EXCEPT !.sentGeometry = plane.desired]))
    BY <1>8 DEF StartSend, IsCurrent
  <2>2. plane' = [started EXCEPT !.sentGeometry = plane.desired] /\ ops' = ops
    BY <2>1 DEF Leave, At
  <2>3. Counts(plane, [started EXCEPT !.sentGeometry = plane.desired], a, 0, plane.desired)
    BY DEF Counts
  <2> QED
    BY <1>4, <1>8, <2>2, <2>3
<1> QED
  BY <1>5, <1>6, <1>7, <1>8

\* The chain whose head has started is not empty.
LEMMA Started ==
  ASSUME IInv, NEW a \in Attachments, plane.sent[a] >= 0
  PROVE  /\ plane.chain[a] # <<>> /\ plane.chain[a] \in Seq(Nat)
         /\ Head(plane.chain[a]) = plane.chain[a][1] /\ plane.chain[a][1] \in Nat
         /\ plane.sent[a] \in Nat
<1>1. plane \in Planes /\ Chained(plane, ops)
  BY Planar DEF Good, Flow
<1>2. plane.chain[a] # <<>>
  BY <1>1 DEF Chained, ChainOf
<1> QED
  BY <1>1, <1>2, PlaneOf, TailOf, NatOf

\* The frames stay as they are.
LEMMA SameFrames ==
  ASSUME IInv
  PROVE  /\ frames \in Sent /\ Framed(ops, frames) /\ Ordered(ops, frames)
         /\ plane \in Planes /\ ops \in Made /\ Good(plane, ops, <<>>, {}, frames, answered)
         /\ Flow(plane, ops, {}, frames, answered) /\ Pumped(plane, ops)
  BY Planar DEF Good, Flow, Wired

LEMMA SendFrameInv == ASSUME NEW a \in Attachments PROVE IInv /\ SendFrame(a) => IInv'
<1> SUFFICES ASSUME IInv, SendFrame(a) PROVE IInv'
  OBVIOUS
<1> DEFINE c == plane.chain[a]
           n == plane.sent[a]
           g == Append(frames, [a |-> a, o |-> c[1], part |-> n + 1])
           u == IF n + 1 = Frames(ops[c[1]].kind) THEN Shifted(plane, a)
                ELSE [plane EXCEPT !.sent[a] = n + 1]
<1>1. /\ frames \in Sent /\ Framed(ops, frames) /\ Ordered(ops, frames)
      /\ plane \in Planes /\ ops \in Made /\ Good(plane, ops, <<>>, {}, frames, answered)
      /\ Flow(plane, ops, {}, frames, answered) /\ Pumped(plane, ops)
  BY SameFrames
<1>2. n >= 0 /\ a = plane.stream /\ answered' = answered /\ plane.stream # None
  BY Numbers DEF SendFrame, IsCurrent
<1>3. c # <<>> /\ c \in Seq(Nat) /\ Head(c) = c[1] /\ c[1] \in Nat /\ n \in Nat /\ a \in Nat
  BY <1>2, Started, Numbers
<1>4. frames' = g /\ plane' = u /\ ops' = ops
  <2>1. frames' = Append(frames, [a |-> a, o |-> Head(c), part |-> n + 1])
    BY DEF SendFrame
  <2>2. Leave(At(IF n + 1 = Frames(ops[Head(c)].kind) THEN Shifted(plane, a)
                 ELSE [plane EXCEPT !.sent[a] = n + 1]))
    BY DEF SendFrame
  <2> QED
    BY <1>3, <2>1, <2>2 DEF Leave, At
<1>5. c = plane.chain[plane.stream] /\ n = plane.sent[plane.stream]
  BY <1>2
<1>6. Adds(frames, g, c, n + 1)
  <2> HIDE DEF c, n
  <2>1. n + 1 \in Nat
    BY <1>3
  <2> QED
    BY <1>1, <1>3, <2>1, AddsFrame
<1> HIDE DEF c, n, g
<1>7. Framing(ops, frames, g, c, n + 1)
  BY <1>1, <1>2, <1>5, <1>6, FrameAdded, Zenon
<1>8. g \in Sent
  BY <1>6 DEF Adds
<1>9. CASE n + 1 = Frames(ops[c[1]].kind)
  <2> DEFINE v == Shifted(plane, a)
  <2>1. plane' = v
    BY <1>4, <1>9
  <2>2. Writes(g, ops, c[1])
    BY <1>7, <1>9 DEF Framing
  <2>3. /\ Framed(ops, g) /\ Ordered(ops, g)
        /\ \A o : o # c[1] => (Writes(g, ops, o) <=> Writes(frames, ops, o))
        /\ \A i \in DOMAIN g : (i \in DOMAIN frames /\ g[i] = frames[i]) \/ g[i].o = c[1]
    BY <1>7 DEF Framing
  <2>4. /\ Good(v, ops, <<>>, {c[1]}, g, answered) /\ Flow(v, ops, {c[1]}, g, answered)
        /\ c[1] \notin answered /\ Quiet(plane, v) /\ v.sentGeometry = plane.sentGeometry
    <3>1. c = plane.chain[a]
      BY DEF c
    <3>2. plane.sent[a] >= 0
      BY <1>2 DEF n
    <3> QED
      BY <1>2, <1>3, <1>8, <2>2, <2>3, <3>1, <3>2, HeadGood, Zenon
  <2> HIDE DEF v
  <2>5. Flow(v, ops, {}, g, answered)
    BY <2>2, <2>4, FinishFlow
  <2>6. SameCounts(v, v)
    BY DEF SameCounts
  <2>7. Good(v, ops, <<>>, {}, g, answered)
    <3>1. Budget(v, ops, <<>>)
      BY <2>4 DEF Good
    <3> QED
      BY <2>4, <2>5, <2>6, <3>1, CountsGood
  <2>8. Pumped(v, ops)
    BY <1>1, <2>4 DEF Pumped, CanSend, Quiet, SameCounts
  <2> QED
    BY <1>2, <1>4, <2>1, <2>7, <2>8 DEF IInv
<1>10. CASE n + 1 # Frames(ops[c[1]].kind)
  <2> DEFINE v == [plane EXCEPT !.sent[a] = n + 1]
  <2>1. plane' = v
    BY <1>4, <1>10
  <2>2. Counts(plane, v, a, n + 1, plane.sentGeometry)
    BY DEF Counts
  <2>3. n + 1 \in Int /\ plane.sentGeometry \in Nat
    BY <1>1, <1>3, PlaneOf
  <2> HIDE DEF v
  <2>4. Sends(plane, v, a, n + 1, plane.sentGeometry)
    BY <1>1, <2>2, <2>3, SentFields
  <2>5. /\ v \in Planes /\ v.stream = plane.stream /\ v.last = plane.last
        /\ v.attached = plane.attached /\ v.nextId = plane.nextId /\ v.chain = plane.chain
        /\ v.sent = [plane.sent EXCEPT ![plane.stream] = n + 1]
    BY <1>2, <2>4 DEF Sends
  <2>6. Flow(v, ops, {}, g, answered)
    BY <1>1, <1>2, <1>5, <1>6, <1>10, <2>5, SendFlow
  <2>7. Good(v, ops, <<>>, {}, g, answered)
    <3>1. /\ v.chain[v.stream] = c /\ v.sent[v.stream] = n + 1 /\ v.stream = plane.stream
          /\ v.geometryOp = plane.geometryOp /\ v.hydrated = plane.hydrated
          /\ v.desired = plane.desired /\ v.sentGeometry = plane.sentGeometry
      BY <1>1, <1>2, <1>5, <2>4, <2>5, PlaneOf DEF Sends, Quiet, SameCounts
    <3>2. n # -1 /\ n + 1 # -1
      BY <1>3
    <3>3. Waits(v, <<>>) <=> Waits(plane, <<>>)
      BY <1>5, <3>1, <3>2 DEF Waits
    <3>4. Due(v, <<>>) => Due(plane, <<>>)
      BY <3>1, <3>3 DEF Due
    <3>5. Budget(v, ops, <<>>)
      BY <2>4, <3>4, QuietBudget DEF Sends
    <3> QED
      BY <1>1, <2>4, <2>6, <3>5, CountsGood DEF Sends, Quiet
  <2>8. Pumped(v, ops)
    BY <1>1, <2>4 DEF Pumped, CanSend, Sends, Quiet, SameCounts
  <2> QED
    BY <1>2, <1>4, <2>1, <2>7, <2>8 DEF IInv
<1> QED
  BY <1>9, <1>10

LEMMA SendFailsInv == ASSUME NEW a \in Attachments PROVE IInv /\ SendFails(a) => IInv'
<1> SUFFICES ASSUME IInv, SendFails(a) PROVE IInv'
  OBVIOUS
<1> DEFINE c == plane.chain[a]
           n == plane.sent[a]
           v == Shifted(plane, a)
           t == Settle([p |-> v, ops |-> ops], c[1], "cancelled")
<1>1. /\ frames \in Sent /\ Framed(ops, frames) /\ Ordered(ops, frames)
      /\ plane \in Planes /\ ops \in Made /\ Good(plane, ops, <<>>, {}, frames, answered)
      /\ Flow(plane, ops, {}, frames, answered) /\ Pumped(plane, ops)
  BY SameFrames
<1>2. n >= 0 /\ answered' = answered
  BY DEF SendFails
<1>3. c # <<>> /\ c \in Seq(Nat) /\ Head(c) = c[1] /\ c[1] \in Nat /\ n \in Nat /\ a \in Nat
  BY <1>2, Started, Numbers
<1>4. Leave(Settle(At(v), Head(c), "cancelled"))
  BY DEF SendFails
<1>5. plane' = t.p /\ ops' = t.ops
  BY <1>3, <1>4 DEF Leave, At
<1>6. \/ n > 0 /\ a = plane.stream
         /\ frames' = Append(frames, [a |-> a, o |-> c[1], part |-> Abort])
      \/ ~(n > 0 /\ a = plane.stream) /\ frames' = frames
  BY <1>3 DEF SendFails, IsCurrent
<1>7. CASE a # plane.stream
  BY <1>2, <1>3, <1>4, <1>6, <1>7, PastInv
<1>8. CASE a = plane.stream
  <2>1. plane.stream # None /\ c = plane.chain[plane.stream] /\ n = plane.sent[plane.stream]
    BY <1>8, Numbers
  <2> HIDE DEF c, n
  <2>2. /\ frames' \in Sent /\ Framed(ops, frames') /\ Ordered(ops, frames')
        /\ \A o : Writes(frames', ops, o) <=> Writes(frames, ops, o)
        /\ \A i \in DOMAIN frames' : (i \in DOMAIN frames /\ frames'[i] = frames[i]) \/ frames'[i].o = c[1]
    <3>1. CASE frames' = frames
      BY <1>1, <3>1
    <3>2. CASE n > 0 /\ frames' = Append(frames, [a |-> a, o |-> c[1], part |-> Abort])
      <4>1. Abort \in Nat /\ \A kind : Abort # Frames(kind)
        BY Numbers
      <4>2. Adds(frames, frames', c, Abort)
        BY <1>1, <1>3, <3>2, <4>1, AddsFrame
      <4>3. Framing(ops, frames, frames', c, Abort)
        BY <1>1, <1>2, <2>1, <3>2, <4>2, FrameAdded, Zenon
      <4> QED
        BY <4>1, <4>2, <4>3 DEF Framing, Adds
    <3> QED
      BY <1>6, <1>8, <3>1, <3>2
  <2>3. /\ Good(v, ops, <<>>, {c[1]}, frames', answered) /\ c[1] \in InflightOf(ops)
        /\ ~Line(v.chain[v.stream], c[1]) /\ ~Writes(frames, ops, c[1])
    <3>1. c = plane.chain[a]
      BY DEF c
    <3>2. plane.sent[a] >= 0
      BY <1>2 DEF n
    <3> QED
      BY <1>3, <1>8, <2>2, <3>1, <3>2, HeadGood, Zenon
  <2> HIDE DEF v
  <2>4. "cancelled" \in OutcomeNames /\ ~Writes(frames', ops, c[1])
    BY <2>2, <2>3 DEF OutcomeNames
  <2>5. Good(t.p, t.ops, <<>>, {}, frames', answered) /\ Pumped(t.p, t.ops)
    BY <2>3, <2>4, SettleGood, Zenon
  <2> QED
    BY <1>2, <1>5, <2>5 DEF IInv
<1> QED
  BY <1>7, <1>8

\* A result is answered to an operation that is not in flight.
LEMMA AnswerFlow ==
  ASSUME NEW p, NEW m, NEW o, NEW f, NEW d, Flow(p, m, {}, f, d), o \in DOMAIN m,
         Writes(f, m, o), m[o].status # "inflight"
  PROVE  Flow(p, m, {}, f, d \cup {o})
  BY DEF Flow, Owed

\* What Core has whole is not in the chain of the stream.
LEMMA WrittenLeft ==
  ASSUME NEW p, NEW m, NEW o, NEW f, NEW d, Flow(p, m, {}, f, d), p.stream # None, Writes(f, m, o)
  PROVE  ~Line(p.chain[p.stream], o)
<1> DEFINE c == p.chain[p.stream]
           n == p.sent[p.stream]
<1>1. /\ p \in Planes /\ m \in Made /\ f \in Sent /\ Routed(p) /\ Chained(p, m) /\ OnWire(m, f, c, n)
  BY DEF Flow, Wired
<1>2. p.stream \in Attachments
  BY <1>1, Numbers, PlaneOf DEF Routed, Attachments
<1>3. ChainOf(m, p.stream, c, n) /\ n \in Int
  BY <1>1, <1>2, PlaneOf DEF Chained
<1> HIDE DEF c, n
<1>4. SUFFICES ASSUME Line(c, o) PROVE FALSE
  BY DEF c
<1>5. PICK i \in DOMAIN f : f[i].o = o /\ f[i].part = Frames(m[o].kind)
  BY DEF Writes
<1>6. PICK k \in DOMAIN c : c[k] = o
  BY <1>4 DEF Line
<1>7. c[1] = o /\ 0 < n /\ f[i].part <= n
  BY <1>1, <1>5, <1>6 DEF OnWire
<1>8. n < Frames(m[o].kind)
  BY <1>3, <1>7 DEF ChainOf
<1>9. Frames(m[o].kind) \in Nat
  BY Numbers
<1> QED
  BY <1>3, <1>5, <1>7, <1>8, <1>9

LEMMA InputResultInv == ASSUME NEW o \in DOMAIN ops PROVE IInv /\ InputResult(o) => IInv'
<1> SUFFICES ASSUME IInv, InputResult(o) PROVE IInv'
  OBVIOUS
<1> DEFINE s == [p |-> plane, ops |-> ops]
           e == answered \cup {o}
           matching == {y \in Inflight(s) : s.ops[y].id = ops[o].id}
<1>1. /\ plane \in Planes /\ ops \in Made /\ Good(plane, ops, <<>>, {}, frames, answered)
      /\ Flow(plane, ops, {}, frames, answered) /\ Pumped(plane, ops)
  BY SameFrames
<1>2. /\ Named(plane, ops) /\ Framed(ops, frames) /\ Inflight(s) = InflightOf(ops) /\ s = S
  BY <1>1, Planar DEF Flow, Wired
<1>3. Writes(frames, ops, o) /\ o \notin answered /\ answered' = e /\ frames' = frames
  BY DEF InputResult, Written, Writes
<1>4. PICK outcome \in Outcomes(ops[o].kind) :
        Leave(IF IsCurrent(plane, ops[o].gen) THEN HandleResult(S, ops[o].id, outcome) ELSE S)
  BY DEF InputResult
<1>5. ops[o].gen # None
  BY <1>2, <1>3 DEF Framed, Writes
<1>6. ASSUME plane' = plane, ops' = ops, ops[o].status # "inflight" PROVE IInv'
  <2>1. Flow(plane, ops, {}, frames, e)
    BY <1>1, <1>3, <1>6, AnswerFlow
  <2>2. SameCounts(plane, plane)
    BY DEF SameCounts
  <2>3. Good(plane, ops, <<>>, {}, frames, e)
    BY <1>1, <2>1, <2>2, CountsGood DEF Good
  <2> QED
    BY <1>1, <1>3, <1>6, <2>3 DEF IInv
<1>7. CASE plane.stream # ops[o].gen
  <2>1. ops[o].status # "inflight"
    BY <1>2, <1>7 DEF Named
  <2>2. plane' = plane /\ ops' = ops
    BY <1>2, <1>4, <1>7 DEF IsCurrent, Leave
  <2> QED
    BY <1>6, <2>1, <2>2
<1>8. CASE plane.stream = ops[o].gen
  <2>1. plane.stream # None /\ ops[o].gen = plane.stream
    BY <1>5, <1>8
  <2>2. \A y \in matching : y = o
    <3>1. ASSUME NEW y \in matching PROVE y = o
      <4>1. y \in DOMAIN ops /\ ops[y].status = "inflight" /\ ops[y].id = ops[o].id
        BY <1>2 DEF InflightOf
      <4>2. ops[y].gen = plane.stream
        BY <1>2, <4>1 DEF Named
      <4> QED
        BY <1>2, <2>1, <4>1, <4>2 DEF Named
    <3> QED
      BY <3>1
  <2>3. Leave(HandleResult(s, ops[o].id, outcome))
    BY <1>2, <1>4, <1>8 DEF IsCurrent
  <2>4. HandleResult(s, ops[o].id, outcome)
          = IF matching = {} THEN s ELSE Settle(s, CHOOSE y \in matching : TRUE, outcome)
    BY DEF HandleResult
  <2>5. CASE ops[o].status # "inflight"
    <3>1. matching = {}
      BY <1>2, <2>2, <2>5 DEF InflightOf
    <3>2. plane' = plane /\ ops' = ops
      BY <2>3, <2>4, <3>1 DEF Leave
    <3> QED
      BY <1>6, <2>5, <3>2
  <2>6. CASE ops[o].status = "inflight"
    <3> DEFINE t == Settle([p |-> plane, ops |-> ops], o, outcome)
    <3>1. o \in InflightOf(ops) /\ o \in matching
      BY <1>2, <2>6 DEF InflightOf
    <3>2. matching # {} /\ (CHOOSE y \in matching : TRUE) = o
      <4> HIDE DEF matching
      <4>1. (CHOOSE y \in matching : TRUE) \in matching
        BY <3>1
      <4> QED
        BY <2>2, <3>1, <4>1
    <3>3. plane' = t.p /\ ops' = t.ops
      <4> HIDE DEF matching
      <4> QED
        BY <2>3, <2>4, <3>2, Zenon DEF Leave
    <3>4. ~Line(plane.chain[plane.stream], o)
      BY <1>1, <1>3, <2>1, WrittenLeft
    <3>5. Good(plane, ops, <<>>, {o}, frames, answered)
      <4>1. SameRoute(plane, plane) /\ SameCounts(plane, plane)
        BY <1>1 DEF SameRoute, SameCounts, Flow, Routed
      <4>2. Flow(plane, ops, {o}, frames, answered)
        BY <1>1, <4>1, FlowKept
      <4> QED
        BY <1>1, <4>1, <4>2, CountsGood DEF Good
    <3>6. /\ outcome \in OutcomeNames /\ outcome \notin {"cancelled", "refused", "released"}
          /\ outcome = "rejected_unsafe_paste" => ops[o].kind = "paste"
      BY <1>4 DEF Outcomes, OutcomeNames
    <3>7. Good(t.p, t.ops, <<>>, {}, frames, e) /\ Pumped(t.p, t.ops)
      BY <1>3, <3>1, <3>4, <3>5, <3>6, SettleGood, Zenon
    <3> QED
      BY <1>3, <3>3, <3>7 DEF IInv
  <2> QED
    BY <2>5, <2>6
<1> QED
  BY <1>7, <1>8

-----------------------------------------------------------------------------
(* The theorems.                                                           *)

LEMMA StutterInv == IInv /\ UNCHANGED vars => IInv'
<1> SUFFICES ASSUME IInv, UNCHANGED vars PROVE IInv'
  OBVIOUS
<1>1. plane' = plane /\ ops' = ops /\ frames' = frames /\ answered' = answered
  BY DEF vars
<1> QED
  BY <1>1 DEF IInv

LEMMA NextInv == IInv /\ [Next]_vars => IInv'
<1> SUFFICES ASSUME IInv, [Next]_vars PROVE IInv'
  OBVIOUS
<1>1. CASE SendInput \/ WritePaste \/ ConfirmUnsafePaste \/ DropConsent \/ Detach
  BY <1>1, SendInputInv, WritePasteInv, ConfirmInv, DropConsentInv, DetachInv
<1>2. CASE \E geometry \in Geometries : Resize(geometry)
  BY <1>2, ResizeInv
<1>3. CASE Attach \/ ReceiveAttached \/ CompleteHydration \/ ReceiveRouteResync \/ LoseRoute
  BY <1>3, AttachInv, ReceiveAttachedInv, CompleteHydrationInv, ReceiveRouteResyncInv, LoseRouteInv
<1>4. CASE \E a \in Attachments : StartSend(a) \/ SendFrame(a) \/ SendFails(a)
  BY <1>4, StartSendInv, SendFrameInv, SendFailsInv
<1>5. CASE \E o \in DOMAIN ops : InputResult(o)
  BY <1>5, InputResultInv
<1>6. CASE UNCHANGED vars
  BY <1>6, StutterInv
<1> QED
  BY <1>1, <1>2, <1>3, <1>4, <1>5, <1>6 DEF Next

\* IInv, which is about every method of the plane, holds in every state.
THEOREM Inductive == Spec => []IInv
<1>1. Init => IInv
  BY InitInv
<1>2. IInv /\ [Next]_vars => IInv'
  BY NextInv
<1> QED
  BY <1>1, <1>2, PTL DEF Spec

\* Every method leaves the variables in the shape the code gives them; no attachment, resize or
\* resynchronization makes more than one geometry operation, and no id passes their number.
THEOREM TypeCorrect == Spec => []TypeOK
<1>1. IInv => TypeOK
  <2> SUFFICES ASSUME IInv PROVE TypeOK
    OBVIOUS
  <2>1. /\ plane \in Planes /\ ops \in Made /\ Routed(plane) /\ Named(plane, ops)
        /\ Chained(plane, ops) /\ Owed(plane, ops, {}, frames, answered)
        /\ Queued(plane.queue, <<>>, ops) /\ Counted(plane, ops, <<>>) /\ Consents(plane, ops)
        /\ Inflight(S) = InflightOf(ops)
        /\ Bounded(plane) /\ Issued(plane, ops, <<>>) /\ Paid(plane, ops, <<>>)
    BY Planar DEF Good, Flow, Budget
  <2>2. ASSUME NEW c \in Seq(Nat), \A i \in DOMAIN c : c[i] \in DOMAIN ops
        PROVE  c \in Seq(DOMAIN ops)
    <3> DEFINE dom == DOMAIN ops
    <3> HIDE DEF dom
    <3>1. Len(c) \in Nat /\ c = [i \in 1 .. Len(c) |-> c[i]] /\ \A i \in 1 .. Len(c) : c[i] \in dom
      BY <2>2 DEF dom
    <3>2. c \in Seq(dom)
      BY <3>1
    <3> QED
      BY <3>2 DEF dom
  <2>3. plane.queue \in Seq(DOMAIN ops)
    BY <2>1, <2>2 DEF Queued
  <2>4. ASSUME NEW a \in Attachments
        PROVE  plane.chain[a] \in Seq(DOMAIN ops) /\ plane.sent[a] \in -1 .. PasteFrames - 1
    <3>1. /\ ChainOf(ops, a, plane.chain[a], plane.sent[a])
          /\ plane.chain[a] \in Seq(Nat) /\ plane.sent[a] \in Int
      BY <2>1, PlaneOf DEF Chained
    <3>2. plane.chain[a] \in Seq(DOMAIN ops)
      BY <2>2, <3>1 DEF ChainOf
    <3>3. plane.sent[a] < PasteFrames
      <4>1. CASE plane.sent[a] = -1
        BY <4>1, Numbers
      <4>2. CASE plane.sent[a] >= 0
        <5>1. plane.sent[a] < Frames(ops[plane.chain[a][1]].kind)
          BY <3>1, <4>2 DEF ChainOf
        <5>2. \A kind : Frames(kind) \in Nat /\ Frames(kind) <= PasteFrames
          BY Numbers DEF Frames
        <5> HIDE DEF Frames
        <5>3. Frames(ops[plane.chain[a][1]].kind) \in Nat
              /\ Frames(ops[plane.chain[a][1]].kind) <= PasteFrames
          BY <5>2
        <5> QED
          BY <3>1, <5>1, <5>3, Numbers
      <4> QED
        BY <3>1, <4>1, <4>2 DEF ChainOf
    <3>4. plane.sent[a] >= -1
      BY <3>1 DEF ChainOf
    <3> QED
      BY <3>1, <3>2, <3>3, <3>4, Numbers
  <2>5. plane.geometryOp \in Inflight(S) \cup {None} /\ plane.consent \in DOMAIN ops \cup {None}
    BY <2>1, NoRange DEF Counted, Consents
  <2>6. Len(ops) <= MaxOps /\ Len(ops) \in Nat /\ MaxOps \in Nat
    <3>1. /\ plane.typed \in Nat /\ plane.resizes \in Nat /\ plane.resyncs \in Nat
          /\ plane.last \in Nat /\ plane.last <= MaxAttach /\ Len(ops) \in Nat
          /\ MaxTyped \in Nat /\ MaxResizes \in Nat /\ MaxResync \in Nat /\ MaxAttach \in Nat
      BY <2>1, PlaneOf, Numbered, ConstantsAssumption DEF Routed
    <3>2. plane.typed <= MaxTyped /\ plane.resizes <= MaxResizes /\ plane.resyncs <= MaxResync
      BY <2>1 DEF Bounded
    <3>3. Len(ops) <= plane.typed + plane.resizes + plane.resyncs + plane.last
      BY <2>1 DEF Paid, Asked
    <3> QED
      BY <3>1, <3>2, <3>3 DEF MaxOps
  <2>7. ASSUME NEW o \in DOMAIN ops
        PROVE  /\ ops[o].kind \in Kinds /\ ops[o].status \in {"queued", "inflight", "settled"}
               /\ ops[o].outcome \in OutcomeNames
               /\ ops[o].gen \in 0 .. MaxAttach /\ ops[o].id \in 0 .. MaxOps
    <3>1. /\ ops[o].kind \in Kinds /\ ops[o].status \in Statuses /\ ops[o].outcome \in OutcomeNames
          /\ ops[o].gen \in Nat /\ ops[o].id \in Nat
      BY <2>1, OperationOf
    <3>2. ops[o].gen <= plane.last /\ plane.last <= MaxAttach /\ plane.last \in Nat
      BY <2>1, Numbers DEF Named, Routed
    <3>3. ops[o].id <= Len(ops)
      BY <2>1 DEF Issued
    <3> QED
      BY <2>6, <3>1, <3>2, <3>3, Numbers DEF Statuses
  <2>8. /\ plane.stream \in {None, plane.last} /\ plane.last \in 0 .. MaxAttach
        /\ plane.attached => plane.stream # None
    BY <2>1 DEF Routed
  <2>9. answered \subseteq DOMAIN ops
    BY <2>1 DEF Owed
  <2> QED
    BY <2>1, <2>3, <2>4, <2>5, <2>6, <2>7, <2>8, <2>9 DEF TypeOK, Bounded
<1> QED
  BY <1>1, Inductive, PTL

\* The counters that refuse an input, queuedInputBytes, inflightInputBytes and the consent's,
\* are exactly the bytes retained, and pass the bound by at most the one geometry.
THEOREM BytesAreAccounted == Spec => []BytesAccounted
<1>1. IInv => BytesAccounted
  <2> SUFFICES ASSUME IInv PROVE BytesAccounted
    OBVIOUS
  <2>1. Counted(plane, ops, <<>>) /\ Inflight(S) = InflightOf(ops) /\ plane \in Planes
    BY Planar DEF Good
  <2>2. Bytes("paste") = 2 /\ Bytes("resize") = 1
    BY DEF Bytes
  <2>3. BytesOf(ops, Range(<<>>)) = 0
    BY BytesNone, NoRange
  <2>4. Retained(plane) <= MaxBytes + Bytes("resize")
    <3>1. Retained(plane) + 0 <= MaxBytes + (IF plane.geometryOp = None THEN 0 ELSE 1)
      BY <2>1, <2>3 DEF Counted
    <3>2. Retained(plane) \in Int /\ MaxBytes \in Int
      BY <2>1, PlaneOf, Numbers DEF Retained
    <3> QED
      BY <2>2, <3>1, <3>2
  <2> QED
    BY <2>1, <2>2, <2>4 DEF BytesAccounted, Counted
<1> QED
  BY <1>1, Inductive, PTL

\* Every path that frees a place, adds an operation or opens the route ends in pumpInputs or
\* needs none.
THEOREM PumpMissesNothing == Spec => []PumpIsNeverMissed
<1>1. IInv => PumpIsNeverMissed
  <2> SUFFICES ASSUME IInv PROVE PumpIsNeverMissed
    OBVIOUS
  <2>1. Pumped(plane, ops) /\ Inflight(S) = InflightOf(ops)
    BY Planar
  <2> QED
    BY <2>1 DEF PumpIsNeverMissed, Pumped, HasRoom
<1> QED
  BY <1>1, Inductive, PTL

\* However attachments come and go, the terminal channels carry keys and pastes in the order
\* they were made, and the frames of a paste together.
THEOREM FramesStayInOrder == Spec => []FramesInOrder
<1>1. IInv => FramesInOrder
  <2> SUFFICES ASSUME IInv PROVE FramesInOrder
    OBVIOUS
  <2>1. Ordered(ops, frames)
    BY SameFrames
  <2> QED
    BY <2>1 DEF FramesInOrder, Ordered
<1> QED
  BY <1>1, Inductive, PTL

\* The outcome a caller is given agrees with what went out.
THEOREM OutcomesStayTrue == Spec => []OutcomesAreTrue
<1>1. IInv => OutcomesAreTrue
  <2> SUFFICES ASSUME IInv PROVE OutcomesAreTrue
    OBVIOUS
  <2>1. Truthful(ops, frames)
    BY SameFrames DEF Flow
  <2>2. \A o : Written(o) <=> Writes(frames, ops, o)
    BY DEF Written, Writes
  <2> QED
    BY <2>1, <2>2 DEF OutcomesAreTrue, Truthful
<1> QED
  BY <1>1, Inductive, PTL

\* The user is never offered consent to a paste that is not the latest one, nor on another
\* attachment than the one that rejected it.
THEOREM ConsentStaysCurrent == Spec => []ConsentIsCurrent
<1>1. IInv => ConsentIsCurrent
  BY Planar DEF Good, Consents, ConsentIsCurrent
<1> QED
  BY <1>1, Inductive, PTL

\* A place of the window is held by an operation still to be sent, or one whose result Core owes.
THEOREM InflightStaysAnswered == Spec => []InflightIsAnswered
<1>1. IInv => InflightIsAnswered
  <2> SUFFICES ASSUME IInv, NEW o \in Inflight(S)
               PROVE  /\ ops[o].gen = plane.stream
                      /\ \/ \E i \in DOMAIN plane.chain[ops[o].gen] : plane.chain[ops[o].gen][i] = o
                         \/ Written(o) /\ o \notin answered
    BY DEF InflightIsAnswered
  <2>1. o \in DOMAIN ops /\ ops[o].status = "inflight"
    BY Planar DEF InflightOf
  <2>2. Named(plane, ops) /\ Owed(plane, ops, {}, frames, answered)
    BY SameFrames DEF Flow
  <2>3. ops[o].gen = plane.stream
    BY <2>1, <2>2 DEF Named
  <2>4. Line(plane.chain[plane.stream], o) \/ (Writes(frames, ops, o) /\ o \notin answered)
    BY <2>1, <2>2 DEF Owed
  <2> QED
    BY <2>3, <2>4 DEF Line, Writes, Written
<1> QED
  BY <1>1, Inductive, PTL

=============================================================================
