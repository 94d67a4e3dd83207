--------------------------- MODULE Transport_proofs ---------------------------
(***************************************************************************)
(* The components of the transport, for every value of their bounds.       *)
(*                                                                         *)
(* One component at a time, each with an inductive invariant: the package  *)
(* events a listener was told are in order and come before what is in line *)
(* on its channel; the retained bytes of inbound control messages are the  *)
(* chunks held and the ids remembered; what a channel handed on, has open  *)
(* and has in line is Hub's messages without a hole.  The entity           *)
(* subscription and the peer are proved in modules of their own.  The last *)
(* section shows that a run of the transport is a run of every component,  *)
(* so that all of it holds of the transport.                               *)
(***************************************************************************)
EXTENDS Transport, EntitySubscription_proofs, FiniteSetTheorems, TLAPS

PeerProofs == INSTANCE PeerLifecycle_proofs WITH transport <- peer

-----------------------------------------------------------------------------
(* A holder of package events.                                             *)

\* The transport without the model's bounds.
Calls == [gen : Nat, via : Nat, at : {"unsubscribe", "ready"}]
Holders ==
  [gen : Nat, link : {"down", "connecting", "open"}, generation : Nat, id : Nat,
   resubscribing : BOOLEAN, channel : Nat,
   ready : {"none", "pending", "resolved", "rejected"}, closed : BOOLEAN,
   nextId : Nat, asked : Nat, flights : SUBSET Calls, open : SUBSET Nat, admitted : SUBSET Nat]

\* Generations and subscription ids are given out in order, and nothing names one that
\* was not.
Counted(c) ==
  /\ c \in Holders
  /\ 1 <= c.nextId /\ c.generation <= c.gen
  /\ c.id < c.nextId /\ c.channel < c.nextId /\ c.asked < c.nextId
  /\ \A b \in c.open \cup c.admitted : 1 <= b /\ b < c.nextId
  /\ \A f \in c.flights : f.gen <= c.gen /\ f.via <= c.gen

\* d comes after c: the holder's identity is kept, dropped or new, never an old one.
Onward(c, d) ==
  /\ Counted(d)
  /\ c.gen <= d.gen /\ c.nextId <= d.nextId
  /\ c.admitted \subseteq d.admitted
  /\ d.id \in {Events!Undefined, c.id} \/ c.nextId <= d.id

\* Events in the order they were emitted.
Rising(s, n) ==
  \A i \in 1 .. Len(s) : s[i] <= n /\ \A j \in 1 .. Len(s) : i < j => s[i] < s[j]

\* A channel that was not admitted carries nothing, and what is in line on the holder's
\* own channel comes after all it was told.
InLine ==
  /\ \A b \in Events!Ids : /\ b \notin pClient.admitted => pWire[b] = <<>>
                           /\ Rising(pWire[b], emitted)
  /\ Rising(heard, emitted)
  /\ \A b \in Events!Ids : \A i \in 1 .. Len(heard), j \in 1 .. Len(pWire[b]) :
       b = pClient.id => heard[i] < pWire[b][j]

EventsInv == Events!TypeOK /\ Counted(pClient) /\ InLine

-----------------------------------------------------------------------------

LEMMA HolderFields ==
  ASSUME NEW c \in Holders
  PROVE  /\ c.gen \in Nat /\ c.link \in {"down", "connecting", "open"} /\ c.generation \in Nat
         /\ c.id \in Nat /\ c.resubscribing \in BOOLEAN /\ c.channel \in Nat
         /\ c.ready \in {"none", "pending", "resolved", "rejected"} /\ c.closed \in BOOLEAN
         /\ c.nextId \in Nat /\ c.asked \in Nat /\ c.flights \subseteq Calls
         /\ c.open \subseteq Nat /\ c.admitted \subseteq Nat
BY DEF Holders

LEMMA OnwardIsReflexive == ASSUME NEW c, Counted(c) PROVE Onward(c, c)
BY HolderFields DEF Onward, Counted

LEMMA OnwardIsTransitive ==
  ASSUME NEW c, Counted(c), NEW d, Onward(c, d), NEW e, Onward(d, e)
  PROVE  Onward(c, e)
<1>1. /\ c.nextId \in Nat /\ d.nextId \in Nat /\ e.nextId \in Nat /\ e.id \in Nat
      /\ c.gen \in Nat /\ d.gen \in Nat /\ e.gen \in Nat
  BY HolderFields DEF Onward, Counted
<1> QED
  BY <1>1 DEF Onward

\* A change that gives out nothing.
LEMMA NothingGivenOut ==
  ASSUME NEW c, Counted(c), NEW d \in Holders,
         d.gen = c.gen, d.nextId = c.nextId, d.admitted = c.admitted, d.open \subseteq c.open,
         d.flights \subseteq c.flights,
         d.generation \in {Events!Undefined, c.generation}, d.id \in {Events!Undefined, c.id},
         d.channel \in {Events!Undefined, c.channel}, d.asked \in {Events!Undefined, c.asked}
  PROVE  Onward(c, d)
<1>1. /\ c.nextId \in Nat /\ c.gen \in Nat /\ c.generation \in Nat
      /\ 1 <= c.nextId /\ c.generation <= c.gen
      /\ c.id < c.nextId /\ c.channel < c.nextId /\ c.asked < c.nextId
  BY HolderFields DEF Counted
<1>2. /\ d.generation <= d.gen /\ d.id < d.nextId /\ d.channel < d.nextId
      /\ d.asked < d.nextId
  BY <1>1 DEF Events!Undefined
<1>3. /\ \A b \in d.open \cup d.admitted : 1 <= b /\ b < d.nextId
      /\ \A f \in d.flights : f.gen <= d.gen /\ f.via <= d.gen
  BY DEF Counted
<1> QED
  BY <1>1, <1>2, <1>3 DEF Onward, Counted

\* closeSubscriptionChannel
LEMMA CloseOnward ==
  ASSUME NEW c, Counted(c), NEW b
  PROVE  LET d == Events!CloseChannel(c, b)
         IN Onward(c, d) /\ d.gen = c.gen /\ d.closed = c.closed
<1> DEFINE free == IF c.channel = b THEN Events!Undefined ELSE c.channel
           d == [c EXCEPT !.open = @ \ {b}, !.channel = free]
<1>1. c \in Holders
  BY DEF Counted
<1>2. Events!CloseChannel(c, b) = d
  BY <1>1 DEF Events!CloseChannel, Holders
<1>3. free \in {Events!Undefined, c.channel} /\ free \in Nat
  BY <1>1, HolderFields DEF Events!Undefined
<1> HIDE DEF free
<1>4. d \in Holders
  <2>1. c.open \ {b} \in SUBSET Nat
    BY <1>1, HolderFields
  <2> QED
    BY <1>1, <1>3, <2>1, Zenon DEF Holders
<1>5. /\ d.gen = c.gen /\ d.nextId = c.nextId /\ d.admitted = c.admitted
      /\ d.open = c.open \ {b} /\ d.flights = c.flights /\ d.generation = c.generation
      /\ d.id = c.id /\ d.channel = free /\ d.asked = c.asked /\ d.closed = c.closed
  BY <1>1 DEF Holders
<1> HIDE DEF d
<1> QED
  BY <1>2, <1>3, <1>4, <1>5, NothingGivenOut

\* resetPeerState
LEMMA ResetOnward ==
  ASSUME NEW c, Counted(c)
  PROVE  LET d == Events!ResetPeer(c)
         IN Onward(c, d) /\ d.gen = c.gen /\ d.nextId = c.nextId
<1> DEFINE d == [c EXCEPT !.generation = Events!Undefined, !.id = Events!Undefined, !.channel = Events!Undefined,
                          !.resubscribing = FALSE, !.open = {}, !.asked = Events!Undefined]
<1>1. c \in Holders
  BY DEF Counted
<1>2. Events!ResetPeer(c) = d
  BY DEF Events!ResetPeer
<1>3. d \in Holders
  <2>1. Events!Undefined \in Nat /\ {} \in SUBSET Nat /\ FALSE \in BOOLEAN
    BY DEF Events!Undefined
  <2> QED
    BY <1>1, <2>1, Zenon DEF Holders
<1>4. /\ d.gen = c.gen /\ d.nextId = c.nextId /\ d.admitted = c.admitted /\ d.open = {}
      /\ d.flights = c.flights /\ d.generation = Events!Undefined /\ d.id = Events!Undefined
      /\ d.channel = Events!Undefined /\ d.asked = Events!Undefined
  BY <1>1 DEF Holders
<1> HIDE DEF d
<1> QED
  BY <1>2, <1>3, <1>4, NothingGivenOut

\* startAttempt
LEMMA AttemptOnward ==
  ASSUME NEW c, Counted(c)
  PROVE  LET d == Events!StartAttempt(c)
         IN Onward(c, d) /\ d.gen = c.gen + 1
<1> DEFINE r == Events!ResetPeer(c)
           d == [r EXCEPT !.gen = @ + 1, !.link = "connecting"]
<1>1. Onward(c, r) /\ r.gen = c.gen
  BY ResetOnward
<1>2. Events!StartAttempt(c) = d
  BY DEF Events!StartAttempt
<1> HIDE DEF r
<1>3. r \in Holders /\ r.gen \in Nat
  BY <1>1, HolderFields DEF Onward, Counted
<1>4. d \in Holders
  <2>1. r.gen + 1 \in Nat /\ "connecting" \in {"down", "connecting", "open"}
    BY <1>3
  <2> QED
    BY <1>3, <2>1, Zenon DEF Holders
<1>5. /\ d.gen = r.gen + 1 /\ d.nextId = r.nextId /\ d.admitted = r.admitted
      /\ d.open = r.open /\ d.flights = r.flights /\ d.generation = r.generation
      /\ d.id = r.id /\ d.channel = r.channel /\ d.asked = r.asked
  BY <1>3 DEF Holders
<1> HIDE DEF d
<1>6. Counted(d)
  <2>1. /\ r.generation \in Nat /\ r.generation <= r.gen
        /\ \A f \in r.flights : f.gen \in Nat /\ f.via \in Nat /\ f.gen <= r.gen /\ f.via <= r.gen
    BY <1>1, <1>3, HolderFields DEF Onward, Counted, Calls
  <2>2. /\ d.generation <= d.gen
        /\ \A f \in d.flights : f.gen <= d.gen /\ f.via <= d.gen
    BY <1>3, <1>5, <2>1
  <2> QED
    BY <1>1, <1>4, <1>5, <2>2 DEF Onward, Counted
<1>7. Onward(c, d)
  BY <1>1, <1>3, <1>5, <1>6 DEF Onward
<1> QED
  BY <1>1, <1>2, <1>5, <1>7

LEMMA ConnectedOnward ==
  ASSUME NEW c, Counted(c)
  PROVE  Onward(c, Events!Connected(c))
BY OnwardIsReflexive, AttemptOnward DEF Events!Connected

\* startPackageEventSubscription
LEMMA StartOnward ==
  ASSUME NEW c, Counted(c), NEW g
  PROVE  Onward(c, Events!Start(c, g))
<1> DEFINE ready == IF c.ready = "none" THEN "pending" ELSE c.ready
           next == c.nextId + 1
           s == [c EXCEPT !.generation = g, !.id = c.nextId, !.nextId = next,
                          !.asked = c.nextId, !.ready = ready]
<1>1. CASE c.closed \/ g # c.gen \/ (c.generation = g /\ c.ready # "none")
  BY <1>1, OnwardIsReflexive DEF Events!Start
<1>2. CASE ~(c.closed \/ g # c.gen \/ (c.generation = g /\ c.ready # "none"))
  <2>1. c \in Holders /\ c.nextId \in Nat /\ c.gen \in Nat
    BY HolderFields DEF Counted
  <2>2. Events!Start(c, g) = Events!Connected(s) /\ g = c.gen
    BY <1>2, <2>1 DEF Events!Start, Holders
  <2>3. ready \in {"none", "pending", "resolved", "rejected"} /\ next \in Nat
        /\ next = c.nextId + 1
    BY <2>1, HolderFields
  <2> HIDE DEF ready, next
  <2>4. s \in Holders
    BY <2>1, <2>2, <2>3, Zenon DEF Holders
  <2>5. /\ s.gen = c.gen /\ s.nextId = next /\ s.admitted = c.admitted
        /\ s.open = c.open /\ s.flights = c.flights /\ s.generation = g
        /\ s.id = c.nextId /\ s.channel = c.channel /\ s.asked = c.nextId
    BY <2>1 DEF Holders
  <2> HIDE DEF s
  <2>6. Counted(s)
    <3>1. /\ 1 <= s.nextId /\ s.generation <= s.gen
          /\ s.id < s.nextId /\ s.channel < s.nextId /\ s.asked < s.nextId
      BY <2>1, <2>2, <2>3, <2>5, HolderFields DEF Counted
    <3>2. \A b \in s.open \cup s.admitted : 1 <= b /\ b < s.nextId
      <4> TAKE b \in s.open \cup s.admitted
      <4>1. b \in Nat /\ 1 <= b /\ b < c.nextId
        BY <2>1, <2>5, HolderFields DEF Counted
      <4> QED
        BY <2>1, <2>3, <2>5, <4>1
    <3>3. \A f \in s.flights : f.gen <= s.gen /\ f.via <= s.gen
      BY <2>5 DEF Counted
    <3> QED
      BY <2>4, <3>1, <3>2, <3>3 DEF Counted
  <2>7. Onward(c, s)
    BY <2>1, <2>3, <2>5, <2>6 DEF Onward
  <2>8. Onward(s, Events!Connected(s))
    BY <2>6, ConnectedOnward
  <2> QED
    BY <2>2, <2>7, <2>8, OnwardIsTransitive
<1> QED
  BY <1>1, <1>2

\* A call that waits.
LEMMA CallOnward ==
  ASSUME NEW c, Counted(c), NEW f \in Calls, f.gen <= c.gen, f.via <= c.gen
  PROVE  Onward(c, [c EXCEPT !.flights = @ \cup {f}])
<1> DEFINE d == [c EXCEPT !.flights = @ \cup {f}]
<1>1. c \in Holders /\ c.nextId \in Nat /\ c.gen \in Nat
  BY HolderFields DEF Counted
<1>2. d \in Holders
  <2>1. c.flights \cup {f} \in SUBSET Calls
    BY <1>1, HolderFields
  <2> QED
    BY <1>1, <2>1, Zenon DEF Holders
<1>3. /\ d.gen = c.gen /\ d.nextId = c.nextId /\ d.admitted = c.admitted /\ d.open = c.open
      /\ d.flights = c.flights \cup {f} /\ d.generation = c.generation
      /\ d.id = c.id /\ d.channel = c.channel /\ d.asked = c.asked
  BY <1>1 DEF Holders
<1> HIDE DEF d
<1>4. \A x \in d.flights : x.gen <= d.gen /\ x.via <= d.gen
  BY <1>3 DEF Counted
<1>5. Counted(d)
  BY <1>2, <1>3, <1>4 DEF Counted
<1> QED
  BY <1>1, <1>3, <1>5 DEF Onward, d

\* resubscribePackageEvent up to its await
LEMMA ResubscribeOnward ==
  ASSUME NEW c, Counted(c), NEW g
  PROVE  Onward(c, Events!Resubscribe(c, g))
<1> DEFINE closing == Events!CloseChannel(c, c.channel)
           r == [closing EXCEPT !.resubscribing = TRUE]
           e == Events!Connected(r)
           f == [gen |-> g, via |-> e.gen, at |-> "unsubscribe"]
<1>1. CASE c.resubscribing \/ c.closed \/ g # c.gen
  BY <1>1, OnwardIsReflexive DEF Events!Resubscribe
<1>2. CASE ~(c.resubscribing \/ c.closed \/ g # c.gen)
  <2>1. Events!Resubscribe(c, g) = [e EXCEPT !.flights = @ \cup {f}] /\ g = c.gen
    BY <1>2 DEF Events!Resubscribe
  <2>2. Onward(c, closing)
    BY CloseOnward
  <2> HIDE DEF closing
  <2>3. closing \in Holders /\ Counted(closing)
    BY <2>2 DEF Onward, Counted
  <2>4. r \in Holders
    <3>1. TRUE \in BOOLEAN
      OBVIOUS
    <3> QED
      BY <2>3, <3>1, Zenon DEF Holders
  <2>5. /\ r.gen = closing.gen /\ r.nextId = closing.nextId /\ r.admitted = closing.admitted
        /\ r.open = closing.open /\ r.flights = closing.flights
        /\ r.generation = closing.generation /\ r.id = closing.id
        /\ r.channel = closing.channel /\ r.asked = closing.asked
    BY <2>3 DEF Holders
  <2> HIDE DEF r
  <2>6. Onward(closing, r)
    BY <2>3, <2>4, <2>5, NothingGivenOut
  <2>7. Onward(c, r) /\ Counted(r)
    BY <2>2, <2>6, OnwardIsTransitive DEF Onward
  <2>8. Onward(c, e) /\ Counted(e)
    BY <2>7, ConnectedOnward, OnwardIsTransitive DEF Onward
  <2> HIDE DEF e
  <2>9. f \in Calls /\ f.gen <= e.gen /\ f.via <= e.gen
    <3>1. c.gen \in Nat /\ e.gen \in Nat /\ c.gen <= e.gen
      BY <2>8, HolderFields DEF Onward, Counted
    <3> QED
      BY <2>1, <3>1 DEF Calls
  <2> HIDE DEF f
  <2>10. Onward(e, [e EXCEPT !.flights = @ \cup {f}])
    BY <2>8, <2>9, CallOnward
  <2> QED
    BY <2>1, <2>8, <2>10, OnwardIsTransitive
<1> QED
  BY <1>1, <1>2

\* and after it
LEMMA ResumeOnward ==
  ASSUME NEW c, Counted(c), NEW f \in c.flights
  PROVE  Onward(c, Events!Resume(c, f))
<1> DEFINE freed == [c EXCEPT !.flights = @ \ {f}, !.generation = Events!Undefined,
                              !.id = Events!Undefined, !.ready = "none"]
           e == Events!Start(freed, f.gen)
           h == [f EXCEPT !.at = "ready"]
           ended == [e EXCEPT !.resubscribing = FALSE]
<1>1. c \in Holders /\ f \in Calls /\ c.gen \in Nat
  BY HolderFields DEF Counted
<1>2. freed \in Holders
  <2>1. c.flights \ {f} \in SUBSET Calls /\ Events!Undefined \in Nat
        /\ "none" \in {"none", "pending", "resolved", "rejected"}
    BY <1>1, HolderFields DEF Events!Undefined
  <2> QED
    BY <1>1, <2>1, Zenon DEF Holders
<1>3. /\ freed.gen = c.gen /\ freed.nextId = c.nextId /\ freed.admitted = c.admitted
      /\ freed.open = c.open /\ freed.flights = c.flights \ {f}
      /\ freed.generation = Events!Undefined /\ freed.id = Events!Undefined
      /\ freed.channel = c.channel /\ freed.asked = c.asked
  BY <1>1 DEF Holders
<1>4. Events!Resume(c, f) \in {[e EXCEPT !.flights = @ \cup {h}], ended}
  BY DEF Events!Resume
<1> HIDE DEF freed
<1>5. Onward(c, freed) /\ Counted(freed)
  BY <1>2, <1>3, NothingGivenOut DEF Onward
<1>6. Onward(c, e) /\ Counted(e)
  BY <1>5, StartOnward, OnwardIsTransitive DEF Onward
<1> HIDE DEF e
<1>7. Onward(e, [e EXCEPT !.flights = @ \cup {h}])
  <2>1. h \in Calls /\ h.gen = f.gen /\ h.via = f.via
    BY <1>1 DEF Calls
  <2>2. h.gen <= e.gen /\ h.via <= e.gen
    <3>1. /\ f.gen <= c.gen /\ f.via <= c.gen /\ f.gen \in Nat /\ f.via \in Nat
          /\ c.gen <= e.gen /\ e.gen \in Nat
      BY <1>1, <1>6, HolderFields DEF Onward, Counted, Calls
    <3> QED
      BY <1>1, <2>1, <3>1
  <2> HIDE DEF h
  <2> QED
    BY <1>6, <2>1, <2>2, CallOnward
<1>8. Onward(e, ended)
  <2>1. e \in Holders
    BY <1>6 DEF Counted
  <2>2. ended \in Holders
    <3>1. FALSE \in BOOLEAN
      OBVIOUS
    <3> QED
      BY <2>1, <3>1, Zenon DEF Holders
  <2>3. /\ ended.gen = e.gen /\ ended.nextId = e.nextId /\ ended.admitted = e.admitted
        /\ ended.open = e.open /\ ended.flights = e.flights
        /\ ended.generation = e.generation /\ ended.id = e.id
        /\ ended.channel = e.channel /\ ended.asked = e.asked
    BY <2>1 DEF Holders
  <2> HIDE DEF ended
  <2> QED
    BY <1>6, <2>2, <2>3, NothingGivenOut
<1>9. Onward(c, [e EXCEPT !.flights = @ \cup {h}])
  BY <1>6, <1>7, OnwardIsTransitive
<1>10. Onward(c, ended)
  BY <1>6, <1>8, OnwardIsTransitive
<1> HIDE DEF ended, h
<1> QED
  BY <1>4, <1>9, <1>10

\* rejectReady, resolveReady
LEMMA SettleOnward ==
  ASSUME NEW c, Counted(c), NEW outcome \in {"resolved", "rejected"}
  PROVE  Onward(c, Events!Settle(c, outcome))
<1> DEFINE ready == IF c.ready = "pending" THEN outcome ELSE c.ready
           d == [c EXCEPT !.ready = ready]
<1>1. c \in Holders
  BY DEF Counted
<1>2. Events!Settle(c, outcome) = d
  BY <1>1 DEF Events!Settle, Holders
<1>3. ready \in {"none", "pending", "resolved", "rejected"}
  BY <1>1, HolderFields
<1> HIDE DEF ready
<1>4. d \in Holders
  BY <1>1, <1>3, Zenon DEF Holders
<1>5. /\ d.gen = c.gen /\ d.nextId = c.nextId /\ d.admitted = c.admitted /\ d.open = c.open
      /\ d.flights = c.flights /\ d.generation = c.generation /\ d.id = c.id
      /\ d.channel = c.channel /\ d.asked = c.asked
  BY <1>1 DEF Holders
<1> HIDE DEF d
<1> QED
  BY <1>2, <1>4, <1>5, NothingGivenOut

-----------------------------------------------------------------------------

LEMMA RisingAppend ==
  ASSUME NEW n \in Nat, NEW s \in Seq(1 .. MaxEvents), MaxEvents \in Nat, Rising(s, n),
         NEW x \in 1 .. MaxEvents, x <= n, \A i \in 1 .. Len(s) : s[i] < x
  PROVE  Rising(Append(s, x), n)
<1> DEFINE more == Append(s, x)
<1>1. /\ Len(more) = Len(s) + 1 /\ Len(s) \in Nat /\ more[Len(s) + 1] = x
      /\ \A i \in 1 .. Len(s) : more[i] = s[i] /\ s[i] \in Nat
  OBVIOUS
<1> HIDE DEF more
<1>2. ASSUME NEW i \in 1 .. Len(more)
      PROVE  more[i] <= n /\ \A j \in 1 .. Len(more) : i < j => more[i] < more[j]
  <2>1. CASE i \in 1 .. Len(s)
    <3>1. more[i] = s[i] /\ s[i] <= n /\ s[i] < x
      BY <1>1, <2>1 DEF Rising
    <3>2. ASSUME NEW j \in 1 .. Len(more), i < j
          PROVE  more[i] < more[j]
      <4>1. CASE j \in 1 .. Len(s)
        <5>1. s[i] < s[j]
          BY <2>1, <3>2, <4>1 DEF Rising
        <5>2. more[j] = s[j]
          BY <1>1, <4>1
        <5> QED
          BY <3>1, <5>1, <5>2
      <4>2. CASE j = Len(s) + 1
        BY <1>1, <3>1, <4>2
      <4> QED
        BY <1>1, <4>1, <4>2
    <3> QED
      BY <3>1, <3>2
  <2>2. CASE i = Len(s) + 1
    <3>1. more[i] = x /\ x <= n
      BY <1>1, <2>2
    <3>2. ASSUME NEW j \in 1 .. Len(more) PROVE ~(i < j)
      BY <1>1, <2>2, <3>2
    <3> QED
      BY <3>1, <3>2
  <2> QED
    BY <1>1, <2>1, <2>2
<1> QED
  BY <1>2 DEF Rising, more

LEMMA RisingLater ==
  ASSUME NEW n \in Nat, NEW s \in Seq(1 .. MaxEvents), MaxEvents \in Nat, Rising(s, n)
  PROVE  Rising(s, n + 1) /\ \A i \in 1 .. Len(s) : s[i] < n + 1
<1>1. \A i \in 1 .. Len(s) : s[i] \in Nat
  OBVIOUS
<1> QED
  BY <1>1 DEF Rising

LEMMA RisingTail ==
  ASSUME NEW n \in Nat, NEW s \in Seq(1 .. MaxEvents), MaxEvents \in Nat, Rising(s, n),
         s # <<>>
  PROVE  /\ Rising(Tail(s), n) /\ Tail(s) \in Seq(1 .. MaxEvents)
         /\ Head(s) \in 1 .. MaxEvents /\ Head(s) = s[1] /\ 1 \in 1 .. Len(s) /\ Head(s) <= n
         /\ \A j \in 1 .. Len(Tail(s)) : /\ j + 1 \in 1 .. Len(s) /\ Tail(s)[j] = s[j + 1]
                                         /\ Head(s) < Tail(s)[j]
<1>1. /\ Tail(s) \in Seq(1 .. MaxEvents) /\ Len(Tail(s)) = Len(s) - 1 /\ Len(s) \in Nat
      /\ 1 \in 1 .. Len(s) /\ Head(s) = s[1] /\ s[1] \in 1 .. MaxEvents
  OBVIOUS
<1>2. \A j \in 1 .. Len(Tail(s)) : j + 1 \in 1 .. Len(s) /\ Tail(s)[j] = s[j + 1]
  BY <1>1
<1> QED
  BY <1>1, <1>2 DEF Rising

LEMMA KnownEvents ==
  ASSUME EventsInv
  PROVE  /\ pFaults \in EventFaultSets /\ Counted(pClient) /\ pClient \in Holders
         /\ pWire \in [Events!Ids -> Seq(1 .. MaxEvents)] /\ emitted \in 0 .. MaxEvents /\ emitted \in Nat
         /\ heard \in Seq(1 .. MaxEvents) /\ MaxEvents \in Nat /\ InLine
         /\ \A b \in Events!Ids : b \in Nat /\ b # Events!Undefined /\ pWire[b] \in Seq(1 .. MaxEvents)
<1>1. pClient \in Holders
  BY DEF EventsInv, Counted
<1>2. \A b \in Events!Ids : b \in Nat /\ b # Events!Undefined
  BY EntityBoundsAssumption, TransportBoundsAssumption DEF Events!Ids, Events!Undefined
<1> QED
  BY <1>1, <1>2, EntityBoundsAssumption, TransportBoundsAssumption DEF EventsInv, Events!TypeOK

\* Within the model's bounds.
LEMMA Bounded ==
  ASSUME NEW c, Counted(c), c.gen <= MaxGen, c.nextId <= MaxId + 1
  PROVE  c \in [gen : Events!Gens, link : {"down", "connecting", "open"},
                generation : Events!Gens, id : 0 .. MaxId, resubscribing : BOOLEAN,
                channel : 0 .. MaxId, ready : {"none", "pending", "resolved", "rejected"},
                closed : BOOLEAN, nextId : 1 .. MaxId + 1, asked : 0 .. MaxId,
                flights : SUBSET Events!Flights, open : SUBSET Events!Ids, admitted : SUBSET Events!Ids]
<1>1. /\ c.gen \in Nat /\ c.link \in {"down", "connecting", "open"} /\ c.generation \in Nat
      /\ c.id \in Nat /\ c.resubscribing \in BOOLEAN /\ c.channel \in Nat
      /\ c.ready \in {"none", "pending", "resolved", "rejected"} /\ c.closed \in BOOLEAN
      /\ c.nextId \in Nat /\ c.asked \in Nat /\ c.flights \subseteq Calls
      /\ c.open \subseteq Nat /\ c.admitted \subseteq Nat /\ c \in Holders
  BY HolderFields DEF Counted
<1>2. MaxGen \in Nat /\ MaxId \in Nat
  BY EntityBoundsAssumption, TransportBoundsAssumption
<1>3. /\ c.gen \in Events!Gens /\ c.generation \in Events!Gens /\ c.id \in 0 .. MaxId
      /\ c.channel \in 0 .. MaxId /\ c.nextId \in 1 .. MaxId + 1 /\ c.asked \in 0 .. MaxId
  BY <1>1, <1>2 DEF Counted, Events!Gens
<1>4. c.flights \in SUBSET Events!Flights
  <2>1. ASSUME NEW f \in c.flights
        PROVE  f \in Events!Flights
    <3>1. f \in Calls /\ f.gen <= c.gen /\ f.via <= c.gen
      BY <1>1 DEF Counted
    <3>2. f.gen \in Events!Gens /\ f.via \in Events!Gens
      BY <1>1, <1>2, <3>1 DEF Calls, Events!Gens
    <3> QED
      BY <3>1, <3>2 DEF Calls, Events!Flights
  <2> QED
    BY <2>1
<1>5. c.open \in SUBSET Events!Ids /\ c.admitted \in SUBSET Events!Ids
  BY <1>1, <1>2 DEF Counted, Events!Ids
<1>6. c = [gen |-> c.gen, link |-> c.link, generation |-> c.generation, id |-> c.id,
           resubscribing |-> c.resubscribing, channel |-> c.channel, ready |-> c.ready,
           closed |-> c.closed, nextId |-> c.nextId, asked |-> c.asked,
           flights |-> c.flights, open |-> c.open, admitted |-> c.admitted]
  BY <1>1 DEF Holders
<1> QED
  BY ONLY <1>1, <1>3, <1>4, <1>5, <1>6

\* A step of the client.
LEMMA ClientStep ==
  ASSUME EventsInv, NEW d, Onward(pClient, d), Events!Becomes(d), Events!Others
  PROVE  EventsInv'
<1>1. /\ pClient' = d /\ d.gen <= MaxGen /\ d.nextId <= MaxId + 1
      /\ pFaults' = pFaults /\ pWire' = pWire /\ emitted' = emitted /\ heard' = heard
  BY DEF Events!Becomes, Events!Others
<1>2. Counted(d) /\ pClient.admitted \subseteq d.admitted
      /\ (d.id \in {Events!Undefined, pClient.id} \/ pClient.nextId <= d.id)
  BY DEF Onward
<1>3. Events!TypeOK'
  BY <1>1, <1>2, KnownEvents, Bounded DEF Events!TypeOK
<1>4. InLine'
  <2>1. ASSUME NEW b \in Events!Ids
        PROVE  /\ b \notin d.admitted => pWire[b] = <<>>
               /\ b = d.id => b = pClient.id \/ pWire[b] = <<>>
    <3>1. b \notin pClient.admitted => pWire[b] = <<>>
      BY KnownEvents DEF InLine
    <3>2. b \in pClient.admitted => b < pClient.nextId
      BY KnownEvents DEF Counted
    <3>3. pClient.nextId \in Nat /\ b \in Nat /\ b # Events!Undefined
      BY KnownEvents, HolderFields
    <3> QED
      BY <1>2, <3>1, <3>2, <3>3
  <2>2. Len(<<>>) = 0
    OBVIOUS
  <2>3. ASSUME NEW b \in Events!Ids, NEW i \in 1 .. Len(heard), NEW j \in 1 .. Len(pWire[b]), b = d.id
        PROVE  heard[i] < pWire[b][j]
    <3>1. pWire[b] # <<>>
      BY <2>2, <2>3
    <3>2. b = pClient.id
      BY <2>1, <2>3, <3>1
    <3> QED
      BY <2>3, <3>2, KnownEvents DEF InLine
  <2> QED
    BY <1>1, <2>1, <2>3, KnownEvents DEF InLine
<1> QED
  BY <1>1, <1>2, <1>3, <1>4 DEF EventsInv

-----------------------------------------------------------------------------

LEMMA PeerConnectsStep == ASSUME EventsInv, Events!PeerConnects PROVE EventsInv'
<1> DEFINE c == [pClient EXCEPT !.link = "open"]
<1>1. Events!Becomes(Events!Start(c, pClient.gen)) /\ Events!Others
  BY DEF Events!PeerConnects
<1>2. Onward(pClient, c) /\ Counted(c)
  <2>1. pClient \in Holders
    BY KnownEvents
  <2>2. c \in Holders
    <3>1. "open" \in {"down", "connecting", "open"}
      OBVIOUS
    <3> QED
      BY <2>1, <3>1, Zenon DEF Holders
  <2>3. /\ c.gen = pClient.gen /\ c.nextId = pClient.nextId /\ c.admitted = pClient.admitted
        /\ c.open = pClient.open /\ c.flights = pClient.flights
        /\ c.generation = pClient.generation /\ c.id = pClient.id
        /\ c.channel = pClient.channel /\ c.asked = pClient.asked
    BY <2>1 DEF Holders
  <2> HIDE DEF c
  <2> QED
    BY <2>2, <2>3, KnownEvents, NothingGivenOut DEF Onward
<1> HIDE DEF c
<1>3. Onward(pClient, Events!Start(c, pClient.gen))
  BY <1>2, KnownEvents, StartOnward, OnwardIsTransitive
<1> QED
  BY <1>1, <1>3, ClientStep

LEMMA PeerLostStep == ASSUME EventsInv, Events!PeerLost PROVE EventsInv'
<1> DEFINE r == Events!ResetPeer(pClient)
           c == [r EXCEPT !.link = "down"]
<1>1. Events!Becomes(c) /\ Events!Others
  BY DEF Events!PeerLost
<1>2. Onward(pClient, r) /\ Counted(r) /\ r \in Holders
  BY KnownEvents, ResetOnward DEF Onward, Counted
<1> HIDE DEF r
<1>3. Onward(r, c)
  <2>1. c \in Holders
    <3>1. "down" \in {"down", "connecting", "open"}
      OBVIOUS
    <3> QED
      BY <1>2, <3>1, Zenon DEF Holders
  <2>2. /\ c.gen = r.gen /\ c.nextId = r.nextId /\ c.admitted = r.admitted
        /\ c.open = r.open /\ c.flights = r.flights
        /\ c.generation = r.generation /\ c.id = r.id
        /\ c.channel = r.channel /\ c.asked = r.asked
    BY <1>2 DEF Holders
  <2> HIDE DEF c
  <2> QED
    BY <1>2, <2>1, <2>2, NothingGivenOut
<1> HIDE DEF c
<1> QED
  BY <1>1, <1>2, <1>3, KnownEvents, OnwardIsTransitive, ClientStep

LEMMA RecoverStep == ASSUME EventsInv, Events!Recover PROVE EventsInv'
BY KnownEvents, AttemptOnward, ClientStep DEF Events!Recover

\* The request is answered, whoever asked.
LEMMA AnsweredOnward ==
  ASSUME NEW c, Counted(c)
  PROVE  LET d == [c EXCEPT !.asked = Events!Undefined]
         IN /\ Onward(c, d) /\ d.gen = c.gen /\ d.nextId = c.nextId /\ d.id = c.id
            /\ d.open = c.open /\ d.admitted = c.admitted /\ d.channel = c.channel
            /\ d.flights = c.flights /\ d.generation = c.generation /\ d.asked = Events!Undefined
<1> DEFINE d == [c EXCEPT !.asked = Events!Undefined]
<1>1. c \in Holders
  BY DEF Counted
<1>2. d \in Holders
  <2>1. Events!Undefined \in Nat
    BY DEF Events!Undefined
  <2> QED
    BY <1>1, <2>1, Zenon DEF Holders
<1>3. /\ d.gen = c.gen /\ d.nextId = c.nextId /\ d.admitted = c.admitted /\ d.open = c.open
      /\ d.flights = c.flights /\ d.generation = c.generation /\ d.id = c.id
      /\ d.channel = c.channel /\ d.asked = Events!Undefined
  BY <1>1 DEF Holders
<1> HIDE DEF d
<1>4. Onward(c, d)
  BY <1>2, <1>3, NothingGivenOut
<1> QED
  BY <1>3, <1>4 DEF d

LEMMA SubscribeAnsweredStep == ASSUME EventsInv, Events!SubscribeAnswered PROVE EventsInv'
<1> DEFINE b == pClient.asked
           a == [pClient EXCEPT !.asked = Events!Undefined]
           d == [a EXCEPT !.open = @ \cup {b}, !.channel = b]
<1>1. b # Events!Undefined /\ Events!Others /\ (Events!Becomes(a) \/ Events!Becomes(d))
  BY DEF Events!SubscribeAnswered
<1>2. /\ Onward(pClient, a) /\ a.nextId = pClient.nextId
      /\ a.gen = pClient.gen /\ a.admitted = pClient.admitted /\ a.id = pClient.id
  BY KnownEvents, AnsweredOnward
<1> HIDE DEF a
<1>3. a \in Holders /\ Counted(a) /\ a.nextId \in Nat /\ a.gen \in Nat /\ b \in Nat
      /\ 1 <= b /\ b < a.nextId
  <2>1. Counted(pClient) /\ pClient \in Holders
    BY KnownEvents
  <2>2. b \in Nat /\ b < pClient.nextId
    BY <2>1, HolderFields DEF Counted
  <2>3. a \in Holders /\ Counted(a)
    BY <1>2 DEF Onward, Counted
  <2> QED
    BY <1>1, <1>2, <2>2, <2>3, HolderFields DEF Events!Undefined
<1> HIDE DEF b
<1>4. d \in Holders
  <2>1. a.open \cup {b} \in SUBSET Nat
    BY <1>3, HolderFields
  <2> QED
    BY <1>3, <2>1, Zenon DEF Holders
<1>5. /\ d.gen = a.gen /\ d.nextId = a.nextId /\ d.admitted = a.admitted
      /\ d.open = a.open \cup {b} /\ d.flights = a.flights /\ d.generation = a.generation
      /\ d.id = a.id /\ d.channel = b /\ d.asked = a.asked
  BY <1>3 DEF Holders
<1> HIDE DEF d
<1>6. Counted(d)
  <2>1. \A x \in d.open \cup d.admitted : 1 <= x /\ x < d.nextId
    BY <1>3, <1>5 DEF Counted
  <2> QED
    BY <1>3, <1>4, <1>5, <2>1 DEF Counted
<1>7. Onward(a, d)
  BY <1>3, <1>5, <1>6 DEF Onward
<1>8. Onward(pClient, d)
  BY <1>2, <1>7, KnownEvents, OnwardIsTransitive
<1>9. CASE Events!Becomes(a)
  BY <1>1, <1>2, <1>9, ClientStep
<1>10. CASE Events!Becomes(d)
  BY <1>1, <1>8, <1>10, ClientStep
<1> QED
  BY <1>1, <1>9, <1>10

LEMMA SubscribeFailsStep == ASSUME EventsInv, Events!SubscribeFails PROVE EventsInv'
<1> DEFINE a == [pClient EXCEPT !.asked = Events!Undefined]
<1>1. Events!Others /\ (Events!Becomes(a) \/ Events!Becomes(Events!Settle(a, "rejected")))
  BY DEF Events!SubscribeFails
<1>2. Onward(pClient, a) /\ Counted(a)
  BY KnownEvents, AnsweredOnward DEF Onward
<1> HIDE DEF a
<1>3. Onward(pClient, Events!Settle(a, "rejected"))
  BY <1>2, KnownEvents, SettleOnward, OnwardIsTransitive
<1> QED
  BY <1>1, <1>2, <1>3, ClientStep

LEMMA ChannelAdmittedStep ==
  ASSUME EventsInv, NEW b \in Events!Ids, Events!ChannelAdmitted(b)
  PROVE  EventsInv'
<1> DEFINE a == [pClient EXCEPT !.admitted = @ \cup {b}]
<1>1. b \in pClient.open /\ Events!Others /\ (Events!Becomes(a) \/ Events!Becomes(Events!Settle(a, "resolved")))
  BY DEF Events!ChannelAdmitted
<1>2. pClient \in Holders /\ Counted(pClient) /\ b \in Nat
  BY KnownEvents
<1>3. a \in Holders
  <2>1. pClient.admitted \cup {b} \in SUBSET Nat
    BY <1>2, HolderFields
  <2> QED
    BY <1>2, <2>1, Zenon DEF Holders
<1>4. /\ a.gen = pClient.gen /\ a.nextId = pClient.nextId
      /\ a.admitted = pClient.admitted \cup {b}
      /\ a.open = pClient.open /\ a.flights = pClient.flights
      /\ a.generation = pClient.generation /\ a.id = pClient.id
      /\ a.channel = pClient.channel /\ a.asked = pClient.asked
  BY <1>2 DEF Holders
<1> HIDE DEF a
<1>5. Counted(a)
  <2>1. \A x \in a.open \cup a.admitted : 1 <= x /\ x < a.nextId
    BY <1>1, <1>2, <1>4 DEF Counted
  <2> QED
    BY <1>2, <1>3, <1>4, <2>1 DEF Counted
<1>6. Onward(pClient, a)
  BY <1>2, <1>4, <1>5, HolderFields DEF Onward
<1>7. Onward(pClient, Events!Settle(a, "resolved"))
  BY <1>2, <1>5, <1>6, SettleOnward, OnwardIsTransitive
<1> QED
  BY <1>1, <1>6, <1>7, ClientStep

LEMMA ChannelRefusedStep ==
  ASSUME EventsInv, NEW b \in Events!Ids, Events!ChannelRefused(b)
  PROVE  EventsInv'
<1> DEFINE a == Events!CloseChannel(pClient, b)
<1>1. Events!Others /\ (Events!Becomes(a) \/ Events!Becomes(Events!Settle(a, "rejected")))
  BY DEF Events!ChannelRefused
<1>2. Onward(pClient, a) /\ Counted(a)
  BY KnownEvents, CloseOnward DEF Onward
<1> HIDE DEF a
<1>3. Onward(pClient, Events!Settle(a, "rejected"))
  BY <1>2, KnownEvents, SettleOnward, OnwardIsTransitive
<1> QED
  BY <1>1, <1>2, <1>3, ClientStep

LEMMA ChannelLostStep ==
  ASSUME EventsInv, NEW b \in Events!Ids, Events!ChannelLost(b)
  PROVE  EventsInv'
<1> DEFINE a == Events!CloseChannel(pClient, b)
<1>1. Events!Others /\ (Events!Becomes(a) \/ Events!Becomes(Events!Resubscribe(a, pClient.gen)))
  BY DEF Events!ChannelLost
<1>2. Onward(pClient, a) /\ Counted(a)
  BY KnownEvents, CloseOnward DEF Onward
<1> HIDE DEF a
<1>3. Onward(pClient, Events!Resubscribe(a, pClient.gen))
  BY <1>2, KnownEvents, ResubscribeOnward, OnwardIsTransitive
<1> QED
  BY <1>1, <1>2, <1>3, ClientStep

LEMMA UnsubscribeSettlesStep ==
  ASSUME EventsInv, NEW f \in Events!Flights, Events!UnsubscribeSettles(f)
  PROVE  EventsInv'
BY KnownEvents, ResumeOnward, ClientStep DEF Events!UnsubscribeSettles

LEMMA ReadySettlesStep ==
  ASSUME EventsInv, NEW f \in Events!Flights, Events!ReadySettles(f)
  PROVE  EventsInv'
<1> DEFINE d == [pClient EXCEPT !.flights = @ \ {f}, !.resubscribing = FALSE]
<1>1. Events!Others /\ Events!Becomes(d)
  BY DEF Events!ReadySettles
<1>2. pClient \in Holders /\ Counted(pClient)
  BY KnownEvents
<1>3. d \in Holders
  <2>1. pClient.flights \ {f} \in SUBSET Calls /\ FALSE \in BOOLEAN
    BY <1>2, HolderFields
  <2> QED
    BY <1>2, <2>1, Zenon DEF Holders
<1>4. /\ d.gen = pClient.gen /\ d.nextId = pClient.nextId /\ d.admitted = pClient.admitted
      /\ d.open = pClient.open /\ d.flights = pClient.flights \ {f}
      /\ d.generation = pClient.generation /\ d.id = pClient.id
      /\ d.channel = pClient.channel /\ d.asked = pClient.asked
  BY <1>2 DEF Holders
<1> HIDE DEF d
<1>5. Onward(pClient, d)
  BY <1>2, <1>3, <1>4, NothingGivenOut
<1> QED
  BY <1>1, <1>5, ClientStep

LEMMA UnsubscribeStep == ASSUME EventsInv, Events!Unsubscribe PROVE EventsInv'
<1> DEFINE c == [pClient EXCEPT !.closed = TRUE]
           d == Events!CloseChannel(c, pClient.channel)
<1>1. Events!Others /\ (Events!Becomes(c) \/ Events!Becomes(d))
  BY DEF Events!Unsubscribe
<1>2. pClient \in Holders /\ Counted(pClient)
  BY KnownEvents
<1>3. c \in Holders
  <2>1. TRUE \in BOOLEAN
    OBVIOUS
  <2> QED
    BY <1>2, <2>1, Zenon DEF Holders
<1>4. /\ c.gen = pClient.gen /\ c.nextId = pClient.nextId /\ c.admitted = pClient.admitted
      /\ c.open = pClient.open /\ c.flights = pClient.flights
      /\ c.generation = pClient.generation /\ c.id = pClient.id
      /\ c.channel = pClient.channel /\ c.asked = pClient.asked
  BY <1>2 DEF Holders
<1> HIDE DEF c
<1>5. Onward(pClient, c) /\ Counted(c)
  BY <1>2, <1>3, <1>4, NothingGivenOut DEF Onward
<1>6. Onward(pClient, d)
  BY <1>2, <1>5, CloseOnward, OnwardIsTransitive
<1> HIDE DEF d
<1> QED
  BY <1>1, <1>5, <1>6, ClientStep

\* What is sent comes after all that was.
LEMMA EmitStep == ASSUME EventsInv, Events!Emit PROVE EventsInv'
<1> DEFINE n == emitted + 1
<1>1. /\ emitted' = n /\ pFaults' = pFaults /\ pClient' = pClient /\ heard' = heard
      /\ pWire' = [b \in Events!Ids |-> IF b \in pClient.open \cap pClient.admitted
                                THEN Append(pWire[b], n) ELSE pWire[b]]
      /\ emitted < MaxEvents
  BY DEF Events!Emit
<1>2. n \in 1 .. MaxEvents /\ n \in Nat /\ emitted \in Nat /\ n = emitted + 1
  BY <1>1, KnownEvents
<1> HIDE DEF n
<1>3. ASSUME NEW b \in Events!Ids
      PROVE  /\ pWire'[b] \in Seq(1 .. MaxEvents) /\ Rising(pWire'[b], n)
             /\ b \notin pClient.admitted => pWire'[b] = <<>>
             /\ b = pClient.id => \A i \in 1 .. Len(heard), j \in 1 .. Len(pWire'[b]) :
                                    heard[i] < pWire'[b][j]
  <2>1. /\ pWire[b] \in Seq(1 .. MaxEvents) /\ MaxEvents \in Nat /\ heard \in Seq(1 .. MaxEvents)
        /\ Rising(pWire[b], emitted) /\ Rising(heard, emitted)
        /\ b \notin pClient.admitted => pWire[b] = <<>>
        /\ b = pClient.id => \A i \in 1 .. Len(heard), j \in 1 .. Len(pWire[b]) :
                               heard[i] < pWire[b][j]
    BY KnownEvents DEF InLine
  <2>2. /\ Rising(pWire[b], n) /\ \A i \in 1 .. Len(pWire[b]) : pWire[b][i] < n
    BY <1>2, <2>1, RisingLater
  <2>3. \A i \in 1 .. Len(heard) : heard[i] < n
    BY <1>2, <2>1, RisingLater
  <2>4. CASE b \in pClient.open \cap pClient.admitted
    <3> DEFINE more == Append(pWire[b], n)
    <3>1. pWire'[b] = more
      BY <1>1, <2>4
    <3>2. Rising(more, n)
      BY <1>2, <2>1, <2>2, RisingAppend
    <3>3. /\ more \in Seq(1 .. MaxEvents) /\ Len(more) = Len(pWire[b]) + 1
          /\ more[Len(pWire[b]) + 1] = n /\ Len(pWire[b]) \in Nat
          /\ \A j \in 1 .. Len(pWire[b]) : more[j] = pWire[b][j]
      BY <1>2, <2>1
    <3> HIDE DEF more
    <3>4. ASSUME b = pClient.id, NEW i \in 1 .. Len(heard), NEW j \in 1 .. Len(more)
          PROVE  heard[i] < more[j]
      <4>1. CASE j \in 1 .. Len(pWire[b])
        BY <2>1, <3>3, <3>4, <4>1
      <4>2. CASE j = Len(pWire[b]) + 1
        BY <2>3, <3>3, <4>2
      <4> QED
        BY <3>3, <4>1, <4>2
    <3> QED
      BY <2>4, <3>1, <3>2, <3>3, <3>4
  <2>5. CASE b \notin pClient.open \cap pClient.admitted
    <3>1. pWire'[b] = pWire[b]
      BY <1>1, <2>5
    <3> QED
      BY <2>1, <2>2, <3>1
  <2> QED
    BY <2>4, <2>5
<1>4. Rising(heard, n)
  BY <1>2, KnownEvents, RisingLater DEF InLine
<1>5. pWire' \in [Events!Ids -> Seq(1 .. MaxEvents)]
  <2>1. pWire' = [b \in Events!Ids |-> pWire'[b]]
    BY <1>1
  <2> QED
    BY <1>3, <2>1
<1>6. Events!TypeOK'
  <2>1. Events!TypeOK
    BY DEF EventsInv
  <2>2. emitted' \in 0 .. MaxEvents
    BY <1>1, <1>2
  <2> QED
    BY <1>1, <1>5, <2>1, <2>2 DEF Events!TypeOK
<1>7. InLine'
  BY <1>1, <1>3, <1>4 DEF InLine
<1> QED
  BY <1>1, <1>6, <1>7, KnownEvents DEF EventsInv

\* What the listener is told comes after all it was told.
LEMMA ReceiveStep ==
  ASSUME EventsInv, NEW b \in Events!Ids, Events!Receive(b)
  PROVE  EventsInv'
<1> DEFINE q == pWire[b]
           x == Head(q)
<1>1. /\ q # <<>> /\ pWire' = [pWire EXCEPT ![b] = Tail(q)]
      /\ pFaults' = pFaults /\ pClient' = pClient /\ emitted' = emitted
      /\ heard' = IF Events!IsCurrentBinding(pClient, b) THEN Append(heard, x) ELSE heard
  BY DEF Events!Receive
<1>2. /\ q \in Seq(1 .. MaxEvents) /\ MaxEvents \in Nat /\ emitted \in Nat
      /\ heard \in Seq(1 .. MaxEvents) /\ Rising(q, emitted) /\ Rising(heard, emitted)
  BY KnownEvents DEF InLine
<1>3. /\ Rising(Tail(q), emitted) /\ Tail(q) \in Seq(1 .. MaxEvents)
      /\ x \in 1 .. MaxEvents /\ x = q[1] /\ 1 \in 1 .. Len(q) /\ x <= emitted
      /\ \A j \in 1 .. Len(Tail(q)) : /\ j + 1 \in 1 .. Len(q) /\ Tail(q)[j] = q[j + 1]
                                      /\ x < Tail(q)[j]
  <2> HIDE DEF q
  <2> QED
    BY <1>1, <1>2, RisingTail
<1>4. /\ pWire'[b] = Tail(q) /\ \A c \in Events!Ids \ {b} : pWire'[c] = pWire[c]
      /\ pWire' \in [Events!Ids -> Seq(1 .. MaxEvents)]
  BY <1>1, <1>3, KnownEvents
<1>5. b = pClient.id => \A i \in 1 .. Len(heard), j \in 1 .. Len(q) : heard[i] < q[j]
  BY KnownEvents DEF InLine
<1>6. b \notin pClient.admitted => q = <<>>
  BY KnownEvents DEF InLine
<1> HIDE DEF x, q
<1>7. b \in pClient.admitted
  BY <1>1, <1>6
<1>8. CASE ~Events!IsCurrentBinding(pClient, b)
  <2>1. heard' = heard
    BY <1>1, <1>8
  <2>2. \A i \in 1 .. Len(heard), j \in 1 .. Len(Tail(q)) :
          b = pClient.id => heard[i] < Tail(q)[j]
    BY <1>3, <1>5
  <2>3. InLine'
    BY <1>1, <1>3, <1>4, <1>7, <2>1, <2>2, KnownEvents DEF InLine
  <2>4. Events!TypeOK'
    <3>1. Events!TypeOK
      BY DEF EventsInv
    <3> QED
      BY <1>1, <1>4, <2>1, <3>1 DEF Events!TypeOK
  <2> QED
    BY <1>1, <2>3, <2>4, KnownEvents DEF EventsInv
<1>9. CASE Events!IsCurrentBinding(pClient, b)
  <2> DEFINE more == Append(heard, x)
  <2>1. heard' = more /\ b = pClient.id
    BY <1>1, <1>9 DEF Events!IsCurrentBinding
  <2>2. \A i \in 1 .. Len(heard) : heard[i] < x
    BY <1>3, <1>5, <2>1
  <2>3. Rising(more, emitted)
    BY <1>2, <1>3, <2>2, RisingAppend
  <2>4. /\ more \in Seq(1 .. MaxEvents) /\ Len(more) = Len(heard) + 1
        /\ more[Len(heard) + 1] = x /\ Len(heard) \in Nat
        /\ \A i \in 1 .. Len(heard) : more[i] = heard[i]
    BY <1>2, <1>3
  <2> HIDE DEF more
  <2>5. \A i \in 1 .. Len(more), j \in 1 .. Len(Tail(q)) : more[i] < Tail(q)[j]
    <3> TAKE i \in 1 .. Len(more), j \in 1 .. Len(Tail(q))
    <3>1. CASE i \in 1 .. Len(heard)
      BY <1>3, <1>5, <2>1, <2>4, <3>1
    <3>2. CASE i = Len(heard) + 1
      BY <1>3, <2>4, <3>2
    <3> QED
      BY <2>4, <3>1, <3>2
  <2>6. InLine'
    <3>1. ASSUME NEW c \in Events!Ids
          PROVE  /\ c \notin pClient.admitted => pWire'[c] = <<>>
                 /\ Rising(pWire'[c], emitted)
                 /\ \A i \in 1 .. Len(more), j \in 1 .. Len(pWire'[c]) :
                      c = pClient.id => more[i] < pWire'[c][j]
      <4>1. CASE c = b
        BY <1>3, <1>4, <1>7, <2>5, <4>1
      <4>2. CASE c # b
        <5>1. c # pClient.id /\ pWire'[c] = pWire[c]
          BY <1>4, <2>1, <4>2
        <5> QED
          BY <5>1, KnownEvents DEF InLine
      <4> QED
        BY <4>1, <4>2
    <3> QED
      BY <1>1, <2>1, <2>3, <3>1 DEF InLine
  <2>7. Events!TypeOK'
    <3>1. Events!TypeOK
      BY DEF EventsInv
    <3> QED
      BY <1>1, <1>4, <2>1, <2>4, <3>1 DEF Events!TypeOK
  <2> QED
    BY <1>1, <2>6, <2>7, KnownEvents DEF EventsInv
<1> QED
  BY <1>8, <1>9

-----------------------------------------------------------------------------

LEMMA EventsInit == ASSUME Events!Init PROVE EventsInv
<1>1. pClient \in Holders /\ Counted(pClient) /\ pClient.gen = 1 /\ pClient.nextId = 1
  <2>1. pClient \in Holders
    BY DEF Events!Init, Holders, Events!Undefined
  <2> QED
    BY <2>1 DEF Events!Init, Counted, Events!Undefined
<1>2. <<>> \in Seq(1 .. MaxEvents) /\ Len(<<>>) = 0
  OBVIOUS
<1>3. Events!TypeOK
  <2>1. pClient.gen <= MaxGen /\ pClient.nextId <= MaxId + 1
    BY <1>1, EntityBoundsAssumption, TransportBoundsAssumption
  <2> QED
    BY <1>1, <1>2, <2>1, Bounded, EntityBoundsAssumption, TransportBoundsAssumption DEF Events!Init, Events!TypeOK
<1>4. InLine
  BY <1>2 DEF Events!Init, InLine, Rising
<1> QED
  BY <1>1, <1>3, <1>4 DEF EventsInv

LEMMA EventsNext == ASSUME EventsInv, [Events!Next]_(Events!vars) PROVE EventsInv'
<1>1. CASE Events!Next
  <2>1. CASE Events!PeerConnects \/ Events!PeerLost \/ Events!Recover \/ Events!SubscribeAnswered \/ Events!SubscribeFails
             \/ Events!Emit \/ Events!Unsubscribe
    BY <2>1, PeerConnectsStep, PeerLostStep, RecoverStep, SubscribeAnsweredStep,
       SubscribeFailsStep, EmitStep, UnsubscribeStep
  <2>2. CASE \E b \in Events!Ids : Events!ChannelAdmitted(b) \/ Events!ChannelRefused(b) \/ Events!ChannelLost(b) \/ Events!Receive(b)
    BY <2>2, ChannelAdmittedStep, ChannelRefusedStep, ChannelLostStep, ReceiveStep
  <2>3. CASE \E f \in Events!Flights : Events!UnsubscribeSettles(f) \/ Events!ReadySettles(f)
    BY <2>3, UnsubscribeSettlesStep, ReadySettlesStep
  <2> QED
    BY <1>1, <2>1, <2>2, <2>3 DEF Events!Next
<1>2. CASE UNCHANGED Events!vars
  BY <1>2 DEF Events!vars, EventsInv, Events!TypeOK, InLine
<1> QED
  BY <1>1, <1>2

LEMMA EventsImplied == ASSUME EventsInv PROVE Events!TypeOK /\ Events!HeardOnceInOrder
<1>1. DOMAIN heard = 1 .. Len(heard)
  BY KnownEvents
<1> QED
  BY <1>1, KnownEvents DEF EventsInv, InLine, Rising, Events!HeardOnceInOrder

\* The holder's channels come and go: the invariant holds in every reachable state.
THEOREM EventsInductive == Events!Spec => []EventsInv
<1>1. Events!Init => EventsInv
  BY EventsInit
<1>2. EventsInv /\ [Events!Next]_(Events!vars) => EventsInv'
  BY EventsNext
<1> QED
  BY <1>1, <1>2, PTL DEF Events!Spec

-----------------------------------------------------------------------------
(* Inbound control messages.                                               *)

\* The fields of the transport that the handler uses.
Transports ==
  [gen : 0 .. MaxPeers, phase : {"none", "attempt", "published"}, failed : BOOLEAN,
   completed : Seq(Control!Ids), retained : Int,
   assemblies : [Control!Ids -> [gen : 0 .. MaxPeers, chunks : SUBSET {1, 2}, armed : BOOLEAN]]]

\* What is assembled is finite, whatever the ids, and an assembly held has a generation.
Sound(t) ==
  /\ t \in Transports
  /\ IsFiniteSet(Control!Units(t))
  /\ \A id \in Control!Ids : t.assemblies[id].chunks \subseteq 1 .. Control!Count(id)
  /\ \A id \in Control!Held(t) : t.assemblies[id].gen # 0

\* The budget is what is held, and within its limit.
Balanced(t) ==
  /\ t.retained = Len(t.completed) + Cardinality(Control!Units(t))
  /\ t.retained <= MaxBytes

\* The completed ids are the latest deliveries: all of them, or MaxCompleted at least.
Tailing(done, all) ==
  /\ Len(done) <= Len(all)
  /\ Len(done) < MaxCompleted => Len(done) = Len(all)
  /\ \A i \in 1 .. Len(done) : done[i] = all[Len(all) - Len(done) + i]

\* An id that is not among the last MaxCompleted deliveries.
Fresh(id, all) == \A i \in 1 .. Len(all) : all[i] = id => MaxCompleted < Len(all) + 1 - i

\* The assembly of id is whole and of generation g.
WholeOf(t, g, id) ==
  t.assemblies[id].gen = g /\ t.assemblies[id].chunks = 1 .. Control!Count(id)

\* A peer or an attempt, before the loss.
Running ==
  control.phase # "none" =>
    /\ control.gen # 0 /\ ~control.failed /\ Balanced(control)
    /\ Tailing(control.completed, cDelivered[control.gen])
    /\ opening[control.gen].key = control.gen =>
         WholeOf(control, control.gen, opening[control.gen].id)

\* A chain has begun only with its peer, and what it decrypts under its own key is
\* no id it remembers.
ChainOf(g) ==
  /\ opening[g].key <= control.gen
  /\ opening[g].key = 0 => opening[g] = Control!NotOpening
  /\ opening[g].key = g => Fresh(opening[g].id, cDelivered[g])
  /\ g > control.gen => cDelivered[g] = <<>> /\ cQueue[g] = <<>> /\ opening[g] = Control!NotOpening

ControlInv ==
  /\ Control!TypeOK /\ Sound(control) /\ Running /\ Control!DeliveredOnce
  /\ \A g \in Control!Gens : ChainOf(g)

-----------------------------------------------------------------------------

Assemblies == [gen : 0 .. MaxPeers, chunks : SUBSET {1, 2}, armed : BOOLEAN]

\* The instance counts as the module does.
LEMMA SameCardinality == \A S : Control!Cardinality(S) = Cardinality(S)
BY DEF Control!Cardinality, Cardinality

LEMMA Empty == Control!NoAssembly \in Assemblies
BY TransportBoundsAssumption DEF Control!NoAssembly, Assemblies

LEMMA Counts == ASSUME NEW id \in Control!Ids PROVE Control!Count(id) \in {1, 2}
BY DEF Control!Count

\* The peer's reset leaves nothing held and nothing counted.
LEMMA ControlResetFields ==
  ASSUME NEW t \in Transports
  PROVE  LET r == Control!Reset(t)
         IN /\ Sound(r) /\ r.gen = t.gen /\ r.phase = "none" /\ r.failed = t.failed
            /\ r.completed = <<>> /\ r.retained = 0 /\ Control!Units(r) = {}
            /\ r.assemblies = [id \in Control!Ids |-> Control!NoAssembly]
<1> DEFINE none == [id \in Control!Ids |-> Control!NoAssembly]
           r == [t EXCEPT !.phase = "none", !.completed = <<>>, !.retained = 0,
                          !.assemblies = none]
<1>1. Control!Reset(t) = r
  BY DEF Control!Reset
<1>2. none \in [Control!Ids -> Assemblies] /\ (\A id \in Control!Ids : none[id] = Control!NoAssembly)
  BY Empty
<1> HIDE DEF none
<1>3. /\ r.gen = t.gen /\ r.phase = "none" /\ r.failed = t.failed
      /\ r.completed = <<>> /\ r.retained = 0 /\ r.assemblies = none
  BY DEF Transports
<1>4. r \in Transports
  <2>1. <<>> \in Seq(Control!Ids) /\ 0 \in Int /\ "none" \in {"none", "attempt", "published"}
    OBVIOUS
  <2>2. [t EXCEPT !.phase = "none", !.completed = <<>>, !.retained = 0] \in Transports
    BY <2>1 DEF Transports
  <2> QED
    BY <1>2, <2>2 DEF Transports, Assemblies
<1> HIDE DEF r
<1>5. Control!Held(r) = {}
  BY <1>2, <1>3 DEF Control!Held
<1>6. Control!Units(r) = {} /\ IsFiniteSet(Control!Units(r))
  BY <1>5, FS_EmptySet DEF Control!Units
<1>7. Sound(r)
  <2>1. \A id \in Control!Ids : r.assemblies[id].chunks = {}
    BY <1>2, <1>3 DEF Control!NoAssembly
  <2> QED
    BY <1>4, <1>5, <1>6, <2>1 DEF Sound
<1> QED
  BY <1>1, <1>3, <1>6, <1>7 DEF none

\* failPeerGeneration leaves everything, or ends the peer of the generation named.
LEMMA FailedFields ==
  ASSUME NEW t, Sound(t), NEW g
  PROVE  LET d == Control!Failed(t, g)
         IN /\ Sound(d) /\ d.gen = t.gen
            /\ \/ d = t /\ (g # t.gen \/ t.failed)
               \/ d.phase = "none"
<1>1. CASE g # t.gen \/ t.failed
  BY <1>1 DEF Control!Failed
<1>2. CASE ~(g # t.gen \/ t.failed)
  <2> DEFINE r == Control!Reset(t)
             d == [r EXCEPT !.failed = TRUE]
  <2>1. Control!Failed(t, g) = d
    BY <1>2 DEF Control!Failed
  <2>2. Sound(r) /\ r.gen = t.gen /\ r.phase = "none"
    BY ControlResetFields DEF Sound
  <2> HIDE DEF r
  <2>3. /\ d \in Transports /\ d.gen = r.gen /\ d.phase = r.phase
        /\ d.assemblies = r.assemblies
    BY <2>2 DEF Sound, Transports
  <2> HIDE DEF d
  <2>4. Control!Held(d) = Control!Held(r) /\ Control!Units(d) = Control!Units(r)
    BY <2>3 DEF Control!Held, Control!Units
  <2>5. Sound(d)
    BY <2>2, <2>3, <2>4 DEF Sound
  <2> QED
    BY <2>1, <2>2, <2>3, <2>5
<1> QED
  BY <1>1, <1>2

Rewrite(t, id, a, n) == [t EXCEPT !.assemblies[id] = a, !.retained = n]

\* One assembly written anew, and the units that are held then.
LEMMA Rewritten ==
  ASSUME NEW t, Sound(t), NEW id \in Control!Ids, NEW a \in Assemblies, NEW n \in Int,
         a.chunks \subseteq 1 .. Control!Count(id), a = Control!NoAssembly \/ a.gen # 0
  PROVE  LET d == Rewrite(t, id, a, n)
         IN /\ Sound(d)
            /\ d.gen = t.gen /\ d.phase = t.phase /\ d.failed = t.failed
            /\ d.completed = t.completed /\ d.retained = n
            /\ d.assemblies[id] = a
            /\ \A other \in Control!Ids \ {id} : d.assemblies[other] = t.assemblies[other]
            /\ Control!Units(d) = {u \in Control!Units(t) : u[1] # id}
                            \cup (IF a = Control!NoAssembly THEN {} ELSE {id} \X ({0} \cup a.chunks))
<1> DEFINE all == [t.assemblies EXCEPT ![id] = a]
           d == [t EXCEPT !.assemblies = all, !.retained = n]
           own == IF a = Control!NoAssembly THEN {} ELSE {id} \X ({0} \cup a.chunks)
           rest == {u \in Control!Units(t) : u[1] # id}
<1>1. Rewrite(t, id, a, n) = d
  BY DEF Rewrite, Sound, Transports
<1>2. t \in Transports /\ t.assemblies \in [Control!Ids -> Assemblies]
  BY DEF Sound, Transports, Assemblies
<1>3. /\ all \in [Control!Ids -> Assemblies] /\ all[id] = a
      /\ \A other \in Control!Ids \ {id} : all[other] = t.assemblies[other]
  BY <1>2
<1> HIDE DEF all
<1>4. /\ d.gen = t.gen /\ d.phase = t.phase /\ d.failed = t.failed
      /\ d.completed = t.completed /\ d.retained = n /\ d.assemblies = all
  BY <1>2 DEF Transports
<1>5. d \in Transports
  BY <1>2, <1>3 DEF Transports, Assemblies
<1> HIDE DEF d
<1>6. Control!Units(d) = rest \cup own
  <2>1. ASSUME NEW u \in Control!Ids \X {0, 1, 2}
        PROVE  u \in Control!Units(d) <=> u \in rest \cup own
    <3>1. CASE u[1] = id
      <4>1. u \in Control!Units(d) <=> a # Control!NoAssembly /\ (u[2] = 0 \/ u[2] \in a.chunks)
        BY <1>3, <1>4, <3>1 DEF Control!Units, Control!Held
      <4>2. u \in own <=> a # Control!NoAssembly /\ (u[2] = 0 \/ u[2] \in a.chunks)
        BY <3>1
      <4> QED
        BY <3>1, <4>1, <4>2
    <3>2. CASE u[1] # id
      <4>1. u \notin own
        BY <3>2
      <4>2. u \in Control!Units(d) <=> u \in Control!Units(t)
        BY <1>3, <1>4, <3>2 DEF Control!Units, Control!Held
      <4> QED
        BY <3>2, <4>1, <4>2
    <3> QED
      BY <3>1, <3>2
  <2>2. own \subseteq Control!Ids \X {0, 1, 2}
    BY DEF Assemblies
  <2>3. Control!Units(d) \subseteq Control!Ids \X {0, 1, 2} /\ rest \subseteq Control!Ids \X {0, 1, 2}
    BY DEF Control!Units
  <2> QED
    BY <2>1, <2>2, <2>3
<1>7. IsFiniteSet(Control!Units(d))
  <2>1. IsFiniteSet(rest)
    BY FS_Subset DEF Sound
  <2>2. own \subseteq {<<id, 0>>, <<id, 1>>, <<id, 2>>}
    BY DEF Assemblies
  <2>3. IsFiniteSet({<<id, 0>>, <<id, 1>>, <<id, 2>>})
    <3>1. IsFiniteSet({<<id, 0>>})
      BY FS_Singleton
    <3>2. IsFiniteSet({<<id, 0>>} \cup {<<id, 1>>})
      BY <3>1, FS_AddElement
    <3>3. IsFiniteSet(({<<id, 0>>} \cup {<<id, 1>>}) \cup {<<id, 2>>})
      BY <3>2, FS_AddElement
    <3>4. ({<<id, 0>>} \cup {<<id, 1>>}) \cup {<<id, 2>>} = {<<id, 0>>, <<id, 1>>, <<id, 2>>}
      OBVIOUS
    <3> QED
      BY <3>3, <3>4
  <2>4. IsFiniteSet(own)
    BY <2>2, <2>3, FS_Subset
  <2> HIDE DEF own, rest
  <2> QED
    BY <1>6, <2>1, <2>4, FS_Union
<1>8. Sound(d)
  <2>1. \A k \in Control!Ids : d.assemblies[k].chunks \subseteq 1 .. Control!Count(k)
    BY <1>3, <1>4 DEF Sound
  <2>2. \A k \in Control!Held(d) : d.assemblies[k].gen # 0
    <3> TAKE k \in Control!Held(d)
    <3>1. CASE k = id
      BY <1>3, <1>4, <3>1 DEF Control!Held
    <3>2. CASE k # id
      BY <1>3, <1>4, <3>2 DEF Control!Held, Sound
    <3> QED
      BY <3>1, <3>2
  <2> QED
    BY <1>5, <1>7, <2>1, <2>2 DEF Sound
<1> QED
  BY <1>1, <1>3, <1>4, <1>6, <1>8

\* A set grown by one or two elements.
LEMMA GrownByOne ==
  ASSUME NEW S, IsFiniteSet(S), NEW x, x \notin S
  PROVE  Cardinality(S \cup {x}) = Cardinality(S) + 1 /\ IsFiniteSet(S \cup {x})
         /\ Cardinality(S) \in Nat
BY FS_AddElement, FS_CardinalityType

LEMMA GrownByTwo ==
  ASSUME NEW S, IsFiniteSet(S), NEW x, NEW y, x \notin S, y \notin S, x # y
  PROVE  Cardinality(S \cup {x, y}) = Cardinality(S) + 2 /\ IsFiniteSet(S \cup {x, y})
<1>1. Cardinality(S \cup {x}) = Cardinality(S) + 1 /\ IsFiniteSet(S \cup {x})
      /\ Cardinality(S) \in Nat
  BY GrownByOne
<1>2. /\ Cardinality((S \cup {x}) \cup {y}) = Cardinality(S \cup {x}) + 1
      /\ IsFiniteSet((S \cup {x}) \cup {y})
  <2>1. y \notin S \cup {x}
    OBVIOUS
  <2> QED
    BY <1>1, <2>1, GrownByOne
<1>3. (S \cup {x}) \cup {y} = S \cup {x, y}
  OBVIOUS
<1> QED
  BY <1>1, <1>2, <1>3

LEMMA GrownByThree ==
  ASSUME NEW S, IsFiniteSet(S), NEW x, NEW y, NEW z, x \notin S, y \notin S, z \notin S,
         x # y, x # z, y # z
  PROVE  Cardinality(S \cup {x, y, z}) = Cardinality(S) + 3
<1>1. Cardinality(S \cup {x, y}) = Cardinality(S) + 2 /\ IsFiniteSet(S \cup {x, y})
      /\ Cardinality(S) \in Nat
  BY GrownByTwo, FS_CardinalityType
<1>2. Cardinality((S \cup {x, y}) \cup {z}) = Cardinality(S \cup {x, y}) + 1
  <2>1. z \notin S \cup {x, y}
    OBVIOUS
  <2> QED
    BY <1>1, <2>1, GrownByOne
<1>3. (S \cup {x, y}) \cup {z} = S \cup {x, y, z}
  OBVIOUS
<1> QED
  BY <1>1, <1>2, <1>3

\* A chunk that is kept costs what the budget check asked for.
LEMMA KeptFields ==
  ASSUME NEW t, Sound(t), NEW g \in Control!Gens, NEW c \in Control!Chunks,
         ~Control!Refuses(t, g, c), ~Control!IsDuplicate(t, c)
  PROVE  LET k == Control!Kept(t, g, c)
         IN /\ Sound(k)
            /\ k.gen = t.gen /\ k.phase = t.phase /\ k.failed = t.failed
            /\ k.completed = t.completed
            /\ k.assemblies[c.id].gen = g
            /\ \A other \in Control!Ids \ {c.id} : k.assemblies[other] = t.assemblies[other]
            /\ Balanced(t) => Balanced(k)
<1> DEFINE id == c.id
           old == t.assemblies[id]
           a == IF id \in Control!Held(t) THEN [old EXCEPT !.chunks = @ \cup {c.index}]
                ELSE [gen |-> g, chunks |-> {c.index}, armed |-> TRUE]
           n == t.retained + IF id \in Control!Held(t) THEN 1 ELSE 2
           k == Rewrite(t, id, a, n)
<1>1. Control!Kept(t, g, c) = k
  <2>1. CASE id \in Control!Held(t)
    BY <2>1 DEF Control!Kept, Rewrite
  <2>2. CASE id \notin Control!Held(t)
    BY <2>2 DEF Control!Kept, Rewrite
  <2> QED
    BY <2>1, <2>2
<1>2. /\ id \in Control!Ids /\ c.index \in {1, 2} /\ c.index <= Control!Count(id)
      /\ old \in Assemblies /\ t.retained \in Int /\ g \in 0 .. MaxPeers /\ g # 0
  BY DEF Sound, Transports, Control!Chunks, Assemblies, Control!Gens
<1>3. /\ a \in Assemblies /\ a.gen = g /\ a.chunks = old.chunks \cup {c.index}
      /\ c.index \notin old.chunks
  <2>1. CASE id \in Control!Held(t)
    <3>1. old.gen = g /\ c.index \notin old.chunks
      BY <2>1 DEF Control!Refuses, Control!IsDuplicate
    <3> QED
      BY <1>2, <2>1, <3>1 DEF Assemblies
  <2>2. CASE id \notin Control!Held(t)
    <3>1. old.chunks = {}
      BY <1>2, <2>2 DEF Control!Held, Control!NoAssembly
    <3> QED
      BY <1>2, <2>2, <3>1 DEF Assemblies
  <2> QED
    BY <2>1, <2>2
<1>4. a # Control!NoAssembly /\ n \in Int /\ a.chunks \subseteq 1 .. Control!Count(id)
  <2>1. old.chunks \subseteq 1 .. Control!Count(id)
    BY <1>2 DEF Sound
  <2>2. a # Control!NoAssembly
    BY <1>2, <1>3 DEF Control!NoAssembly
  <2>3. c.index \in 1 .. Control!Count(id)
    BY <1>2, Counts
  <2> QED
    BY <1>2, <1>3, <2>1, <2>2, <2>3
<1>5. n = t.retained + IF id \in Control!Held(t) THEN 1 ELSE 2
  OBVIOUS
<1> HIDE DEF a, n
<1>6. /\ Sound(k)
      /\ k.gen = t.gen /\ k.phase = t.phase /\ k.failed = t.failed
      /\ k.completed = t.completed /\ k.retained = n
      /\ k.assemblies[id] = a
      /\ \A other \in Control!Ids \ {id} : k.assemblies[other] = t.assemblies[other]
      /\ Control!Units(k) = {u \in Control!Units(t) : u[1] # id} \cup ({id} \X ({0} \cup a.chunks))
  <2>1. a = Control!NoAssembly \/ a.gen # 0
    BY <1>2, <1>3
  <2> HIDE DEF id
  <2> QED
    BY <1>2, <1>3, <1>4, <2>1, Rewritten
<1> HIDE DEF k
<1>7. ASSUME Balanced(t)
      PROVE  Balanced(k)
  <2>1. IsFiniteSet(Control!Units(t)) /\ <<id, c.index>> \notin Control!Units(t)
    BY <1>2, <1>3 DEF Sound, Control!Units, Assemblies
  <2>2. CASE id \in Control!Held(t)
    <3>1. Control!Units(k) = Control!Units(t) \cup {<<id, c.index>>}
      <4>1. {u \in Control!Units(t) : u[1] = id} = {id} \X ({0} \cup old.chunks)
        <5>1. old.chunks \subseteq {1, 2}
          BY <1>2 DEF Assemblies
        <5> QED
          BY <1>2, <2>2, <5>1 DEF Control!Units
      <4>2. {id} \X ({0} \cup a.chunks) = ({id} \X ({0} \cup old.chunks)) \cup {<<id, c.index>>}
        BY <1>3
      <4> QED
        BY <1>6, <4>1, <4>2
    <3>2. Cardinality(Control!Units(k)) = Cardinality(Control!Units(t)) + 1
      BY <2>1, <3>1, GrownByOne
    <3>3. n = t.retained + 1 /\ n <= MaxBytes
      BY <1>3, <1>5, <2>2 DEF Control!Refuses, Control!Fits
    <3>4. Cardinality(Control!Units(t)) \in Nat /\ Len(t.completed) \in Nat
      BY <2>1, FS_CardinalityType DEF Sound, Transports
    <3> QED
      BY <1>6, <1>7, <3>2, <3>3, <3>4 DEF Balanced
  <2>3. CASE id \notin Control!Held(t)
    <3>1. Control!Units(k) = Control!Units(t) \cup {<<id, 0>>, <<id, c.index>>}
      <4>1. {u \in Control!Units(t) : u[1] = id} = {} /\ old.chunks = {}
        BY <1>2, <2>3 DEF Control!Units, Control!Held, Control!NoAssembly
      <4>2. {id} \X ({0} \cup a.chunks) = {<<id, 0>>, <<id, c.index>>}
        BY <1>3, <4>1
      <4>3. {u \in Control!Units(t) : u[1] # id} = Control!Units(t)
        BY <4>1
      <4> QED
        BY <1>6, <4>2, <4>3
    <3>2. Cardinality(Control!Units(k)) = Cardinality(Control!Units(t)) + 2
      <4>1. <<id, 0>> \notin Control!Units(t) /\ <<id, 0>> # <<id, c.index>>
        BY <1>2, <2>3 DEF Control!Units
      <4> QED
        BY <2>1, <3>1, <4>1, GrownByTwo
    <3>3. n = t.retained + 2 /\ n <= MaxBytes
      BY <1>5, <2>3 DEF Control!Refuses, Control!Fits
    <3>4. Cardinality(Control!Units(t)) \in Nat /\ Len(t.completed) \in Nat
      BY <2>1, FS_CardinalityType DEF Sound, Transports
    <3> QED
      BY <1>6, <1>7, <3>2, <3>3, <3>4 DEF Balanced
  <2> QED
    BY <2>2, <2>3
<1> QED
  BY <1>1, <1>3, <1>6, <1>7

\* A message is complete with all its chunks.
LEMMA CompleteIsWhole ==
  ASSUME NEW t, Sound(t), NEW id \in Control!Ids, Control!IsComplete(t, id)
  PROVE  t.assemblies[id].chunks = 1 .. Control!Count(id)
<1> DEFINE S == t.assemblies[id].chunks
<1>1. S \subseteq 1 .. Control!Count(id) /\ Cardinality(S) = Control!Count(id) /\ Control!Count(id) \in {1, 2}
  BY Counts, SameCardinality DEF Sound, Control!IsComplete
<1> HIDE DEF S
<1>2. S # {}
  <2>1. Cardinality({}) = 0
    BY FS_EmptySet
  <2> QED
    BY <1>1, <2>1
<1>3. CASE Control!Count(id) = 1
  <2>1. S \subseteq {1} /\ 1 .. Control!Count(id) = {1}
    BY <1>1, <1>3
  <2> QED
    BY <1>2, <2>1 DEF S
<1>4. CASE Control!Count(id) = 2
  <2>1. Cardinality({1}) = 1 /\ Cardinality({2}) = 1
    BY FS_Singleton
  <2>2. S # {1} /\ S # {2}
    BY <1>1, <1>4, <2>1
  <2>3. S \subseteq {1, 2} /\ 1 .. Control!Count(id) = {1, 2}
    BY <1>1, <1>4
  <2> HIDE DEF S
  <2>4. 1 \in S /\ 2 \in S
    BY <1>2, <2>2, <2>3
  <2> QED
    BY <2>3, <2>4 DEF S
<1> QED
  BY <1>1, <1>3, <1>4 DEF S

\* The messages that end a decrypt: the whole assembly and its size.
LEMMA WholeSize ==
  ASSUME NEW id \in Control!Ids, NEW g
  PROVE  Control!Size([gen |-> g, chunks |-> 1 .. Control!Count(id), armed |-> TRUE]) = 1 + Control!Count(id)
<1>1. Cardinality(1 .. Control!Count(id)) = Control!Count(id)
  BY Counts, FS_Interval
<1> QED
  BY <1>1, SameCardinality DEF Control!Size, Control!NoAssembly

\* releaseAssembly: whoever calls it, and for a whole assembly what is freed is what
\* was held.
LEMMA ReleasedFields ==
  ASSUME NEW t, Sound(t), NEW id \in Control!Ids, NEW g
  PROVE  LET r == Control!Released(t, id, [gen |-> g, chunks |-> 1 .. Control!Count(id), armed |-> TRUE])
         IN /\ Sound(r)
            /\ r.gen = t.gen /\ r.phase = t.phase /\ r.failed = t.failed
            /\ r.completed = t.completed
            /\ \A other \in Control!Ids \ {id} : r.assemblies[other] = t.assemblies[other]
            /\ r.retained = t.retained - (1 + Control!Count(id))
            /\ g # 0 /\ WholeOf(t, g, id) =>
                 Cardinality(Control!Units(t)) = Cardinality(Control!Units(r)) + 1 + Control!Count(id)
<1> DEFINE n == t.retained - (1 + Control!Count(id))
           r == Rewrite(t, id, Control!NoAssembly, n)
<1>1. Control!Released(t, id, [gen |-> g, chunks |-> 1 .. Control!Count(id), armed |-> TRUE]) = r
  <2>1. t \in Transports
    BY DEF Sound
  <2> QED
    BY <2>1, WholeSize DEF Control!Released, Rewrite, Transports
<1>2. n \in Int
  <2>1. t.retained \in Int /\ Control!Count(id) \in {1, 2}
    BY Counts, Zenon DEF Sound, Transports
  <2> QED
    BY ONLY <2>1 DEF n
<1> HIDE DEF n
<1>3. /\ Sound(r)
      /\ r.gen = t.gen /\ r.phase = t.phase /\ r.failed = t.failed
      /\ r.completed = t.completed /\ r.retained = n
      /\ \A other \in Control!Ids \ {id} : r.assemblies[other] = t.assemblies[other]
      /\ Control!Units(r) = {u \in Control!Units(t) : u[1] # id}
  <2>1. Control!NoAssembly.chunks \subseteq 1 .. Control!Count(id)
    BY DEF Control!NoAssembly
  <2> QED
    BY <1>2, <2>1, Empty, Rewritten
<1> HIDE DEF r
<1>4. ASSUME g # 0, WholeOf(t, g, id)
      PROVE  Cardinality(Control!Units(t)) = Cardinality(Control!Units(r)) + 1 + Control!Count(id)
  <2>1. id \in Control!Held(t) /\ t.assemblies[id].chunks = 1 .. Control!Count(id)
    BY <1>4 DEF Control!Held, WholeOf, Control!NoAssembly
  <2>2. IsFiniteSet(Control!Units(r)) /\ (\A i \in {0, 1, 2} : <<id, i>> \notin Control!Units(r))
    BY <1>3 DEF Sound
  <2>3. {u \in Control!Units(t) : u[1] = id} = {id} \X ({0} \cup 1 .. Control!Count(id))
    BY <2>1, Counts DEF Control!Units
  <2>4. Control!Units(t) = Control!Units(r) \cup ({id} \X ({0} \cup 1 .. Control!Count(id)))
    BY <1>3, <2>3
  <2>7. Cardinality(Control!Units(r)) \in Nat
    BY <2>2, FS_CardinalityType
  <2>5. CASE Control!Count(id) = 1
    <3>1. Control!Units(t) = Control!Units(r) \cup {<<id, 0>>, <<id, 1>>}
      BY <2>4, <2>5
    <3>2. Cardinality(Control!Units(r) \cup {<<id, 0>>, <<id, 1>>}) = Cardinality(Control!Units(r)) + 2
      <4>1. <<id, 0>> \notin Control!Units(r) /\ <<id, 1>> \notin Control!Units(r) /\ <<id, 0>> # <<id, 1>>
        BY <2>2
      <4> QED
        BY <2>2, <4>1, GrownByTwo
    <3> QED
      BY <2>5, <2>7, <3>1, <3>2
  <2>6. CASE Control!Count(id) = 2
    <3>1. Control!Units(t) = Control!Units(r) \cup {<<id, 0>>, <<id, 1>>, <<id, 2>>}
      BY <2>4, <2>6
    <3>2. Cardinality(Control!Units(r) \cup {<<id, 0>>, <<id, 1>>, <<id, 2>>})
            = Cardinality(Control!Units(r)) + 3
      <4>1. /\ <<id, 0>> \notin Control!Units(r) /\ <<id, 1>> \notin Control!Units(r)
            /\ <<id, 2>> \notin Control!Units(r) /\ <<id, 0>> # <<id, 1>>
            /\ <<id, 0>> # <<id, 2>> /\ <<id, 1>> # <<id, 2>>
        BY <2>2
      <4> QED
        BY <2>2, <4>1, GrownByThree
    <3> QED
      BY <2>6, <2>7, <3>1, <3>2
  <2> QED
    BY <2>5, <2>6, Counts
<1> QED
  BY <1>1, <1>3, <1>4 DEF n

\* retainCompletedMessageId
LEMMA RetainedFields ==
  ASSUME NEW t, Sound(t), NEW id \in Control!Ids
  PROVE  LET r == Control!Retained(t, id)
         IN /\ Sound(r)
            /\ r.gen = t.gen /\ r.phase = t.phase /\ r.failed = t.failed
            /\ r.assemblies = t.assemblies /\ Control!Units(r) = Control!Units(t)
            /\ IF Len(t.completed) < MaxCompleted
               THEN r.completed = Append(t.completed, id) /\ r.retained = t.retained + 1
               ELSE /\ r.completed = Append(Tail(t.completed), id)
                    /\ r.retained = t.retained
<1> DEFINE done == IF Len(t.completed) < MaxCompleted THEN Append(t.completed, id)
                   ELSE Append(Tail(t.completed), id)
           n == IF Len(t.completed) < MaxCompleted THEN t.retained + 1 ELSE t.retained
           r == [t EXCEPT !.completed = done, !.retained = n]
<1>1. t \in Transports /\ t.completed \in Seq(Control!Ids) /\ t.retained \in Int
  BY DEF Sound, Transports
<1>2. Control!Retained(t, id) = r
  BY <1>1 DEF Control!Retained, Transports
<1>3. done \in Seq(Control!Ids) /\ n \in Int
  <2>1. CASE Len(t.completed) < MaxCompleted
    BY <1>1, <2>1
  <2>2. CASE ~(Len(t.completed) < MaxCompleted)
    <3>1. t.completed # <<>>
      BY <1>1, <2>2, TransportBoundsAssumption
    <3> QED
      BY <1>1, <2>2, <3>1
  <2> QED
    BY <2>1, <2>2
<1> HIDE DEF done, n
<1>4. /\ r \in Transports /\ r.completed = done /\ r.retained = n
      /\ r.gen = t.gen /\ r.phase = t.phase /\ r.failed = t.failed
      /\ r.assemblies = t.assemblies
  BY <1>1, <1>3 DEF Transports
<1> HIDE DEF r
<1>5. Control!Held(r) = Control!Held(t) /\ Control!Units(r) = Control!Units(t)
  BY <1>4 DEF Control!Held, Control!Units
<1>6. Sound(r)
  BY <1>4, <1>5 DEF Sound
<1> QED
  BY <1>2, <1>4, <1>5, <1>6 DEF done, n

-----------------------------------------------------------------------------

LEMMA TailAdded ==
  ASSUME NEW done \in Seq(Control!Ids), NEW all \in Seq(Control!Ids), Tailing(done, all),
         NEW id \in Control!Ids, NEW next \in Seq(Control!Ids), NEW more \in Seq(Control!Ids),
         Len(more) = Len(all) + 1, more[Len(all) + 1] = id,
         \A i \in 1 .. Len(all) : more[i] = all[i],
         Len(done) < MaxCompleted, Len(next) = Len(done) + 1, next[Len(done) + 1] = id,
         \A i \in 1 .. Len(done) : next[i] = done[i]
  PROVE  Tailing(next, more)
<1>1. /\ Len(done) \in Nat /\ Len(all) \in Nat /\ Len(done) <= Len(all)
      /\ Len(done) < MaxCompleted => Len(done) = Len(all)
      /\ \A i \in 1 .. Len(done) : done[i] = all[Len(all) - Len(done) + i]
  BY DEF Tailing
<1>2. /\ Len(next) = Len(done) + 1 /\ Len(done) = Len(all) /\ Len(more) = Len(all) + 1
      /\ \A k \in 1 .. Len(done) : next[k] = done[k]
  BY <1>1
<1>3. ASSUME NEW i \in 1 .. Len(next)
      PROVE  next[i] = more[Len(more) - Len(next) + i]
  <2>1. Len(more) - Len(next) + i = i
    BY ONLY <1>1, <1>2
  <2>2. CASE i = Len(done) + 1
    BY ONLY next[Len(done) + 1] = id, more[Len(all) + 1] = id, <1>2, <2>1, <2>2
  <2>3. CASE i # Len(done) + 1
    <3>1. i \in 1 .. Len(done) /\ i \in 1 .. Len(all) /\ Len(all) - Len(done) + i = i
      BY ONLY <1>1, <1>2, <2>3
    <3>2. next[i] = all[i]
      BY ONLY <1>1, <1>2, <3>1
    <3> QED
      BY <2>1, <3>1, <3>2
  <2> QED
    BY <2>2, <2>3
<1>4. Len(next) <= Len(more) /\ (Len(next) < MaxCompleted => Len(next) = Len(more))
  BY <1>1, <1>2, TransportBoundsAssumption
<1> QED
  BY <1>3, <1>4 DEF Tailing

LEMMA TailTurned ==
  ASSUME NEW done \in Seq(Control!Ids), NEW all \in Seq(Control!Ids), Tailing(done, all),
         NEW id \in Control!Ids, NEW next \in Seq(Control!Ids), NEW more \in Seq(Control!Ids),
         Len(more) = Len(all) + 1, more[Len(all) + 1] = id,
         \A i \in 1 .. Len(all) : more[i] = all[i],
         ~(Len(done) < MaxCompleted), Len(next) = Len(done), next[Len(done)] = id,
         \A i \in 1 .. Len(done) - 1 : next[i] = done[i + 1]
  PROVE  Tailing(next, more)
<1>1. /\ Len(done) \in Nat /\ Len(all) \in Nat /\ Len(done) <= Len(all)
      /\ Len(done) < MaxCompleted => Len(done) = Len(all)
      /\ \A i \in 1 .. Len(done) : done[i] = all[Len(all) - Len(done) + i]
  BY DEF Tailing
<1>2. /\ Len(next) = Len(done) /\ Len(more) = Len(all) + 1 /\ ~(Len(next) < MaxCompleted)
      /\ \A k \in 1 .. Len(done) - 1 : next[k] = done[k + 1]
  OBVIOUS
<1>3. ASSUME NEW i \in 1 .. Len(next)
      PROVE  next[i] = more[Len(more) - Len(next) + i]
  <2>1. CASE i = Len(done)
    <3>1. Len(more) - Len(next) + i = Len(all) + 1
      BY ONLY <1>1, <1>2, <2>1
    <3> QED
      BY ONLY next[Len(done)] = id, more[Len(all) + 1] = id, <2>1, <3>1
  <2>2. CASE i # Len(done)
    <3>1. i + 1 \in 1 .. Len(done) /\ i \in 1 .. Len(done) - 1
      BY ONLY <1>1, <1>2, <2>2
    <3>2. next[i] = all[Len(all) - Len(done) + (i + 1)]
      BY ONLY <1>1, <1>2, <3>1
    <3>3. Len(all) - Len(done) + (i + 1) \in 1 .. Len(all)
      BY ONLY <1>1, <3>1
    <3>4. Len(more) - Len(next) + i = Len(all) - Len(done) + (i + 1)
      BY ONLY <1>1, <1>2, <3>1
    <3> QED
      BY <3>2, <3>3, <3>4
  <2> QED
    BY <2>1, <2>2
<1>4. Len(next) <= Len(more) /\ (Len(next) < MaxCompleted => Len(next) = Len(more))
  BY <1>1, <1>2, TransportBoundsAssumption
<1> QED
  BY <1>3, <1>4 DEF Tailing

\* One more delivery, and the ids that are remembered then.
LEMMA TailGrows ==
  ASSUME NEW done \in Seq(Control!Ids), NEW all \in Seq(Control!Ids), Tailing(done, all),
         NEW id \in Control!Ids
  PROVE  LET next == IF Len(done) < MaxCompleted THEN Append(done, id)
                     ELSE Append(Tail(done), id)
         IN Tailing(next, Append(all, id))
<1>1. /\ Append(all, id) \in Seq(Control!Ids)
      /\ Len(Append(all, id)) = Len(all) + 1 /\ Append(all, id)[Len(all) + 1] = id
      /\ \A i \in 1 .. Len(all) : Append(all, id)[i] = all[i]
  OBVIOUS
<1>2. CASE Len(done) < MaxCompleted
  <2>1. /\ Append(done, id) \in Seq(Control!Ids)
        /\ Len(Append(done, id)) = Len(done) + 1 /\ Append(done, id)[Len(done) + 1] = id
        /\ \A i \in 1 .. Len(done) : Append(done, id)[i] = done[i]
    OBVIOUS
  <2>2. Tailing(Append(done, id), Append(all, id))
    <3> DEFINE more == Append(all, id)
               next == Append(done, id)
    <3>1. /\ more \in Seq(Control!Ids) /\ Len(more) = Len(all) + 1 /\ more[Len(all) + 1] = id
          /\ \A i \in 1 .. Len(all) : more[i] = all[i]
      BY <1>1
    <3>2. /\ next \in Seq(Control!Ids) /\ Len(next) = Len(done) + 1 /\ next[Len(done) + 1] = id
          /\ \A i \in 1 .. Len(done) : next[i] = done[i]
      BY <2>1
    <3> HIDE DEF more, next
    <3>3. Tailing(next, more)
      BY <1>2, <3>1, <3>2, TailAdded, Zenon
    <3> QED
      BY <3>3 DEF more, next
  <2> QED
    BY <1>2, <2>2
<1>3. CASE ~(Len(done) < MaxCompleted)
  <2> DEFINE next == Append(Tail(done), id)
  <2>1. done # <<>>
    BY <1>3, TransportBoundsAssumption
  <2>2. /\ Tail(done) \in Seq(Control!Ids) /\ Len(Tail(done)) = Len(done) - 1 /\ Len(done) \in Nat
        /\ \A i \in 1 .. Len(done) - 1 : Tail(done)[i] = done[i + 1]
    BY <2>1
  <2>3. /\ next \in Seq(Control!Ids) /\ Len(next) = Len(done) /\ next[Len(done)] = id
        /\ \A i \in 1 .. Len(done) - 1 : next[i] = done[i + 1]
    BY <1>3, <2>2
  <2>4. Tailing(next, Append(all, id))
    <3> DEFINE more == Append(all, id)
    <3>1. /\ more \in Seq(Control!Ids) /\ Len(more) = Len(all) + 1 /\ more[Len(all) + 1] = id
          /\ \A i \in 1 .. Len(all) : more[i] = all[i]
      BY <1>1
    <3> HIDE DEF next, more
    <3>2. Tailing(next, more)
      BY <1>3, <2>3, <3>1, TailTurned, Zenon
    <3> QED
      BY <3>2 DEF more
  <2> QED
    BY <1>3, <2>4
<1> QED
  BY <1>2, <1>3

\* An id that is not remembered was delivered long ago or never.
LEMMA NotRemembered ==
  ASSUME NEW done \in Seq(Control!Ids), NEW all \in Seq(Control!Ids), Tailing(done, all),
         NEW id \in Control!Ids, id \notin Control!ToSet(done)
  PROVE  Fresh(id, all)
<1> SUFFICES ASSUME NEW i \in 1 .. Len(all), all[i] = id
             PROVE  MaxCompleted < Len(all) + 1 - i
  BY DEF Fresh
<1>1. /\ Len(done) \in Nat /\ Len(all) \in Nat /\ Len(done) <= Len(all)
      /\ Len(done) < MaxCompleted => Len(done) = Len(all)
      /\ \A k \in 1 .. Len(done) : done[k] = all[Len(all) - Len(done) + k]
  BY DEF Tailing
<1>2. \A k \in 1 .. Len(done) : done[k] # id
  <2>1. Control!ToSet(done) = {done[k] : k \in DOMAIN done} /\ DOMAIN done = 1 .. Len(done)
    BY DEF Control!ToSet
  <2> QED
    BY <2>1
<1>3. i <= Len(all) - Len(done)
  <2> SUFFICES ASSUME ~(i <= Len(all) - Len(done))
               PROVE  FALSE
    OBVIOUS
  <2> DEFINE k == i - (Len(all) - Len(done))
  <2>1. k \in 1 .. Len(done) /\ Len(all) - Len(done) + k = i
    BY <1>1
  <2> HIDE DEF k
  <2> QED
    BY <1>1, <1>2, <2>1
<1> QED
  BY <1>1, <1>3, TransportBoundsAssumption

\* One chain never forgets too soon.
Spread(all) ==
  \A i, j \in 1 .. Len(all) : i < j /\ all[i] = all[j] => j - i > MaxCompleted

LEMMA SpreadGrows ==
  ASSUME NEW all \in Seq(Control!Ids), Spread(all), NEW id \in Control!Ids, Fresh(id, all)
  PROVE  Spread(Append(all, id))
<1> DEFINE more == Append(all, id)
<1>1. /\ Len(more) = Len(all) + 1 /\ more[Len(all) + 1] = id /\ Len(all) \in Nat
      /\ \A i \in 1 .. Len(all) : more[i] = all[i]
  OBVIOUS
<1> HIDE DEF more
<1>2. ASSUME NEW i \in 1 .. Len(more), NEW j \in 1 .. Len(more), i < j, more[i] = more[j]
      PROVE  j - i > MaxCompleted
  <2>1. i \in 1 .. Len(all) /\ more[i] = all[i]
    BY <1>1, <1>2
  <2>2. CASE j \in 1 .. Len(all)
    BY <1>1, <1>2, <2>1, <2>2 DEF Spread
  <2>3. CASE j = Len(all) + 1
    <3>1. all[i] = id
      BY <1>1, <1>2, <2>1, <2>3
    <3> QED
      BY <1>1, <2>1, <2>3, <3>1, TransportBoundsAssumption DEF Fresh
  <2> QED
    BY <1>1, <2>2, <2>3
<1> QED
  BY <1>2 DEF Spread, more

LEMMA SpreadIsDeliveredOnce ==
  ASSUME cDelivered \in [Control!Gens -> Seq(Control!Ids)]
  PROVE  Control!DeliveredOnce <=> \A g \in Control!Gens : Spread(cDelivered[g])
<1>1. \A g \in Control!Gens : DOMAIN cDelivered[g] = 1 .. Len(cDelivered[g])
  OBVIOUS
<1> QED
  BY <1>1 DEF Control!DeliveredOnce, Spread

LEMMA NothingOpened ==
  /\ Control!NotOpening \in [id : Control!Ids, key : 0 .. MaxPeers]
  /\ Control!NotOpening.key = 0
  /\ \A g \in Control!Gens : g \in Nat /\ g # 0 /\ g <= MaxPeers
<1>1. (CHOOSE id \in Control!Ids : TRUE) \in Control!Ids
  BY TransportBoundsAssumption DEF Control!Ids
<1> QED
  BY <1>1, TransportBoundsAssumption DEF Control!NotOpening, Control!Gens

-----------------------------------------------------------------------------

LEMMA Known ==
  ASSUME ControlInv
  PROVE  /\ Sound(control) /\ control \in Transports
         /\ control.gen \in 0 .. MaxPeers /\ MaxPeers \in Nat
         /\ control.phase \in {"none", "attempt", "published"} /\ control.failed \in BOOLEAN
         /\ control.completed \in Seq(Control!Ids) /\ control.retained \in Int
         /\ cQueue \in [Control!Gens -> Seq(Control!Chunks)] /\ opening \in [Control!Gens -> [id : Control!Ids, key : 0 .. MaxPeers]]
         /\ sent \in [Control!Gens -> 0 .. MaxSent] /\ cDelivered \in [Control!Gens -> Seq(Control!Ids)]
         /\ (control.gen # 0 => control.gen \in Control!Gens)
         /\ Running
         /\ \A g \in Control!Gens : ChainOf(g) /\ Spread(cDelivered[g]) /\ g \in Nat /\ g # 0
<1>1. Control!TypeOK /\ Sound(control) /\ Running /\ Control!DeliveredOnce /\ \A g \in Control!Gens : ChainOf(g)
  BY DEF ControlInv
<1>2. control \in Transports
  BY <1>1 DEF Sound
<1>3. \A g \in Control!Gens : Spread(cDelivered[g])
  BY <1>1, SpreadIsDeliveredOnce DEF Control!TypeOK
<1>4. /\ control.gen \in 0 .. MaxPeers
      /\ control.phase \in {"none", "attempt", "published"} /\ control.failed \in BOOLEAN
      /\ control.completed \in Seq(Control!Ids) /\ control.retained \in Int
  BY <1>2 DEF Transports
<1>5. /\ cQueue \in [Control!Gens -> Seq(Control!Chunks)] /\ opening \in [Control!Gens -> [id : Control!Ids, key : 0 .. MaxPeers]]
      /\ sent \in [Control!Gens -> 0 .. MaxSent] /\ cDelivered \in [Control!Gens -> Seq(Control!Ids)]
  BY <1>1 DEF Control!TypeOK
<1>6. (control.gen # 0 => control.gen \in Control!Gens) /\ \A g \in Control!Gens : g \in Nat /\ g # 0
  BY <1>4, TransportBoundsAssumption DEF Control!Gens
<1> QED
  BY <1>1, <1>2, <1>3, <1>4, <1>5, <1>6, TransportBoundsAssumption

LEMMA Together ==
  ASSUME Sound(control'), cQueue' \in [Control!Gens -> Seq(Control!Chunks)],
         opening' \in [Control!Gens -> [id : Control!Ids, key : 0 .. MaxPeers]],
         sent' \in [Control!Gens -> 0 .. MaxSent], cDelivered' \in [Control!Gens -> Seq(Control!Ids)],
         Running', \A g \in Control!Gens : ChainOf(g)', \A g \in Control!Gens : Spread(cDelivered'[g])
  PROVE  ControlInv'
<1>1. control' \in Transports
  BY DEF Sound
<1>2. Control!TypeOK'
  BY <1>1 DEF Control!TypeOK, Transports
<1>3. Control!DeliveredOnce'
  <2>1. \A g \in Control!Gens : DOMAIN cDelivered'[g] = 1 .. Len(cDelivered'[g])
    OBVIOUS
  <2> QED
    BY <2>1 DEF Control!DeliveredOnce, Spread
<1> QED
  BY <1>2, <1>3 DEF ControlInv

\* A step that opens nothing and delivers nothing.
LEMMA QuietStep ==
  ASSUME ControlInv, Sound(control'), control'.gen = control.gen, Running',
         opening' = opening, cDelivered' = cDelivered, sent' \in [Control!Gens -> 0 .. MaxSent],
         cQueue' \in [Control!Gens -> Seq(Control!Chunks)],
         \A g \in Control!Gens : cQueue'[g] = cQueue[g] \/ g <= control.gen
  PROVE  ControlInv'
<1>1. /\ opening' \in [Control!Gens -> [id : Control!Ids, key : 0 .. MaxPeers]]
      /\ cDelivered' \in [Control!Gens -> Seq(Control!Ids)]
      /\ \A g \in Control!Gens : Spread(cDelivered'[g])
  BY Known
<1>2. ASSUME NEW g \in Control!Gens
      PROVE  ChainOf(g)'
  <2>1. ChainOf(g) /\ g \in Nat /\ control.gen \in Nat
    BY Known
  <2> QED
    BY <2>1 DEF ChainOf
<1> QED
  BY <1>1, <1>2, Together


LEMMA TurnOf ==
  ASSUME ControlInv, NEW g \in Control!Gens, Control!Turn(g)
  PROVE  /\ Head(cQueue[g]) \in Control!Chunks /\ opening[g] = Control!NotOpening /\ g <= control.gen
         /\ opening[g].key = 0 /\ control.gen \in Control!Gens
         /\ cQueue' \in [Control!Gens -> Seq(Control!Chunks)] /\ sent' = sent /\ cDelivered' = cDelivered
         /\ \A h \in Control!Gens : cQueue'[h] = cQueue[h] \/ h <= control.gen
<1>1. /\ cQueue \in [Control!Gens -> Seq(Control!Chunks)] /\ ChainOf(g) /\ g \in Nat /\ g # 0
      /\ control.gen \in 0 .. MaxPeers /\ (control.gen # 0 => control.gen \in Control!Gens)
  BY Known
<1>2. cQueue[g] # <<>> /\ opening[g] = Control!NotOpening /\ cQueue' = [cQueue EXCEPT ![g] = Tail(@)]
      /\ sent' = sent /\ cDelivered' = cDelivered
  BY DEF Control!Turn
<1>3. g <= control.gen
  BY <1>1, <1>2 DEF ChainOf
<1>4. Head(cQueue[g]) \in Control!Chunks /\ Tail(cQueue[g]) \in Seq(Control!Chunks)
  BY <1>1, <1>2
<1>5. /\ cQueue' \in [Control!Gens -> Seq(Control!Chunks)]
      /\ \A h \in Control!Gens : cQueue'[h] = cQueue[h] \/ h <= control.gen
  BY <1>1, <1>2, <1>3, <1>4
<1> QED
  BY <1>1, <1>2, <1>3, <1>4, <1>5, NothingOpened

LEMMA AttemptStep ==
  ASSUME ControlInv, Control!Attempt
  PROVE  ControlInv'
<1> DEFINE r == Control!Reset(control)
           d == [r EXCEPT !.gen = @ + 1, !.phase = "attempt", !.failed = FALSE]
           g == control.gen + 1
<1>1. control' = d /\ cQueue' = cQueue /\ opening' = opening /\ sent' = sent
      /\ cDelivered' = cDelivered /\ control.gen < MaxPeers
  BY DEF Control!Attempt, Control!chains
<1>2. /\ Sound(r) /\ r.gen = control.gen /\ r.completed = <<>> /\ r.retained = 0
      /\ Control!Units(r) = {}
  BY Known, ControlResetFields
<1>3. g \in Control!Gens /\ g \in 0 .. MaxPeers /\ g # 0 /\ ChainOf(g)
  <2>1. control.gen \in 0 .. MaxPeers /\ MaxPeers \in Nat
    BY Known
  <2>2. g \in Control!Gens /\ g \in 0 .. MaxPeers /\ g # 0
    BY <1>1, <2>1 DEF Control!Gens
  <2> QED
    BY <2>2, Known
<1> HIDE DEF r
<1>4. /\ d \in Transports /\ d.gen = g /\ d.phase = "attempt" /\ d.failed = FALSE
      /\ d.completed = <<>> /\ d.retained = 0 /\ d.assemblies = r.assemblies
  BY <1>2, <1>3 DEF Sound, Transports
<1> HIDE DEF d, g
<1>5. Control!Held(d) = Control!Held(r) /\ Control!Units(d) = {}
  BY <1>2, <1>4 DEF Control!Held, Control!Units
<1>6. Sound(d) /\ Balanced(d)
  <2>1. Cardinality({}) = 0 /\ IsFiniteSet({})
    BY FS_EmptySet
  <2>2. Len(<<>>) = 0
    OBVIOUS
  <2> QED
    BY <1>2, <1>4, <1>5, <2>1, <2>2, TransportBoundsAssumption DEF Sound, Balanced
<1>7. cDelivered[g] = <<>> /\ opening[g] = Control!NotOpening /\ opening[g].key = 0
  <2>1. g > control.gen
    BY Known DEF g
  <2> QED
    BY <1>3, <2>1, NothingOpened DEF ChainOf
<1>8. Running'
  <2>1. Tailing(<<>>, <<>>)
    BY DEF Tailing
  <2> QED
    BY <1>1, <1>3, <1>4, <1>6, <1>7, <2>1 DEF Running
<1>9. ASSUME NEW h \in Control!Gens
      PROVE  ChainOf(h)'
  <2>1. ChainOf(h) /\ h \in Nat /\ control.gen \in Nat /\ opening[h].key \in Nat
    BY Known
  <2>2. control'.gen = control.gen + 1
    BY <1>1, <1>4 DEF g
  <2> QED
    BY <1>1, <2>1, <2>2 DEF ChainOf
<1>10. Sound(control')
  BY <1>1, <1>6
<1> QED
  BY <1>1, <1>8, <1>9, <1>10, Known, Together

LEMMA PublishStep ==
  ASSUME ControlInv, Control!Publish
  PROVE  ControlInv'
<1> DEFINE d == [control EXCEPT !.phase = "published"]
<1>1. control' = d /\ cQueue' = cQueue /\ opening' = opening /\ sent' = sent
      /\ cDelivered' = cDelivered /\ control.phase = "attempt"
  BY DEF Control!Publish, Control!chains
<1>2. /\ d \in Transports /\ d.gen = control.gen /\ d.failed = control.failed
      /\ d.completed = control.completed /\ d.retained = control.retained
      /\ d.assemblies = control.assemblies
  BY Known DEF Transports
<1> HIDE DEF d
<1>3. Control!Held(d) = Control!Held(control) /\ Control!Units(d) = Control!Units(control)
  BY <1>2 DEF Control!Held, Control!Units
<1>4. Sound(d)
  BY <1>2, <1>3, Known DEF Sound
<1>5. Running'
  <2>1. Running
    BY Known
  <2> QED
    BY <1>1, <1>2, <1>3, <2>1 DEF Running, Balanced, WholeOf
<1> QED
  BY <1>1, <1>2, <1>4, <1>5, Known, QuietStep

LEMMA LoseStep ==
  ASSUME ControlInv, Control!Lose
  PROVE  ControlInv'
<1>1. control' = Control!Reset(control) /\ cQueue' = cQueue /\ opening' = opening /\ sent' = sent
      /\ cDelivered' = cDelivered
  BY DEF Control!Lose, Control!chains
<1>2. Sound(control') /\ control'.gen = control.gen /\ control'.phase = "none"
  BY <1>1, Known, ControlResetFields
<1>3. Running'
  BY <1>2 DEF Running
<1> QED
  BY <1>1, <1>2, <1>3, Known, QuietStep

\* failPeerGeneration within a step that leaves the rest alone.
LEMMA FailureStep ==
  ASSUME ControlInv, NEW g, control' = Control!Failed(control, g),
         opening' = opening, cDelivered' = cDelivered
  PROVE  Sound(control') /\ control'.gen = control.gen /\ Running'
<1>1. /\ Sound(control') /\ control'.gen = control.gen
      /\ control' = control \/ control'.phase = "none"
  BY Known, FailedFields
<1>2. Running'
  <2>1. Running
    BY Known
  <2> QED
    BY <1>1, <2>1 DEF Running
<1> QED
  BY <1>1, <1>2

LEMMA ControlReceiveStep ==
  ASSUME ControlInv, NEW g \in Control!Gens, NEW c \in Control!Chunks, Control!Receive(g, c)
  PROVE  ControlInv'
<1>1. /\ control.gen = g /\ sent[g] < MaxSent /\ sent' = [sent EXCEPT ![g] = @ + 1]
      /\ opening' = opening /\ cDelivered' = cDelivered
      /\ \/ cQueue' = [cQueue EXCEPT ![g] = Append(@, c)] /\ control' = control
         \/ cQueue' = cQueue /\ control' = Control!Failed(control, g)
  BY DEF Control!Receive
<1>2. /\ cQueue' \in [Control!Gens -> Seq(Control!Chunks)]
      /\ \A h \in Control!Gens : cQueue'[h] = cQueue[h] \/ h <= control.gen
  <2>1. cQueue \in [Control!Gens -> Seq(Control!Chunks)] /\ g \in Nat
    BY Known
  <2> QED
    BY <1>1, <2>1
<1>3. sent' \in [Control!Gens -> 0 .. MaxSent]
  BY <1>1, Known, TransportBoundsAssumption
<1>4. Sound(control') /\ control'.gen = control.gen /\ Running'
  <2>1. CASE control' = control
    <3>1. Running /\ Sound(control)
      BY Known
    <3> QED
      BY <1>1, <2>1, <3>1 DEF Running
  <2>2. CASE control' = Control!Failed(control, g)
    BY <1>1, <2>2, FailureStep
  <2> QED
    BY <1>1, <2>1, <2>2
<1> QED
  BY <1>1, <1>2, <1>3, <1>4, QuietStep

LEMMA RefuseStep ==
  ASSUME ControlInv, NEW g \in Control!Gens, Control!RefuseChunk(g)
  PROVE  ControlInv'
<1>1. Control!Turn(g) /\ control' = Control!Failed(control, g) /\ opening' = opening
  BY DEF Control!RefuseChunk
<1>2. /\ cQueue' \in [Control!Gens -> Seq(Control!Chunks)] /\ sent' = sent /\ cDelivered' = cDelivered
      /\ \A h \in Control!Gens : cQueue'[h] = cQueue[h] \/ h <= control.gen
  BY <1>1, TurnOf
<1>3. Sound(control') /\ control'.gen = control.gen /\ Running'
  BY <1>1, <1>2, FailureStep
<1> QED
  BY <1>1, <1>2, <1>3, Known, QuietStep

LEMMA SkipStep ==
  ASSUME ControlInv, NEW g \in Control!Gens, Control!SkipDuplicate(g)
  PROVE  ControlInv'
<1>1. Control!Turn(g) /\ control' = control /\ opening' = opening
  BY DEF Control!SkipDuplicate
<1>2. /\ cQueue' \in [Control!Gens -> Seq(Control!Chunks)] /\ sent' = sent /\ cDelivered' = cDelivered
      /\ \A h \in Control!Gens : cQueue'[h] = cQueue[h] \/ h <= control.gen
  BY <1>1, TurnOf
<1>3. Sound(control') /\ control'.gen = control.gen /\ Running'
  BY <1>1, <1>2, Known DEF Running
<1> QED
  BY <1>1, <1>2, <1>3, Known, QuietStep

LEMMA KeepStep ==
  ASSUME ControlInv, NEW g \in Control!Gens, Control!KeepChunk(g)
  PROVE  ControlInv'
<1> DEFINE c == Head(cQueue[g])
           kept == Control!Kept(control, g, c)
<1>1. /\ Control!Turn(g) /\ ~Control!Refuses(control, g, c) /\ ~Control!IsDuplicate(control, c)
      /\ \/ control' = kept /\ opening' = opening
         \/ /\ Control!IsComplete(kept, c.id) /\ control.phase = "published" /\ control' = kept
            /\ opening' = [opening EXCEPT ![g] = [id |-> c.id, key |-> control.gen]]
         \/ control' = Control!Failed(kept, g) /\ opening' = opening
  BY DEF Control!KeepChunk
<1>2. /\ c \in Control!Chunks /\ opening[g] = Control!NotOpening /\ opening[g].key = 0 /\ control.gen \in Control!Gens
      /\ cQueue' \in [Control!Gens -> Seq(Control!Chunks)] /\ sent' = sent /\ cDelivered' = cDelivered
      /\ \A h \in Control!Gens : cQueue'[h] = cQueue[h] \/ h <= control.gen
  BY <1>1, TurnOf
<1>3. c.id \in Control!Ids
  BY <1>2 DEF Control!Chunks
<1>4. /\ Sound(kept)
      /\ kept.gen = control.gen /\ kept.phase = control.phase
      /\ kept.failed = control.failed /\ kept.completed = control.completed
      /\ kept.assemblies[c.id].gen = g
      /\ \A other \in Control!Ids \ {c.id} : kept.assemblies[other] = control.assemblies[other]
      /\ Balanced(control) => Balanced(kept)
  BY <1>1, <1>2, Known, KeptFields
<1> HIDE DEF kept
<1>5. ASSUME control.phase # "none"
      PROVE  /\ kept.gen # 0 /\ ~kept.failed /\ Balanced(kept)
             /\ Tailing(kept.completed, cDelivered[kept.gen])
             /\ opening[kept.gen].key = kept.gen => WholeOf(kept, kept.gen, opening[kept.gen].id)
  <2>1. /\ control.gen # 0 /\ ~control.failed /\ Balanced(control)
        /\ Tailing(control.completed, cDelivered[control.gen])
        /\ opening[control.gen].key = control.gen =>
             WholeOf(control, control.gen, opening[control.gen].id)
    BY <1>5, Known DEF Running
  <2>2. ASSUME opening[control.gen].key = control.gen
        PROVE  WholeOf(kept, control.gen, opening[control.gen].id)
    <3>1. opening[control.gen].id \in Control!Ids
      BY <1>2, Known
    <3>2. opening[control.gen].id # c.id
      <4> SUFFICES ASSUME opening[control.gen].id = c.id
                   PROVE  FALSE
        OBVIOUS
      <4>1. control.assemblies[c.id].gen = control.gen
        BY <2>1, <2>2 DEF WholeOf
      <4>2. c.id \in Control!Held(control)
        BY <1>3, <2>1, <4>1 DEF Control!Held, Control!NoAssembly
      <4>3. g = control.gen
        BY <1>1, <4>1, <4>2 DEF Control!Refuses
      <4> QED
        BY <1>2, <2>1, <2>2, <4>3
    <3> QED
      BY <1>4, <2>1, <2>2, <3>1, <3>2 DEF WholeOf
  <2> QED
    BY <1>4, <2>1, <2>2
<1>6. CASE opening' = opening /\ (control' = kept \/ control' = Control!Failed(kept, g))
  <2>1. /\ Sound(control') /\ control'.gen = control.gen
        /\ control' = kept \/ control'.phase = "none"
    BY <1>4, <1>6, FailedFields
  <2>2. Running'
    <3>1. CASE control' = kept
      BY <1>2, <1>4, <1>5, <1>6, <3>1 DEF Running
    <3>2. CASE control'.phase = "none"
      BY <3>2 DEF Running
    <3> QED
      BY <2>1, <3>1, <3>2
  <2> QED
    BY <1>2, <1>6, <2>1, <2>2, Known, QuietStep
<1>7. CASE /\ Control!IsComplete(kept, c.id) /\ control.phase = "published" /\ control' = kept
           /\ opening' = [opening EXCEPT ![g] = [id |-> c.id, key |-> control.gen]]
  <2> DEFINE gen == control.gen
             one == [id |-> c.id, key |-> gen]
  <2>1. /\ gen # 0 /\ Tailing(control.completed, cDelivered[gen]) /\ gen \in 0 .. MaxPeers
    BY <1>7, Known DEF Running
  <2>2. one \in [id : Control!Ids, key : 0 .. MaxPeers] /\ one.id = c.id /\ one.key = gen
    BY <1>3, <2>1
  <2> HIDE DEF one, gen
  <2>3. /\ opening' \in [Control!Gens -> [id : Control!Ids, key : 0 .. MaxPeers]] /\ opening'[g] = one
        /\ \A h \in Control!Gens \ {g} : opening'[h] = opening[h]
    BY <1>7, <2>2, Known DEF one, gen
  <2>4. Fresh(c.id, cDelivered[gen])
    <3>1. c.id \notin Control!ToSet(control.completed)
      BY <1>1 DEF Control!Refuses
    <3>2. control.completed \in Seq(Control!Ids) /\ cDelivered[gen] \in Seq(Control!Ids)
      BY <1>2, Known DEF gen
    <3> HIDE DEF c
    <3> QED
      BY <1>3, <2>1, <3>1, <3>2, NotRemembered
  <2>5. ASSUME NEW h \in Control!Gens
        PROVE  ChainOf(h)'
    <3>1. ChainOf(h) /\ h \in Nat /\ gen \in Nat /\ g <= gen
      BY <1>1, Known, TurnOf DEF gen
    <3>2. control'.gen = gen /\ cDelivered' = cDelivered /\ (cQueue'[h] = cQueue[h] \/ h <= gen)
      BY <1>2, <1>4, <1>7 DEF gen
    <3>3. CASE h = g
      BY <2>1, <2>2, <2>3, <2>4, <3>1, <3>2, <3>3 DEF ChainOf
    <3>4. CASE h # g
      <4>1. opening'[h] = opening[h]
        BY <2>3, <3>4
      <4> QED
        BY <3>1, <3>2, <4>1 DEF ChainOf, gen
    <3> QED
      BY <3>3, <3>4
  <2>6. Running'
    <3>1. kept.gen = gen
      BY <1>4 DEF gen
    <3>2. opening'[gen].key = gen => WholeOf(kept, gen, opening'[gen].id)
      <4>1. CASE gen = g
        <5>1. kept.assemblies[c.id].chunks = 1 .. Control!Count(c.id)
          BY <1>3, <1>4, <1>7, CompleteIsWhole
        <5> QED
          BY <1>4, <2>2, <2>3, <4>1, <5>1 DEF WholeOf
      <4>2. CASE gen # g
        <5>1. opening'[gen] = opening[gen]
          BY <1>2, <2>3, <4>2 DEF gen
        <5> QED
          BY <1>5, <1>7, <3>1, <5>1
      <4> QED
        BY <4>1, <4>2
    <3> QED
      BY <1>2, <1>5, <1>7, <3>1, <3>2 DEF Running
  <2>7. /\ cDelivered' \in [Control!Gens -> Seq(Control!Ids)] /\ sent' \in [Control!Gens -> 0 .. MaxSent]
        /\ \A h \in Control!Gens : Spread(cDelivered'[h])
    BY <1>2, Known
  <2>8. Sound(control')
    BY <1>4, <1>7
  <2> QED
    BY <1>2, <2>3, <2>5, <2>6, <2>7, <2>8, Together
<1> QED
  BY <1>1, <1>6, <1>7

\* What a release frees covers the id that is then remembered.
LEMMA Ledger ==
  ASSUME NEW n \in Int, NEW len \in Nat, NEW f \in Nat, NEW k \in {1, 2}, NEW max \in Nat,
         n = len + (f + 1 + k), n <= max
  PROVE  /\ n - (1 + k) = len + f /\ n - (1 + k) <= max
         /\ n - (1 + k) + 1 = (len + 1) + f /\ n - (1 + k) + 1 <= max
OBVIOUS

LEMMA EndDecryptStep ==
  ASSUME ControlInv, NEW g \in Control!Gens, Control!EndDecrypt(g)
  PROVE  ControlInv'
<1> DEFINE id == opening[g].id
           whole == [gen |-> g, chunks |-> 1 .. Control!Count(id), armed |-> TRUE]
           freed == Control!Released(control, id, whole)
           done == Control!Retained(freed, id)
           gen == control.gen
<1>1. /\ opening[g] # Control!NotOpening /\ opening' = [opening EXCEPT ![g] = Control!NotOpening]
      /\ cQueue' = cQueue /\ sent' = sent
      /\ \/ /\ opening[g].key # g /\ control' = Control!Failed(control, g)
            /\ cDelivered' = cDelivered
         \/ /\ opening[g].key = g /\ g # gen /\ control' = control
            /\ cDelivered' = cDelivered
         \/ /\ opening[g].key = g /\ g = gen
            /\ control' = done \/ control' = Control!Failed(done, g)
            /\ cDelivered' = [cDelivered EXCEPT ![g] = Append(@, id)]
  BY DEF Control!EndDecrypt, Control!IsCurrent
<1>2. /\ id \in Control!Ids /\ ChainOf(g) /\ g \in Nat /\ g # 0 /\ gen \in 0 .. MaxPeers
      /\ Sound(control)
  BY Known
<1>3. g <= gen
  BY <1>1, <1>2 DEF ChainOf
<1>4. /\ opening' \in [Control!Gens -> [id : Control!Ids, key : 0 .. MaxPeers]] /\ opening'[g].key = 0
      /\ opening'[g] = Control!NotOpening
      /\ \A h \in Control!Gens \ {g} : opening'[h] = opening[h]
  BY <1>1, Known, NothingOpened
<1> HIDE DEF id, gen
<1>5. CASE cDelivered' = cDelivered /\ (control' = control \/ control' = Control!Failed(control, g))
  <2>1. /\ Sound(control') /\ control'.gen = gen
        /\ control' = control \/ control'.phase = "none"
    BY <1>2, <1>5, FailedFields DEF gen
  <2>2. Running'
    <3>1. CASE control' = control
      <4>1. Running
        BY Known
      <4>2. CASE gen = g
        BY <1>2, <1>4, <1>5, <3>1, <4>1, <4>2 DEF Running, gen
      <4>3. CASE gen # g /\ control.phase # "none"
        <5>1. opening'[gen] = opening[gen]
          BY <1>4, <4>1, <4>3, Known DEF gen, Running
        <5> QED
          BY <1>5, <3>1, <4>1, <5>1 DEF Running, gen
      <4> QED
        BY <3>1, <4>2, <4>3 DEF Running
    <3>2. CASE control'.phase = "none"
      BY <3>2 DEF Running
    <3> QED
      BY <2>1, <3>1, <3>2
  <2>3. ASSUME NEW h \in Control!Gens
        PROVE  ChainOf(h)'
    <3>1. ChainOf(h) /\ h \in Nat /\ gen \in Nat
      BY Known DEF gen
    <3> QED
      BY <1>1, <1>2, <1>3, <1>4, <1>5, <2>1, <3>1 DEF ChainOf, gen
  <2> QED
    BY <1>1, <1>4, <1>5, <2>1, <2>2, <2>3, Known, Together
<1>6. CASE /\ opening[g].key = g /\ g = gen
           /\ control' = done \/ control' = Control!Failed(done, g)
           /\ cDelivered' = [cDelivered EXCEPT ![g] = Append(@, id)]
  <2>1. /\ Sound(freed)
        /\ freed.gen = gen /\ freed.phase = control.phase
        /\ freed.failed = control.failed /\ freed.completed = control.completed
        /\ freed.retained = control.retained - (1 + Control!Count(id))
        /\ g # 0 /\ WholeOf(control, g, id) =>
             Cardinality(Control!Units(control)) = Cardinality(Control!Units(freed)) + 1 + Control!Count(id)
    BY <1>2, ReleasedFields DEF gen
  <2> HIDE DEF freed
  <2>2. /\ Sound(done)
        /\ done.gen = gen /\ done.phase = control.phase /\ done.failed = control.failed
        /\ Control!Units(done) = Control!Units(freed)
        /\ IF Len(control.completed) < MaxCompleted
           THEN done.completed = Append(control.completed, id)
                /\ done.retained = freed.retained + 1
           ELSE done.completed = Append(Tail(control.completed), id)
                /\ done.retained = freed.retained
    BY <1>2, <2>1, RetainedFields
  <2> HIDE DEF done
  <2>3. /\ cDelivered' \in [Control!Gens -> Seq(Control!Ids)] /\ cDelivered'[g] = Append(cDelivered[g], id)
        /\ \A h \in Control!Gens \ {g} : cDelivered'[h] = cDelivered[h]
    BY <1>2, <1>6, Known
  <2>4. ASSUME control.phase # "none"
        PROVE  /\ ~done.failed /\ Balanced(done)
               /\ Tailing(done.completed, cDelivered'[g])
    <3>1. /\ ~control.failed /\ Balanced(control) /\ Tailing(control.completed, cDelivered[g])
          /\ WholeOf(control, g, id)
      BY <1>6, <2>4, Known DEF Running, gen, id
    <3>2. Cardinality(Control!Units(control)) = Cardinality(Control!Units(freed)) + 1 + Control!Count(id)
          /\ Control!Count(id) \in {1, 2}
      BY <1>2, <2>1, <3>1, Counts
    <3>3. /\ Cardinality(Control!Units(freed)) \in Nat /\ control.completed \in Seq(Control!Ids)
          /\ control.retained \in Int /\ cDelivered[g] \in Seq(Control!Ids)
      <4>1. IsFiniteSet(Control!Units(freed))
        BY <2>1 DEF Sound
      <4> QED
        BY <4>1, Known, FS_CardinalityType
    <3>4. Len(done.completed) = IF Len(control.completed) < MaxCompleted
                                THEN Len(control.completed) + 1 ELSE Len(control.completed)
      <4>1. CASE Len(control.completed) < MaxCompleted
        BY <1>2, <2>2, <3>3, <4>1
      <4>2. CASE ~(Len(control.completed) < MaxCompleted)
        <5>1. control.completed # <<>>
          BY <3>3, <4>2, TransportBoundsAssumption
        <5>2. /\ Tail(control.completed) \in Seq(Control!Ids)
              /\ Len(Tail(control.completed)) = Len(control.completed) - 1
          BY <3>3, <5>1
        <5> QED
          BY <1>2, <2>2, <3>3, <4>2, <5>2
      <4> QED
        BY <4>1, <4>2
    <3>5. Balanced(done)
      <4>1. Len(control.completed) \in Nat
        BY <3>3
      <4>2. /\ control.retained = Len(control.completed) + Cardinality(Control!Units(control))
            /\ control.retained <= MaxBytes
        BY <3>1 DEF Balanced
      <4>3. /\ freed.retained = control.retained - (1 + Control!Count(id))
            /\ Cardinality(Control!Units(done)) = Cardinality(Control!Units(freed))
            /\ MaxBytes \in Nat /\ MaxCompleted \in Nat
            /\ Cardinality(Control!Units(freed)) \in Nat /\ control.retained \in Int
        BY <2>1, <2>2, <3>3, TransportBoundsAssumption
      <4>4. \/ /\ Len(done.completed) = Len(control.completed) + 1
               /\ done.retained = freed.retained + 1
            \/ /\ Len(done.completed) = Len(control.completed)
               /\ done.retained = freed.retained
        BY <2>2, <3>4
      <4>5. /\ done.retained = Len(done.completed) + Cardinality(Control!Units(done))
            /\ done.retained <= MaxBytes
        <5>1. control.retained
                = Len(control.completed) + (Cardinality(Control!Units(freed)) + 1 + Control!Count(id))
          BY <3>2, <4>2
        <5>2. /\ control.retained - (1 + Control!Count(id))
                   = Len(control.completed) + Cardinality(Control!Units(freed))
              /\ control.retained - (1 + Control!Count(id)) + 1 <= MaxBytes
              /\ control.retained - (1 + Control!Count(id)) + 1
                   = (Len(control.completed) + 1) + Cardinality(Control!Units(freed))
              /\ control.retained - (1 + Control!Count(id)) <= MaxBytes
          <6> DEFINE n == control.retained
                     c == Len(control.completed)
                     h == Cardinality(Control!Units(freed))
                     k == Control!Count(id)
          <6>1. /\ n \in Int /\ c \in Nat /\ h \in Nat /\ k \in {1, 2} /\ MaxBytes \in Nat
                /\ n = c + (h + 1 + k) /\ n <= MaxBytes
            BY <3>2, <4>1, <4>2, <4>3, <5>1
          <6> HIDE DEF n, c, h, k
          <6>2. /\ n - (1 + k) = c + h /\ n - (1 + k) <= MaxBytes
                /\ n - (1 + k) + 1 = (c + 1) + h /\ n - (1 + k) + 1 <= MaxBytes
            BY ONLY <6>1, Ledger
          <6> QED
            BY <6>2 DEF n, c, h, k
        <5> QED
          BY <4>3, <4>4, <5>2
      <4> QED
        BY <4>5 DEF Balanced
    <3>6. Tailing(done.completed, cDelivered'[g])
      <4>1. done.completed = IF Len(control.completed) < MaxCompleted
                             THEN Append(control.completed, id)
                             ELSE Append(Tail(control.completed), id)
        BY <2>2
      <4> QED
        BY <1>2, <2>3, <3>1, <3>3, <4>1, TailGrows
    <3> QED
      BY <2>2, <3>1, <3>5, <3>6
  <2>5. /\ Sound(control') /\ control'.gen = gen
        /\ control' = done \/ control'.phase = "none"
    BY <1>6, <2>2, FailedFields
  <2>6. Running'
    <3>1. CASE control' = done
      BY <1>2, <1>4, <1>6, <2>2, <2>4, <3>1 DEF Running
    <3>2. CASE control'.phase = "none"
      BY <3>2 DEF Running
    <3> QED
      BY <2>5, <3>1, <3>2
  <2>7. ASSUME NEW h \in Control!Gens
        PROVE  ChainOf(h)' /\ Spread(cDelivered'[h])
    <3>1. ChainOf(h) /\ Spread(cDelivered[h]) /\ h \in Nat /\ gen \in Nat
      BY Known DEF gen
    <3>2. CASE h = g
      <4>1. Fresh(id, cDelivered[g]) /\ cDelivered[g] \in Seq(Control!Ids)
        BY <1>2, <1>6, Known DEF ChainOf, id
      <4>2. Spread(cDelivered'[g])
        BY <1>2, <2>3, <3>1, <3>2, <4>1, SpreadGrows
      <4> QED
        BY <1>2, <1>4, <1>6, <2>5, <3>2, <4>2 DEF ChainOf
    <3>3. CASE h # g
      <4>1. opening'[h] = opening[h] /\ cDelivered'[h] = cDelivered[h] /\ cQueue' = cQueue
        BY <1>1, <1>4, <2>3, <3>3
      <4> QED
        BY <2>5, <3>1, <4>1 DEF ChainOf, gen
    <3> QED
      BY <3>2, <3>3
  <2> QED
    BY <1>1, <1>4, <2>3, <2>5, <2>6, <2>7, Known, Together
<1> QED
  BY <1>1, <1>5, <1>6

LEMMA TimeoutStep ==
  ASSUME ControlInv, NEW id \in Control!Ids, Control!Timeout(id)
  PROVE  ControlInv'
<1> DEFINE old == control.assemblies[id]
           a == [old EXCEPT !.armed = FALSE]
           all == [control.assemblies EXCEPT ![id] = a]
           d == [control EXCEPT !.assemblies = all]
<1>1. /\ old.armed /\ control' = Control!Failed(d, old.gen)
      /\ cQueue' = cQueue /\ opening' = opening /\ sent' = sent /\ cDelivered' = cDelivered
  BY Known DEF Control!Timeout, Control!chains, Transports
<1>2. /\ control.assemblies \in [Control!Ids -> Assemblies] /\ old \in Assemblies
      /\ id \in Control!Held(control) /\ old.gen # 0
  <2>1. control.assemblies \in [Control!Ids -> Assemblies]
    BY Known DEF Transports, Assemblies
  <2>2. id \in Control!Held(control)
    BY <1>1 DEF Control!Held, Control!NoAssembly
  <2> QED
    BY <2>1, <2>2, Known DEF Sound
<1>3. /\ a \in Assemblies /\ a.gen = old.gen /\ a.chunks = old.chunks /\ a # Control!NoAssembly
  BY <1>2 DEF Assemblies, Control!NoAssembly
<1> HIDE DEF a
<1>4. /\ all \in [Control!Ids -> Assemblies]
      /\ \A k \in Control!Ids : /\ all[k].gen = control.assemblies[k].gen
                                /\ all[k].chunks = control.assemblies[k].chunks
                                /\ all[k] # Control!NoAssembly <=> control.assemblies[k] # Control!NoAssembly
  <2>1. all[id] = a /\ old # Control!NoAssembly
    BY <1>2 DEF Control!Held
  <2> QED
    BY <1>2, <1>3, <2>1
<1> HIDE DEF all
<1>5. /\ d \in Transports /\ d.gen = control.gen /\ d.phase = control.phase
      /\ d.failed = control.failed /\ d.completed = control.completed
      /\ d.retained = control.retained /\ d.assemblies = all
  BY <1>4, Known DEF Transports, Assemblies
<1> HIDE DEF d
<1>6. Control!Held(d) = Control!Held(control) /\ Control!Units(d) = Control!Units(control)
  BY <1>4, <1>5 DEF Control!Held, Control!Units
<1>7. Sound(d)
  BY <1>4, <1>5, <1>6, Known DEF Sound, Control!Held
<1>8. /\ Sound(control') /\ control'.gen = control.gen
      /\ control' = d \/ control'.phase = "none"
  BY <1>1, <1>5, <1>7, FailedFields
<1>9. Running'
  <2>1. CASE control' = d
    <3>1. Running /\ opening \in [Control!Gens -> [id : Control!Ids, key : 0 .. MaxPeers]]
      BY Known
    <3> SUFFICES ASSUME control.phase # "none"
                 PROVE  Running'
      BY <1>5, <2>1 DEF Running
    <3>2. Balanced(d)
      BY <1>5, <1>6, <3>1 DEF Running, Balanced
    <3>3. ASSUME opening[control.gen].key = control.gen
          PROVE  WholeOf(d, control.gen, opening[control.gen].id)
      <4>1. opening[control.gen].id \in Control!Ids
        BY <3>1, Known DEF Running
      <4> QED
        BY <1>4, <1>5, <3>1, <3>3, <4>1 DEF Running, WholeOf
    <3> QED
      BY <1>1, <1>5, <2>1, <3>1, <3>2, <3>3 DEF Running
  <2>2. CASE control'.phase = "none"
    BY <2>2 DEF Running
  <2> QED
    BY <1>8, <2>1, <2>2
<1> QED
  BY <1>1, <1>8, <1>9, Known, QuietStep

-----------------------------------------------------------------------------

LEMMA ControlInit ==
  ASSUME Control!Init
  PROVE  ControlInv
<1>1. control \in Transports /\ Control!Units(control) = {}
  <2>1. (\A id \in Control!Ids : control.assemblies[id] = Control!NoAssembly) /\ control.phase = "none"
        /\ control.gen = 0
    BY DEF Control!Init
  <2>2. Control!Held(control) = {}
    BY <2>1 DEF Control!Held
  <2>3. Control!Units(control) = {}
    BY <2>2 DEF Control!Units
  <2>4. <<>> \in Seq(Control!Ids) /\ 0 \in 0 .. MaxPeers /\ 0 \in Int
    BY TransportBoundsAssumption
  <2>5. [id \in Control!Ids |-> Control!NoAssembly] \in [Control!Ids -> Assemblies]
    BY Empty
  <2>6. control \in Transports
    BY <2>4, <2>5 DEF Control!Init, Transports, Assemblies
  <2> QED
    BY <2>3, <2>6
<1>2. Sound(control)
  <2>1. \A id \in Control!Ids : control.assemblies[id] = Control!NoAssembly
    BY DEF Control!Init
  <2>2. Control!Held(control) = {} /\ \A id \in Control!Ids : control.assemblies[id].chunks = {}
    BY <2>1 DEF Control!Held, Control!NoAssembly
  <2> QED
    BY <1>1, <2>2, FS_EmptySet DEF Sound
<1>3. /\ cQueue \in [Control!Gens -> Seq(Control!Chunks)] /\ sent \in [Control!Gens -> 0 .. MaxSent]
      /\ opening \in [Control!Gens -> [id : Control!Ids, key : 0 .. MaxPeers]]
      /\ cDelivered \in [Control!Gens -> Seq(Control!Ids)]
  BY NothingOpened, TransportBoundsAssumption DEF Control!Init
<1>4. Control!TypeOK
  BY <1>1, <1>3 DEF Control!TypeOK, Transports
<1>5. Control!DeliveredOnce
  BY DEF Control!Init, Control!DeliveredOnce
<1>6. Running
  BY DEF Control!Init, Running
<1>7. \A g \in Control!Gens : ChainOf(g)
  <2> TAKE g \in Control!Gens
  <2>1. opening[g] = Control!NotOpening /\ cDelivered[g] = <<>> /\ cQueue[g] = <<>> /\ control.gen = 0
    BY DEF Control!Init
  <2> QED
    BY <2>1, NothingOpened DEF ChainOf
<1> QED
  BY <1>2, <1>4, <1>5, <1>6, <1>7 DEF ControlInv

LEMMA ControlNext ==
  ASSUME ControlInv, [Control!Next]_(Control!vars)
  PROVE  ControlInv'
<1>1. CASE Control!Next
  <2>1. CASE Control!Attempt
    BY <2>1, AttemptStep
  <2>2. CASE Control!Publish
    BY <2>2, PublishStep
  <2>3. CASE Control!Lose
    BY <2>3, LoseStep
  <2>4. CASE \E g \in Control!Gens, c \in Control!Chunks : Control!Receive(g, c)
    BY <2>4, ControlReceiveStep
  <2>5. CASE \E g \in Control!Gens : Control!RefuseChunk(g) \/ Control!SkipDuplicate(g) \/ Control!KeepChunk(g) \/ Control!EndDecrypt(g)
    BY <2>5, RefuseStep, SkipStep, KeepStep, EndDecryptStep
  <2>6. CASE \E id \in Control!Ids : Control!Timeout(id)
    BY <2>6, TimeoutStep
  <2> QED
    BY <1>1, <2>1, <2>2, <2>3, <2>4, <2>5, <2>6 DEF Control!Next
<1>2. CASE UNCHANGED Control!vars
  <2>1. /\ control' = control /\ cQueue' = cQueue /\ opening' = opening /\ sent' = sent
        /\ cDelivered' = cDelivered
    BY <1>2 DEF Control!vars
  <2> QED
    BY <2>1, Known, QuietStep DEF Running
<1> QED
  BY <1>1, <1>2

LEMMA ControlImplied ==
  ASSUME ControlInv
  PROVE  Control!TypeOK /\ Control!BudgetIsHeld /\ Control!DeliveredOnce
BY SameCardinality DEF ControlInv, Running, Balanced, Control!BudgetIsHeld

\* Whatever comes late: the invariant holds in every reachable state.
THEOREM ControlInductive == Control!Spec => []ControlInv
<1>1. Control!Init => ControlInv
  BY ControlInit
<1>2. ControlInv /\ [Control!Next]_(Control!vars) => ControlInv'
  BY ControlNext
<1> QED
  BY <1>1, <1>2, PTL DEF Control!Spec

-----------------------------------------------------------------------------
(* The chunks of one channel.                                              *)

Bindings == [closed : BOOLEAN, armed : BOOLEAN,
             assembly : [id : Chunks!Messages \cup {Chunks!NoMessage}, ok : BOOLEAN, parts : Chunks!Parts],
             completed : Seq(Chunks!Messages)]

\* Messages taken out of the assembly: those delivered and, on a subscription channel,
\* the one that is being decrypted.  A terminal channel decrypts before.
TakenUp == Len(delivered) + IF class = "subscription" /\ busy.step = "decrypt" THEN 1 ELSE 0

\* The last message of which a chunk was kept.
Reached == TakenUp + IF binding.assembly.id = Chunks!NoMessage THEN 0 ELSE 1

\* Where Hub stands after it sent f.
EndOf(f) == f.id + IF f.index = Chunks!Count(f.id) THEN 1 ELSE 0

\* Place i of the line has a chunk of m that the handler will look at.
Carries(q, i, m) == q[i].kind # "retired" /\ q[i].id = m

\* No chunk in line skips a message: one beyond the next message has a chunk of the
\* message before it ahead of it; and so for what Hub sends next.
NoHole(q, n) ==
  \A j \in 1 .. Len(q) :
    q[j].kind # "retired" /\ n + 1 < q[j].id => \E i \in 1 .. j - 1 : Carries(q, i, q[j].id - 1)
HubFollows(q, n, h) ==
  /\ n + 1 < h.id => \E i \in 1 .. Len(q) : Carries(q, i, h.id - 1)
  /\ h.index = 2 => h.id <= n \/ \E i \in 1 .. Len(q) : Carries(q, i, h.id)

\* No chunk goes back over more messages than Hub has faults, so a message that comes
\* again is one of those a subscription channel remembers.
InReach(q, m) ==
  /\ \A j \in 1 .. Len(q) : m + 1 <= q[j].id + MaxFaults
  /\ \A i, j \in 1 .. Len(q) : i < j => EndOf(q[i]) <= q[j].id + MaxFaults
HubInReach(q, m, h) ==
  /\ m + 1 <= h.id + h.faults
  /\ \A i \in 1 .. Len(q) : EndOf(q[i]) <= h.id + h.faults

\* What a channel remembers of m messages: the last of them, or the latest.
Remembers(done, m) ==
  IF class = "terminal" THEN done = IF m = 0 THEN <<>> ELSE <<m>>
  ELSE /\ Len(done) <= m
       /\ Len(done) < MaxMessagesCompleted => Len(done) = m
       /\ \A i \in 1 .. Len(done) : done[i] = m - Len(done) + i

\* The chunk under decryption is one of the message that is assembled, on a closed
\* channel too.
Parted ==
  /\ binding.assembly.id = Chunks!NoMessage => binding.assembly = Chunks!NotAssembling
  /\ class = "terminal" /\ busy.step = "decrypt" =>
       /\ busy.id # Chunks!NoMessage /\ binding.assembly.id = busy.id
       /\ \E i \in {1, 2} : busy.parts = <<<<busy.id, i>>>>
  /\ class = "subscription" => busy.step # "deliver"

\* An open channel: the message assembled is the next one, its chunks are in order, and
\* line and Hub leave no hole.
Following ==
  /\ binding.assembly.id # Chunks!NoMessage => binding.assembly.id = TakenUp + 1
  /\ \A i \in 1 .. Len(binding.assembly.parts) : binding.assembly.parts[i] = <<binding.assembly.id, i>>
  /\ class = "terminal" /\ busy.step = "decrypt" =>
       busy.parts = <<<<busy.id, Len(binding.assembly.parts) + 1>>>>
  /\ class = "subscription" /\ busy.step = "decrypt" => busy.parts = Chunks!Whole(TakenUp)
  /\ NoHole(queue, Reached) /\ HubFollows(queue, Reached, hub)
  /\ class = "subscription" =>
       /\ InReach(queue, TakenUp) /\ HubInReach(queue, TakenUp, hub)
       /\ \A i \in 1 .. Len(queue) : queue[i].kind # "retired"
  /\ Remembers(binding.completed, TakenUp)

ChunksInv ==
  /\ Chunks!TypeOK /\ Parted /\ Chunks!DeliveredIsPrefix /\ Chunks!DeadlineIsOfOpenMessage
  /\ ~binding.closed => Following

-----------------------------------------------------------------------------

\* closeTerminalChannel, closeSubscriptionChannel
LEMMA ClosedFields ==
  ASSUME NEW b \in Bindings
  PROVE  LET d == Chunks!Closed(b)
         IN /\ d \in Bindings /\ d.closed = TRUE /\ d.armed = FALSE
            /\ d.assembly = b.assembly /\ d.completed = b.completed
BY DEF Chunks!Closed, Bindings

\* The assembly with its deadline.
IsOpened(b, m, d) ==
  /\ d \in Bindings /\ d.closed = b.closed /\ d.completed = b.completed
  /\ d.armed = IF b.assembly.id = m THEN b.armed ELSE TRUE
  /\ d.assembly.id = m /\ d.assembly.parts = b.assembly.parts

LEMMA OpenedIs ==
  ASSUME NEW b \in Bindings, NEW m \in Chunks!Messages
  PROVE  IsOpened(b, m, Chunks!Opened(b, m))
<1>1. CASE b.assembly.id = m
  BY <1>1 DEF Chunks!Opened, IsOpened
<1>2. CASE b.assembly.id # m
  <2> DEFINE s == [b.assembly EXCEPT !.id = m]
             d == [b EXCEPT !.assembly = s, !.armed = TRUE]
  <2>1. Chunks!Opened(b, m) = d
    BY <1>2 DEF Chunks!Opened
  <2>2. s \in [id : Chunks!Messages \cup {Chunks!NoMessage}, ok : BOOLEAN, parts : Chunks!Parts] /\ s.id = m
        /\ s.parts = b.assembly.parts
    BY DEF Bindings
  <2> HIDE DEF s
  <2>3. d \in Bindings /\ d.assembly = s /\ d.armed = TRUE /\ d.closed = b.closed
        /\ d.completed = b.completed
    BY <2>2 DEF Bindings
  <2> HIDE DEF d
  <2>4. IsOpened(b, m, d)
    BY <1>2, <2>2, <2>3 DEF IsOpened
  <2> QED
    BY <2>1, <2>4
<1> QED
  BY <1>1, <1>2

\* The assembly with a chunk more.
LEMMA WithPartFields ==
  ASSUME NEW b \in Bindings, NEW m \in Chunks!Messages, NEW i \in {1, 2}, NEW ok \in BOOLEAN
  PROVE  LET d == Chunks!WithPart(b, m, i, ok)
         IN /\ d \in Bindings /\ d.closed = b.closed /\ d.completed = b.completed
            /\ d.armed = b.armed /\ d.assembly.id = b.assembly.id
            /\ d.assembly.ok \in BOOLEAN
            /\ d.assembly.parts = Append(b.assembly.parts, <<m, i>>)
<1> DEFINE p == Append(b.assembly.parts, <<m, i>>)
           k == b.assembly.ok /\ ok
           s == [b.assembly EXCEPT !.parts = p, !.ok = k]
           d == [b EXCEPT !.assembly = s]
<1>1. Chunks!WithPart(b, m, i, ok) = d
  BY DEF Chunks!WithPart, Bindings
<1>2. p \in Chunks!Parts
  <2>1. <<m, i>> \in Chunks!Messages \X {1, 2}
    OBVIOUS
  <2> QED
    BY <2>1 DEF Bindings, Chunks!Parts
<1>3. k \in BOOLEAN
  OBVIOUS
<1> HIDE DEF p, k
<1>4. /\ s \in [id : Chunks!Messages \cup {Chunks!NoMessage}, ok : BOOLEAN, parts : Chunks!Parts]
      /\ s.id = b.assembly.id /\ s.ok = k /\ s.parts = p
  BY <1>2, <1>3 DEF Bindings
<1> HIDE DEF s
<1>5. /\ d \in Bindings /\ d.assembly = s /\ d.armed = b.armed /\ d.closed = b.closed
      /\ d.completed = b.completed
  BY <1>4 DEF Bindings
<1> QED
  BY <1>1, <1>3, <1>4, <1>5 DEF p

\* The whole message leaves the assembly.
LEMMA TakenFields ==
  ASSUME NEW b \in Bindings, b.assembly.id \in Chunks!Messages, class \in Chunks!Classes
  PROVE  LET d == Chunks!Taken(b)
         IN /\ d \in Bindings /\ d.closed = b.closed /\ d.armed = FALSE
            /\ d.assembly = Chunks!NotAssembling /\ d.completed = Chunks!RememberedOf(b)
<1>1. Chunks!RememberedOf(b) \in Seq(Chunks!Messages)
  <2>1. b.completed \in Seq(Chunks!Messages)
    BY DEF Bindings
  <2>2. Len(b.completed) >= MaxMessagesCompleted => Tail(b.completed) \in Seq(Chunks!Messages)
    BY <2>1, TransportBoundsAssumption, RepeatsAssumption
  <2> QED
    BY <2>1, <2>2, TransportBoundsAssumption, RepeatsAssumption DEF Chunks!RememberedOf
<1>2. Chunks!NotAssembling \in [id : Chunks!Messages \cup {Chunks!NoMessage}, ok : BOOLEAN, parts : Chunks!Parts]
  BY DEF Chunks!NotAssembling, Chunks!Parts
<1> QED
  BY <1>1, <1>2 DEF Chunks!Taken, Bindings

-----------------------------------------------------------------------------
(* The line.                                                               *)

\* What Hub sends next joins the line.
LEMMA LineGrows ==
  ASSUME NEW q \in Seq(Chunks!Frames), NEW n \in Nat, NEW h \in [id : Nat, index : {1, 2}, faults : Nat],
         NEW f \in Chunks!Frames, f.id = h.id, NoHole(q, n), HubFollows(q, n, h)
  PROVE  NoHole(Append(q, f), n)
<1> DEFINE r == Append(q, f)
<1>1. /\ Len(r) = Len(q) + 1 /\ Len(q) \in Nat /\ r[Len(q) + 1] = f
      /\ \A i \in 1 .. Len(q) : r[i] = q[i]
  OBVIOUS
<1> HIDE DEF r
<1> SUFFICES ASSUME NEW j \in 1 .. Len(r), r[j].kind # "retired", n + 1 < r[j].id
             PROVE  \E i \in 1 .. j - 1 : Carries(r, i, r[j].id - 1)
  BY DEF NoHole, r
<1>2. CASE j = Len(q) + 1
  <2>1. PICK i \in 1 .. Len(q) : Carries(q, i, h.id - 1)
    BY <1>1, <1>2 DEF HubFollows
  <2> QED
    BY <1>1, <1>2, <2>1 DEF Carries
<1>3. CASE j \in 1 .. Len(q)
  <2>1. PICK i \in 1 .. j - 1 : Carries(q, i, q[j].id - 1)
    BY <1>1, <1>3 DEF NoHole
  <2> QED
    BY <1>1, <1>3, <2>1 DEF Carries
<1> QED
  BY <1>1, <1>2, <1>3

\* Hub stands at the message it sent or at the one after it.
LEMMA HubGoesOn ==
  ASSUME NEW q \in Seq(Chunks!Frames), NEW n \in Nat,
         NEW h \in [id : Nat, index : {1, 2}, faults : Nat],
         NEW f \in Chunks!Frames, f.id = h.id, f.kind # "retired", HubFollows(q, n, h),
         NEW g \in [id : Nat, index : {1, 2}, faults : Nat],
         g.id = h.id \/ (g.id = h.id + 1 /\ g.index = 1)
  PROVE  HubFollows(Append(q, f), n, g)
<1> DEFINE r == Append(q, f)
<1>1. /\ Len(r) = Len(q) + 1 /\ Len(q) \in Nat /\ r[Len(q) + 1] = f
      /\ \A i \in 1 .. Len(q) : r[i] = q[i]
  OBVIOUS
<1> HIDE DEF r
<1>2. Carries(r, Len(q) + 1, h.id) /\ Len(q) + 1 \in 1 .. Len(r)
  BY <1>1 DEF Carries
<1>3. CASE g.id = h.id
  <2>1. ASSUME n + 1 < g.id
        PROVE  \E i \in 1 .. Len(r) : Carries(r, i, g.id - 1)
    <3>1. PICK i \in 1 .. Len(q) : Carries(q, i, h.id - 1)
      BY <1>3, <2>1 DEF HubFollows
    <3> QED
      BY <1>1, <1>3, <3>1 DEF Carries
  <2>2. \E i \in 1 .. Len(r) : Carries(r, i, g.id)
    BY <1>2, <1>3
  <2> QED
    BY <2>1, <2>2 DEF HubFollows, r
<1>4. CASE g.id = h.id + 1 /\ g.index = 1
  <2>1. g.id - 1 = h.id
    BY <1>4
  <2> QED
    BY <1>2, <1>4, <2>1 DEF HubFollows, r
<1> QED
  BY <1>3, <1>4

\* A retired chunk changes nothing of what Hub stands at.
LEMMA HubWaits ==
  ASSUME NEW q \in Seq(Chunks!Frames), NEW n \in Nat,
         NEW h \in [id : Nat, index : {1, 2}, faults : Nat],
         NEW f \in Chunks!Frames, HubFollows(q, n, h),
         NEW g \in [id : Nat, index : {1, 2}, faults : Nat],
         g.id = h.id, g.index = h.index
  PROVE  HubFollows(Append(q, f), n, g)
<1> DEFINE r == Append(q, f)
<1>1. /\ Len(r) = Len(q) + 1 /\ Len(q) \in Nat
      /\ \A i \in 1 .. Len(q) : r[i] = q[i]
  OBVIOUS
<1> HIDE DEF r
<1>2. \A m : (\E i \in 1 .. Len(q) : Carries(q, i, m)) => \E i \in 1 .. Len(r) : Carries(r, i, m)
  BY <1>1 DEF Carries
<1> QED
  BY <1>2 DEF HubFollows, r

LEMMA ReachGrows ==
  ASSUME NEW q \in Seq(Chunks!Frames), NEW m \in Nat,
         NEW h \in [id : Nat, index : {1, 2}, faults : 0 .. MaxFaults],
         NEW f \in Chunks!Frames, f.id = h.id, InReach(q, m), HubInReach(q, m, h)
  PROVE  InReach(Append(q, f), m)
<1> DEFINE r == Append(q, f)
<1>1. /\ Len(r) = Len(q) + 1 /\ Len(q) \in Nat /\ r[Len(q) + 1] = f
      /\ \A i \in 1 .. Len(q) : r[i] = q[i] /\ q[i] \in Chunks!Frames
  OBVIOUS
<1>2. h.id \in Nat /\ h.faults \in Nat /\ h.faults <= MaxFaults /\ MaxFaults \in Nat
  BY TransportBoundsAssumption, RepeatsAssumption
<1>3. \A e \in Chunks!Frames : EndOf(e) \in Nat /\ e.id \in Nat
  BY DEF EndOf, Chunks!Frames, Chunks!Messages
<1> HIDE DEF r
<1>4. ASSUME NEW j \in 1 .. Len(r)
      PROVE  m + 1 <= r[j].id + MaxFaults
  <2>1. CASE j = Len(q) + 1
    BY <1>1, <1>2, <2>1 DEF HubInReach
  <2>2. CASE j \in 1 .. Len(q)
    BY <1>1, <2>2 DEF InReach
  <2> QED
    BY <1>1, <2>1, <2>2
<1>5. ASSUME NEW i \in 1 .. Len(r), NEW j \in 1 .. Len(r), i < j
      PROVE  EndOf(r[i]) <= r[j].id + MaxFaults
  <2>0. i \in 1 .. Len(q) /\ r[i] = q[i] /\ EndOf(q[i]) \in Nat
    BY <1>1, <1>3, <1>5
  <2>1. CASE j = Len(q) + 1
    <3>1. EndOf(q[i]) <= h.id + h.faults
      BY <2>0 DEF HubInReach
    <3> QED
      BY <1>1, <1>2, <2>0, <2>1, <3>1
  <2>2. CASE j \in 1 .. Len(q)
    <3>1. EndOf(q[i]) <= q[j].id + MaxFaults
      BY <1>5, <2>0, <2>2 DEF InReach
    <3> QED
      BY <1>1, <2>0, <2>2, <3>1
  <2> QED
    BY <1>1, <2>1, <2>2
<1> QED
  BY <1>4, <1>5 DEF InReach, r

LEMMA HubReachGrows ==
  ASSUME NEW q \in Seq(Chunks!Frames), NEW m \in Nat,
         NEW h \in [id : Nat, index : {1, 2}, faults : Nat], HubInReach(q, m, h),
         NEW f \in Chunks!Frames, NEW g \in [id : Nat, index : {1, 2}, faults : Nat],
         EndOf(f) <= g.id + g.faults, h.id + h.faults <= g.id + g.faults
  PROVE  HubInReach(Append(q, f), m, g) /\ HubInReach(q, m, g)
<1> DEFINE r == Append(q, f)
<1>1. /\ Len(r) = Len(q) + 1 /\ Len(q) \in Nat /\ r[Len(q) + 1] = f
      /\ \A i \in 1 .. Len(q) : r[i] = q[i] /\ q[i] \in Chunks!Frames
  OBVIOUS
<1>2. h.id \in Nat /\ h.faults \in Nat /\ g.id \in Nat /\ g.faults \in Nat
  OBVIOUS
<1>3. \A e \in Chunks!Frames : EndOf(e) \in Nat
  BY DEF EndOf, Chunks!Frames, Chunks!Messages
<1> HIDE DEF r
<1>4. m + 1 <= g.id + g.faults
  BY <1>2 DEF HubInReach
<1>5. ASSUME NEW i \in 1 .. Len(q)
      PROVE  EndOf(q[i]) <= g.id + g.faults
  <2>1. EndOf(q[i]) <= h.id + h.faults /\ EndOf(q[i]) \in Nat
    BY <1>1, <1>3 DEF HubInReach
  <2> QED
    BY <1>2, <2>1
<1>6. ASSUME NEW i \in 1 .. Len(r)
      PROVE  EndOf(r[i]) <= g.id + g.faults
  BY <1>1, <1>5
<1> QED
  BY <1>4, <1>5, <1>6 DEF HubInReach, r

\* The chain turns to its head, which is retired or carries a message that is reached
\* then.
LEMMA LineShrinks ==
  ASSUME NEW q \in Seq(Chunks!Frames), q # <<>>, NEW n \in Nat, NEW k \in {n, n + 1},
         NEW h \in [id : Nat, index : {1, 2}, faults : Nat],
         q[1].kind = "retired" \/ q[1].id <= k,
         NoHole(q, n), HubFollows(q, n, h)
  PROVE  NoHole(Tail(q), k) /\ HubFollows(Tail(q), k, h)
<1> DEFINE r == Tail(q)
<1>1. /\ Len(q) \in Nat \ {0} /\ Len(r) = Len(q) - 1
      /\ \A i \in 1 .. Len(r) : r[i] = q[i + 1]
      /\ \A i \in 1 .. Len(q) : q[i].id \in Nat
  <2>1. \A i \in 1 .. Len(q) : q[i] \in Chunks!Frames
    OBVIOUS
  <2>2. \A e \in Chunks!Frames : e.id \in Nat
    BY DEF Chunks!Frames, Chunks!Messages
  <2>3. Len(q) \in Nat \ {0} /\ Len(r) = Len(q) - 1 /\ \A i \in 1 .. Len(r) : r[i] = q[i + 1]
    OBVIOUS
  <2> QED
    BY <2>1, <2>2, <2>3
<1> HIDE DEF r
<1>2. \A i \in 1 .. Len(q), m \in Nat :
        Carries(q, i, m) /\ m > k => i - 1 \in 1 .. Len(r) /\ Carries(r, i - 1, m)
  <2> SUFFICES ASSUME NEW i \in 1 .. Len(q), NEW m \in Nat, Carries(q, i, m), m > k
               PROVE  i - 1 \in 1 .. Len(r) /\ Carries(r, i - 1, m)
    OBVIOUS
  <2>1. i # 1
    BY DEF Carries
  <2>2. i - 1 \in 1 .. Len(r) /\ r[i - 1] = q[i]
    BY <1>1, <2>1
  <2> QED
    BY <2>2 DEF Carries
<1>3. ASSUME NEW j \in 1 .. Len(r), r[j].kind # "retired", k + 1 < r[j].id
      PROVE  \E i \in 1 .. j - 1 : Carries(r, i, r[j].id - 1)
  <2>1. j + 1 \in 1 .. Len(q) /\ r[j] = q[j + 1] /\ q[j + 1].id \in Nat /\ n + 1 < q[j + 1].id
    BY <1>1, <1>3
  <2>2. PICK i \in 1 .. j : Carries(q, i, q[j + 1].id - 1)
    BY <1>3, <2>1 DEF NoHole
  <2>3. q[j + 1].id - 1 \in Nat /\ q[j + 1].id - 1 > k
    <3>1. k + 1 < q[j + 1].id
      BY <1>3, <2>1
    <3> QED
      BY ONLY <2>1, <3>1, k \in Nat
  <2>4. i - 1 \in 1 .. Len(r) /\ Carries(r, i - 1, q[j + 1].id - 1)
    BY <1>1, <1>2, <2>2, <2>3
  <2> QED
    BY <2>1, <2>2, <2>4
<1>4. ASSUME k + 1 < h.id
      PROVE  \E i \in 1 .. Len(r) : Carries(r, i, h.id - 1)
  <2>1. PICK i \in 1 .. Len(q) : Carries(q, i, h.id - 1)
    BY <1>4 DEF HubFollows
  <2> QED
    BY <1>2, <1>4, <2>1
<1>5. ASSUME h.index = 2, k < h.id
      PROVE  \E i \in 1 .. Len(r) : Carries(r, i, h.id)
  <2>1. PICK i \in 1 .. Len(q) : Carries(q, i, h.id)
    BY <1>5 DEF HubFollows
  <2> QED
    BY <1>2, <1>5, <2>1
<1> QED
  BY <1>3, <1>4, <1>5 DEF NoHole, HubFollows, r

LEMMA ReachShrinks ==
  ASSUME NEW q \in Seq(Chunks!Frames), q # <<>>, NEW m \in Nat, NEW k \in Nat,
         NEW h \in [id : Nat, index : {1, 2}, faults : Nat],
         k = m \/ (k + 1 = EndOf(q[1])),
         InReach(q, m), HubInReach(q, m, h)
  PROVE  InReach(Tail(q), k) /\ HubInReach(Tail(q), k, h)
<1> DEFINE r == Tail(q)
<1>1. /\ Len(q) \in Nat \ {0} /\ Len(r) = Len(q) - 1
      /\ \A i \in 1 .. Len(r) : r[i] = q[i + 1] /\ i + 1 \in 1 .. Len(q) /\ 1 < i + 1
  OBVIOUS
<1> HIDE DEF r
<1>2. ASSUME NEW j \in 1 .. Len(r)
      PROVE  k + 1 <= r[j].id + MaxFaults
  <2>1. CASE k = m
    BY <1>1, <2>1 DEF InReach
  <2>2. CASE k + 1 = EndOf(q[1])
    <3>1. 1 \in 1 .. Len(q) /\ j + 1 \in 1 .. Len(q) /\ 1 < j + 1 /\ r[j] = q[j + 1]
      BY <1>1
    <3> QED
      BY <2>2, <3>1 DEF InReach
  <2> QED
    BY <2>1, <2>2
<1>3. ASSUME NEW i \in 1 .. Len(r), NEW j \in 1 .. Len(r), i < j
      PROVE  EndOf(r[i]) <= r[j].id + MaxFaults
  <2>1. /\ r[i] = q[i + 1] /\ r[j] = q[j + 1] /\ i + 1 \in 1 .. Len(q) /\ j + 1 \in 1 .. Len(q)
        /\ i + 1 < j + 1
    BY <1>1, <1>3
  <2>2. EndOf(q[i + 1]) <= q[j + 1].id + MaxFaults
    BY <2>1 DEF InReach
  <2> QED
    BY <2>1, <2>2
<1>4. k + 1 <= h.id + h.faults
  BY <1>1 DEF HubInReach
<1>5. ASSUME NEW i \in 1 .. Len(r)
      PROVE  EndOf(r[i]) <= h.id + h.faults
  BY <1>1 DEF HubInReach
<1> QED
  BY <1>2, <1>3, <1>4, <1>5 DEF InReach, HubInReach, r

-----------------------------------------------------------------------------
(* Every step.                                                             *)

LEMMA ChunksInit == ASSUME Chunks!Init PROVE ChunksInv
<1>1. Chunks!TypeOK
  <2>1. binding \in Bindings /\ queue \in Seq(Chunks!Frames) /\ delivered \in Seq(Chunks!Parts)
    BY DEF Chunks!Init, Bindings, Chunks!NotAssembling, Chunks!Parts
  <2>2. busy \in [step : {"idle", "decrypt", "deliver"}, id : Chunks!Messages \cup {Chunks!NoMessage},
                  ok : BOOLEAN, parts : Chunks!Parts]
    BY DEF Chunks!Init, Chunks!Idle, Chunks!Parts
  <2>3. hub \in [id : 1 .. MaxMessages + 1, index : {1, 2}, faults : 0 .. MaxFaults]
    BY TransportBoundsAssumption, RepeatsAssumption DEF Chunks!Init
  <2> QED
    BY <2>1, <2>2, <2>3 DEF Chunks!TypeOK, Chunks!Init, Bindings
<1>2. /\ delivered = <<>> /\ queue = <<>> /\ busy.step = "idle" /\ hub.id = 1 /\ hub.index = 1
      /\ hub.faults = 0 /\ binding.assembly = Chunks!NotAssembling /\ binding.assembly.id = Chunks!NoMessage
      /\ binding.assembly.parts = <<>> /\ binding.completed = <<>> /\ ~binding.armed
  BY DEF Chunks!Init, Chunks!Idle, Chunks!NotAssembling
<1>3. TakenUp = 0 /\ Reached = 0
  BY <1>2 DEF TakenUp, Reached
<1>4. Parted /\ Chunks!DeliveredIsPrefix /\ Chunks!DeadlineIsOfOpenMessage
  BY <1>2 DEF Parted, Chunks!DeliveredIsPrefix, Chunks!DeadlineIsOfOpenMessage
<1>5. NoHole(queue, 0) /\ HubFollows(queue, 0, hub) /\ InReach(queue, 0) /\ HubInReach(queue, 0, hub)
  BY <1>2 DEF NoHole, HubFollows, InReach, HubInReach
<1>6. Remembers(binding.completed, 0)
  BY <1>2, TransportBoundsAssumption, RepeatsAssumption DEF Remembers
<1>7. Following
  BY <1>2, <1>3, <1>5, <1>6 DEF Following
<1> QED
  BY <1>1, <1>4, <1>7 DEF ChunksInv

\* What the invariant says of the types.
LEMMA Types ==
  ASSUME Chunks!TypeOK
  PROVE  /\ class \in Chunks!Classes /\ binding \in Bindings /\ queue \in Seq(Chunks!Frames)
         /\ binding.assembly.id \in Chunks!Messages \cup {Chunks!NoMessage} /\ binding.assembly.parts \in Chunks!Parts
         /\ binding.closed \in BOOLEAN /\ binding.completed \in Seq(Chunks!Messages)
         /\ busy.step \in {"idle", "decrypt", "deliver"} /\ busy.id \in Chunks!Messages \cup {Chunks!NoMessage}
         /\ busy.ok \in BOOLEAN /\ busy.parts \in Chunks!Parts
         /\ hub \in [id : 1 .. MaxMessages + 1, index : {1, 2}, faults : 0 .. MaxFaults]
         /\ hub \in [id : Nat, index : {1, 2}, faults : Nat]
         /\ hub.id \in 1 .. MaxMessages + 1 /\ hub.index \in {1, 2} /\ hub.faults \in 0 .. MaxFaults
         /\ hub.id \in Nat /\ hub.faults \in Nat
         /\ delivered \in Seq(Chunks!Parts) /\ Len(delivered) \in Nat
         /\ TakenUp \in Nat /\ Reached \in {TakenUp, TakenUp + 1}
         /\ MaxMessages \in Nat /\ MaxMessagesCompleted \in Nat \ {0} /\ MaxFaults \in Nat /\ MaxFaults <= MaxMessagesCompleted
<1>1. MaxMessages \in Nat /\ MaxMessagesCompleted \in Nat \ {0} /\ MaxFaults \in Nat /\ MaxFaults <= MaxMessagesCompleted
  BY TransportBoundsAssumption, RepeatsAssumption
<1>2. class \in Chunks!Classes /\ binding \in Bindings /\ queue \in Seq(Chunks!Frames) /\ delivered \in Seq(Chunks!Parts)
  BY DEF Chunks!TypeOK, Bindings
<1>3. /\ binding.assembly.id \in Chunks!Messages \cup {Chunks!NoMessage} /\ binding.assembly.parts \in Chunks!Parts
      /\ binding.closed \in BOOLEAN /\ binding.completed \in Seq(Chunks!Messages)
  BY <1>2 DEF Bindings
<1>4. /\ busy.step \in {"idle", "decrypt", "deliver"} /\ busy.id \in Chunks!Messages \cup {Chunks!NoMessage}
      /\ busy.ok \in BOOLEAN /\ busy.parts \in Chunks!Parts
  BY DEF Chunks!TypeOK
<1>5. /\ hub \in [id : 1 .. MaxMessages + 1, index : {1, 2}, faults : 0 .. MaxFaults]
      /\ hub.id \in 1 .. MaxMessages + 1 /\ hub.index \in {1, 2} /\ hub.faults \in 0 .. MaxFaults
  BY DEF Chunks!TypeOK
<1>6. hub \in [id : Nat, index : {1, 2}, faults : Nat] /\ hub.id \in Nat /\ hub.faults \in Nat
  <2>1. [id : 1 .. MaxMessages + 1, index : {1, 2}, faults : 0 .. MaxFaults]
          \subseteq [id : Nat, index : {1, 2}, faults : Nat]
    BY <1>1
  <2> QED
    BY <1>1, <1>5, <2>1
<1>7. Len(delivered) \in Nat
  BY <1>2
<1>8. TakenUp \in Nat
  BY <1>7 DEF TakenUp
<1>9. Reached \in {TakenUp, TakenUp + 1}
  BY <1>8 DEF Reached
<1> QED
  BY <1>1, <1>2, <1>3, <1>4, <1>5, <1>6, <1>7, <1>8, <1>9

\* A step that leaves the channel closed and the listener without a message more.
LEMMA StaysClosed ==
  ASSUME ChunksInv, Chunks!TypeOK', Parted', binding'.closed, delivered' = delivered
  PROVE  ChunksInv'
BY DEF ChunksInv, Chunks!DeliveredIsPrefix, Chunks!DeadlineIsOfOpenMessage

\* Send and SendBad: Hub's next chunk arrives.
LEMMA Arrival ==
  ASSUME ChunksInv, NEW kind \in {"good", "corrupt", "refused"}, NEW d \in {0, 1},
         hub.faults + d <= MaxFaults, hub.id \in Chunks!Messages,
         Chunks!Arrives([id |-> hub.id, index |-> hub.index, kind |-> kind]),
         hub'.id = Chunks!After(hub).id, hub'.index = Chunks!After(hub).index, hub'.faults = hub.faults + d,
         hub' \in [id : 1 .. MaxMessages + 1, index : {1, 2}, faults : 0 .. MaxFaults]
  PROVE  ChunksInv'
<1> DEFINE f == [id |-> hub.id, index |-> hub.index, kind |-> kind]
<1>0. Chunks!TypeOK
  BY DEF ChunksInv
<1>1. f \in Chunks!Frames /\ f.id = hub.id /\ f.index = hub.index /\ f.kind = kind
  BY <1>0, Types DEF Chunks!Frames
<1> HIDE DEF f
<1>2. /\ ~binding.closed /\ class' = class /\ busy' = busy /\ delivered' = delivered
      /\ \/ queue' = Append(queue, f) /\ binding' = binding
         \/ binding' = Chunks!Closed(binding) /\ queue' = queue
  BY DEF Chunks!Arrives, f
<1>t. binding \in Bindings /\ queue \in Seq(Chunks!Frames)
  BY <1>0, Types
<1>3. binding' \in Bindings /\ binding'.assembly = binding.assembly
  BY <1>2, <1>t, ClosedFields
<1>4. queue' \in Seq(Chunks!Frames)
  BY <1>1, <1>2, <1>t
<1>5. Chunks!TypeOK'
  <2>1. binding' \in [closed : BOOLEAN, armed : BOOLEAN,
                      assembly : [id : Chunks!Messages \cup {Chunks!NoMessage}, ok : BOOLEAN, parts : Chunks!Parts],
                      completed : Seq(Chunks!Messages)]
    BY <1>3 DEF Bindings
  <2> QED
    BY <1>0, <1>2, <1>4, <2>1 DEF Chunks!TypeOK
<1>6. Parted'
  BY <1>2, <1>3 DEF ChunksInv, Parted
<1>7. CASE binding' = Chunks!Closed(binding)
  <2>1. binding'.closed
    BY <1>0, <1>7, Types, ClosedFields
  <2> QED
    BY <1>2, <1>5, <1>6, <2>1, StaysClosed
<1>8. CASE queue' = Append(queue, f) /\ binding' = binding
  <2>1. Following
    BY <1>2 DEF ChunksInv
  <2>2. TakenUp' = TakenUp /\ Reached' = Reached
    BY <1>2, <1>8 DEF TakenUp, Reached
  <2>3. /\ hub' \in [id : Nat, index : {1, 2}, faults : Nat] /\ hub'.faults \in Nat
        /\ hub'.id \in {hub.id, hub.id + 1} /\ EndOf(f) <= hub'.id
        /\ hub'.id = hub.id \/ (hub'.id = hub.id + 1 /\ hub'.index = 1)
    <3>1. Chunks!After(hub).id \in {hub.id, hub.id + 1} /\ EndOf(f) <= Chunks!After(hub).id
      BY <1>0, <1>1, Types DEF Chunks!After, EndOf, Chunks!Count
    <3>2. Chunks!After(hub).id = hub.id \/ (Chunks!After(hub).id = hub.id + 1 /\ Chunks!After(hub).index = 1)
      BY <1>0, Types DEF Chunks!After
    <3>3. [id : 1 .. MaxMessages + 1, index : {1, 2}, faults : 0 .. MaxFaults]
            \subseteq [id : Nat, index : {1, 2}, faults : Nat]
      BY <1>0, Types
    <3> QED
      BY <1>0, <3>1, <3>2, <3>3, Types
  <2>4. Reached \in Nat
    BY <1>0, Types
  <2>5. NoHole(queue, Reached) /\ HubFollows(queue, Reached, hub)
    BY <2>1 DEF Following
  <2>6. NoHole(Append(queue, f), Reached)
    BY <1>0, <1>1, <2>4, <2>5, LineGrows, Types
  <2>7. HubFollows(Append(queue, f), Reached, hub')
    BY <1>0, <1>1, <2>3, <2>4, <2>5, HubGoesOn, Types
  <2>8. ASSUME class = "subscription"
        PROVE  InReach(Append(queue, f), TakenUp) /\ HubInReach(Append(queue, f), TakenUp, hub')
    <3>1. InReach(queue, TakenUp) /\ HubInReach(queue, TakenUp, hub)
      BY <2>1, <2>8 DEF Following
    <3>2. hub \in [id : Nat, index : {1, 2}, faults : 0 .. MaxFaults]
      BY <1>0, Types
    <3>3. InReach(Append(queue, f), TakenUp)
      BY <1>0, <1>1, <3>1, <3>2, ReachGrows, Types
    <3>4. EndOf(f) <= hub'.id + hub'.faults /\ hub.id + hub.faults <= hub'.id + hub'.faults
      <4>1. EndOf(f) \in Nat
        BY <1>0, <1>1, Types DEF EndOf
      <4>2. hub.id \in Nat /\ hub.faults \in Nat
        BY <1>0, Types
      <4>3. hub'.id \in Nat /\ hub'.faults \in Nat
        BY <2>3
      <4>4. hub.faults <= hub'.faults
        BY <4>2
      <4>5. EndOf(f) <= hub'.id
        BY <2>3
      <4>6. hub.id <= hub'.id
        BY ONLY <2>3, <4>2
      <4>7. EndOf(f) <= hub'.id + hub'.faults
        BY ONLY <4>1, <4>3, <4>5
      <4>8. hub.id + hub.faults <= hub'.id + hub'.faults
        BY ONLY <4>2, <4>3, <4>4, <4>6
      <4> QED
        BY <4>7, <4>8
    <3>5. HubInReach(Append(queue, f), TakenUp, hub')
      BY <1>0, <1>1, <2>3, <3>1, <3>4, HubReachGrows, Types
    <3> QED
      BY <3>3, <3>5
  <2>9. Following'
    <3>1. (Remembers(binding.completed, TakenUp))'
      BY <1>2, <1>8, <2>1, <2>2 DEF Following, Remembers
    <3>2. (Chunks!Whole(TakenUp))' = Chunks!Whole(TakenUp)
      BY <2>2 DEF Chunks!Whole
    <3>3. (NoHole(queue, Reached) /\ HubFollows(queue, Reached, hub))'
      BY <1>8, <2>2, <2>6, <2>7 DEF NoHole, HubFollows, Carries
    <3>4. (class = "subscription" => InReach(queue, TakenUp) /\ HubInReach(queue, TakenUp, hub))'
      BY <1>2, <1>8, <2>2, <2>8 DEF InReach, HubInReach
    <3>5. class = "subscription" => \A i \in 1 .. Len(queue') : queue'[i].kind # "retired"
      BY <1>1, <1>8, <1>t, <2>1 DEF Following
    <3> QED
      BY <1>2, <1>8, <2>1, <2>2, <3>1, <3>2, <3>3, <3>4, <3>5 DEF Following
  <2> QED
    BY <1>2, <1>5, <1>6, <1>8, <2>9 DEF ChunksInv, Chunks!DeliveredIsPrefix, Chunks!DeadlineIsOfOpenMessage, Chunks!Whole
<1> QED
  BY <1>2, <1>7, <1>8

\* Of a step that leaves chain, channel and listener alone, and moves Hub.
LEMMA HubMoves ==
  ASSUME ChunksInv, UNCHANGED <<class, binding, queue, busy, delivered>>,
         hub' \in [id : 1 .. MaxMessages + 1, index : {1, 2}, faults : 0 .. MaxFaults],
         hub'.index = 1, hub'.faults = hub.faults + 1,
         hub'.id = hub.id - 1 \/ (hub'.id = hub.id + 1 /\ hub.index = 2)
  PROVE  ChunksInv'
<1>0. Chunks!TypeOK
  BY DEF ChunksInv
<1>1. Chunks!TypeOK' /\ Parted' /\ Chunks!DeliveredIsPrefix' /\ Chunks!DeadlineIsOfOpenMessage'
  BY <1>0 DEF ChunksInv, Chunks!TypeOK, Parted, Chunks!DeliveredIsPrefix, Chunks!DeadlineIsOfOpenMessage, Chunks!Whole
<1>t. Reached \in Nat /\ TakenUp \in Nat
  BY <1>0, Types
<1>2. TakenUp' = TakenUp /\ Reached' = Reached /\ Reached \in Nat /\ TakenUp \in Nat
  BY <1>t DEF TakenUp, Reached
<1>3. ASSUME ~binding.closed
      PROVE  Following'
  <2>1. Following
    BY <1>3 DEF ChunksInv
  <2>2. NoHole(queue, Reached) /\ HubFollows(queue, Reached, hub)
    BY <2>1 DEF Following
  <2>3. hub.id \in Nat /\ hub'.id \in Nat /\ queue \in Seq(Chunks!Frames)
    BY <1>0, Types
  <2>4. ASSUME Reached + 1 < hub'.id
        PROVE  \E i \in 1 .. Len(queue) : Carries(queue, i, hub'.id - 1)
    <3>1. CASE hub'.id = hub.id - 1
      <4>1. PICK j \in 1 .. Len(queue) : Carries(queue, j, hub.id - 1)
        BY <1>2, <2>2, <2>3, <2>4, <3>1 DEF HubFollows
      <4>2. queue[j].kind # "retired" /\ queue[j].id = hub'.id
        BY <3>1, <4>1 DEF Carries
      <4>3. PICK i \in 1 .. j - 1 : Carries(queue, i, queue[j].id - 1)
        BY <2>2, <2>4, <4>2 DEF NoHole
      <4> QED
        BY <2>3, <4>2, <4>3
    <3>2. CASE hub'.id = hub.id + 1 /\ hub.index = 2
      BY <1>2, <2>2, <2>3, <2>4, <3>2 DEF HubFollows
    <3> QED
      BY <3>1, <3>2
  <2>5. HubFollows(queue, Reached, hub')
    BY <2>4 DEF HubFollows
  <2>6. ASSUME class = "subscription"
        PROVE  InReach(queue, TakenUp) /\ HubInReach(queue, TakenUp, hub')
    <3>1. InReach(queue, TakenUp) /\ HubInReach(queue, TakenUp, hub)
      BY <2>1, <2>6 DEF Following
    <3>2. hub.faults \in Nat /\ hub.id + hub.faults <= hub'.id + hub'.faults
      <4>1. hub.faults \in Nat
        BY <1>0, Types
      <4>2. hub'.faults = hub.faults + 1 /\ (hub'.id = hub.id - 1 \/ hub'.id = hub.id + 1)
        OBVIOUS
      <4> QED
        BY ONLY <2>3, <4>1, <4>2
    <3>3. \A e \in Chunks!Frames : EndOf(e) \in Nat
      BY DEF EndOf, Chunks!Frames, Chunks!Messages
    <3>4. \A i \in 1 .. Len(queue) : EndOf(queue[i]) \in Nat
      BY <2>3, <3>3
    <3>5. hub'.faults \in Nat
      BY <3>2, hub'.faults = hub.faults + 1
    <3> QED
      BY <1>2, <2>3, <3>1, <3>2, <3>4, <3>5 DEF HubInReach
  <2>7. (NoHole(queue, Reached) /\ HubFollows(queue, Reached, hub))'
    BY <1>2, <2>2, <2>5 DEF NoHole, HubFollows, Carries
  <2>8. (class = "subscription" => InReach(queue, TakenUp) /\ HubInReach(queue, TakenUp, hub))'
    BY <1>2, <2>6 DEF InReach, HubInReach
  <2>9. (Remembers(binding.completed, TakenUp))' /\ (Chunks!Whole(TakenUp))' = Chunks!Whole(TakenUp)
    BY <1>2, <2>1 DEF Following, Remembers, Chunks!Whole
  <2> QED
    BY <1>2, <2>1, <2>7, <2>8, <2>9 DEF Following
<1> QED
  BY <1>1, <1>3 DEF ChunksInv

\* A retired chunk arrives.
LEMMA RetiredArrives ==
  ASSUME ChunksInv, Chunks!SendRetired
  PROVE  ChunksInv'
<1>0. Chunks!TypeOK
  BY DEF ChunksInv
<1>1. PICK i \in {1, 2} : Chunks!Arrives([id |-> hub.id, index |-> i, kind |-> "retired"])
  BY DEF Chunks!SendRetired
<1> DEFINE f == [id |-> hub.id, index |-> i, kind |-> "retired"]
<1>2. f \in Chunks!Frames /\ f.id = hub.id /\ f.kind = "retired"
  BY DEF Chunks!Frames, Chunks!SendRetired
<1> HIDE DEF f
<1>3. /\ ~binding.closed /\ class' = class /\ busy' = busy /\ delivered' = delivered
      /\ \/ queue' = Append(queue, f) /\ binding' = binding
         \/ binding' = Chunks!Closed(binding) /\ queue' = queue
  BY <1>1 DEF Chunks!Arrives, f
<1>4. /\ class = "terminal" /\ hub' = [hub EXCEPT !.faults = @ + 1] /\ hub.faults < MaxFaults
  BY DEF Chunks!SendRetired
<1>t. /\ binding \in Bindings /\ queue \in Seq(Chunks!Frames) /\ MaxFaults \in Nat /\ Reached \in Nat
      /\ hub \in [id : 1 .. MaxMessages + 1, index : {1, 2}, faults : 0 .. MaxFaults]
      /\ hub \in [id : Nat, index : {1, 2}, faults : Nat]
  BY <1>0, Types
<1>5. /\ hub' \in [id : 1 .. MaxMessages + 1, index : {1, 2}, faults : 0 .. MaxFaults]
      /\ hub' \in [id : Nat, index : {1, 2}, faults : Nat]
      /\ hub'.id = hub.id /\ hub'.index = hub.index
  BY <1>4, <1>t
<1>6. binding' \in Bindings /\ binding'.assembly = binding.assembly
  BY <1>3, <1>t, ClosedFields
<1>7. queue' \in Seq(Chunks!Frames)
  BY <1>2, <1>3, <1>t
<1>8. Chunks!TypeOK'
  <2>1. binding' \in [closed : BOOLEAN, armed : BOOLEAN,
                      assembly : [id : Chunks!Messages \cup {Chunks!NoMessage}, ok : BOOLEAN, parts : Chunks!Parts],
                      completed : Seq(Chunks!Messages)]
    BY <1>6 DEF Bindings
  <2> QED
    BY <1>0, <1>3, <1>5, <1>7, <2>1 DEF Chunks!TypeOK
<1>9. Parted'
  BY <1>3, <1>6 DEF ChunksInv, Parted
<1>10. CASE binding' = Chunks!Closed(binding)
  <2>1. binding'.closed
    BY <1>10, <1>t, ClosedFields
  <2> QED
    BY <1>3, <1>8, <1>9, <2>1, StaysClosed
<1>11. CASE queue' = Append(queue, f) /\ binding' = binding
  <2>1. Following
    BY <1>3 DEF ChunksInv
  <2>2. TakenUp' = TakenUp /\ Reached' = Reached
    BY <1>3, <1>11 DEF TakenUp, Reached
  <2>3. NoHole(queue, Reached) /\ HubFollows(queue, Reached, hub)
    BY <2>1 DEF Following
  <2>4. NoHole(Append(queue, f), Reached)
    BY <1>2, <1>t, <2>3, LineGrows
  <2>5. HubFollows(Append(queue, f), Reached, hub')
    BY <1>2, <1>t, <1>5, <2>3, HubWaits
  <2>6. (NoHole(queue, Reached) /\ HubFollows(queue, Reached, hub))'
    BY <1>11, <2>2, <2>4, <2>5 DEF NoHole, HubFollows, Carries
  <2>7. (Remembers(binding.completed, TakenUp))' /\ (Chunks!Whole(TakenUp))' = Chunks!Whole(TakenUp)
    BY <1>3, <1>11, <2>1, <2>2 DEF Following, Remembers, Chunks!Whole
  <2>8. Following'
    BY <1>3, <1>4, <1>11, <2>1, <2>2, <2>6, <2>7 DEF Following
  <2> QED
    BY <1>3, <1>8, <1>9, <1>11, <2>8 DEF ChunksInv, Chunks!DeliveredIsPrefix, Chunks!DeadlineIsOfOpenMessage, Chunks!Whole
<1> QED
  BY <1>3, <1>10, <1>11

\* The channel closes: Close, Timeout.
LEMMA Closes ==
  ASSUME ChunksInv, binding' = Chunks!Closed(binding),
         UNCHANGED <<class, queue, busy, hub, delivered>>
  PROVE  ChunksInv'
<1>0. Chunks!TypeOK
  BY DEF ChunksInv
<1>1. binding' \in Bindings /\ binding'.assembly = binding.assembly /\ binding'.closed
  <2>1. binding \in Bindings
    BY <1>0, Types
  <2> QED
    BY <2>1, ClosedFields
<1>2. binding' \in [closed : BOOLEAN, armed : BOOLEAN,
                    assembly : [id : Chunks!Messages \cup {Chunks!NoMessage}, ok : BOOLEAN, parts : Chunks!Parts],
                    completed : Seq(Chunks!Messages)]
  BY <1>1 DEF Bindings
<1>3. Chunks!TypeOK'
  BY <1>0, <1>2 DEF Chunks!TypeOK
<1>4. Parted'
  BY <1>1 DEF ChunksInv, Parted
<1> QED
  BY <1>1, <1>3, <1>4, StaysClosed

-----------------------------------------------------------------------------
(* The chain.                                                              *)

\* The chain turns to the head of the line.
LEMMA Turns ==
  ASSUME ChunksInv, Chunks!Turn
  PROVE  /\ Head(queue) \in Chunks!Frames /\ Head(queue) = queue[1] /\ queue # <<>>
         /\ Tail(queue) \in Seq(Chunks!Frames) /\ busy.step = "idle"
         /\ Head(queue).id \in Chunks!Messages /\ Head(queue).id \in Nat \ {0} /\ Head(queue).index \in {1, 2}
<1>1. queue \in Seq(Chunks!Frames) /\ queue # <<>>
  BY Types DEF ChunksInv, Chunks!Turn
<1>2. Head(queue) \in Chunks!Frames /\ Head(queue) = queue[1] /\ Tail(queue) \in Seq(Chunks!Frames)
  BY <1>1
<1>3. Head(queue).id \in Chunks!Messages /\ Head(queue).index \in {1, 2}
  BY <1>2 DEF Chunks!Frames
<1>4. Head(queue).id \in Nat \ {0}
  BY <1>3 DEF Chunks!Messages
<1> QED
  BY <1>1, <1>2, <1>3, <1>4 DEF Chunks!Turn, Chunks!Idle

\* On an open channel a chunk that fits is the next one of the next message.
LEMMA FitsNext ==
  ASSUME ChunksInv, Chunks!Turn, ~binding.closed, Chunks!Fits(Head(queue)), Head(queue).kind # "retired"
  PROVE  /\ Head(queue).id = TakenUp + 1
         /\ Head(queue).index = Len(binding.assembly.parts) + 1
<1> DEFINE f == Head(queue)
<1>0. Chunks!TypeOK /\ Following
  BY DEF ChunksInv
<1>1. /\ f = queue[1] /\ f.id \in Nat \ {0} /\ TakenUp \in Nat /\ Reached \in Nat
      /\ MaxMessagesCompleted \in Nat /\ MaxFaults \in Nat /\ MaxFaults <= MaxMessagesCompleted
      /\ binding.completed \in Seq(Chunks!Messages) /\ Len(queue) \in Nat \ {0}
  <2>1. f = queue[1] /\ f.id \in Nat \ {0} /\ queue # <<>>
    BY Turns
  <2>2. queue \in Seq(Chunks!Frames) /\ TakenUp \in Nat /\ Reached \in {TakenUp, TakenUp + 1}
    BY <1>0, Types
  <2>3. Len(queue) \in Nat \ {0} /\ Reached \in Nat
    BY <2>1, <2>2
  <2>4. /\ MaxMessagesCompleted \in Nat /\ MaxFaults \in Nat /\ MaxFaults <= MaxMessagesCompleted
        /\ binding.completed \in Seq(Chunks!Messages)
    BY <1>0, Types
  <2> QED
    BY <2>1, <2>2, <2>3, <2>4
<1>2. CASE Chunks!Continues(f)
  <2>1. binding.assembly.id # Chunks!NoMessage
    BY <1>2 DEF ChunksInv, Parted, Chunks!Continues
  <2> QED
    BY <1>0, <1>2, <2>1 DEF Following, Chunks!Continues
<1>3. CASE Chunks!Starts(f)
  <2>1. binding.assembly.id = Chunks!NoMessage /\ binding.assembly.parts = <<>> /\ f.index = 1
    BY <1>3 DEF Chunks!Starts, Chunks!NotAssembling
  <2>2. Reached = TakenUp
    BY <1>1, <2>1 DEF Reached
  <2>3. f.id <= TakenUp + 1
    <3>1. NoHole(queue, TakenUp) /\ 1 \in 1 .. Len(queue)
      BY <1>0, <1>1, <2>2 DEF Following
    <3> QED
      BY <1>1, <3>1 DEF NoHole
  <2>4. TakenUp < f.id
    <3>1. CASE class = "terminal"
      <4>1. binding.completed = IF TakenUp = 0 THEN <<>> ELSE <<TakenUp>>
        BY <1>0, <3>1 DEF Following, Remembers
      <4>2. TakenUp # 0 => TakenUp \in Chunks!ToSet(binding.completed)
        BY <4>1 DEF Chunks!ToSet
      <4>3. \A m \in Chunks!ToSet(binding.completed) : f.id > m
        BY <1>3, <3>1 DEF Chunks!Starts
      <4> QED
        BY <1>1, <4>2, <4>3
    <3>2. CASE class = "subscription"
      <4> DEFINE done == binding.completed
      <4>1. /\ Len(done) <= TakenUp
            /\ Len(done) < MaxMessagesCompleted => Len(done) = TakenUp
            /\ \A i \in 1 .. Len(done) : done[i] = TakenUp - Len(done) + i
        BY <1>0, <3>2 DEF Following, Remembers
      <4>2. TakenUp + 1 <= f.id + MaxFaults
        BY <1>0, <1>1, <3>2 DEF Following, InReach
      <4>3. f.id \notin Chunks!ToSet(done)
        BY <3>2 DEF Chunks!Fits, Chunks!IsRepeated
      <4>4. Len(done) \in Nat /\ DOMAIN done = 1 .. Len(done)
        BY <1>1
      <4>5. \A i \in 1 .. Len(done) : TakenUp - Len(done) + i # f.id
        BY <4>1, <4>3, <4>4 DEF Chunks!ToSet
      <4> HIDE DEF f, done
      <4>6. ASSUME f.id <= TakenUp
            PROVE  \E i \in 1 .. Len(done) : TakenUp - Len(done) + i = f.id
        <5>1. /\ MaxFaults \in Nat /\ f.id \in Nat \ {0} /\ Len(done) \in Nat /\ TakenUp \in Nat
              /\ MaxMessagesCompleted \in Nat /\ MaxFaults <= MaxMessagesCompleted
          BY <1>1, <4>4
        <5>2. Len(done) <= TakenUp
          BY <4>1
        <5>3. Len(done) < MaxMessagesCompleted => Len(done) = TakenUp
          BY <4>1
        <5>4. f.id - TakenUp + Len(done) \in 1 .. Len(done)
          BY ONLY <4>2, <4>6, <5>1, <5>2, <5>3
        <5>5. TakenUp - Len(done) + (f.id - TakenUp + Len(done)) = f.id
          BY ONLY <5>1
        <5> QED
          BY ONLY <5>4, <5>5
      <4> QED
        BY <1>1, <4>5, <4>6
    <3> QED
      BY <1>0, <3>1, <3>2 DEF Chunks!TypeOK, Chunks!Classes
  <2> QED
    BY <1>1, <2>1, <2>3, <2>4
<1> QED
  BY <1>2, <1>3 DEF Chunks!Fits

\* After one message more.
LEMMA RemembersNext ==
  ASSUME NEW b \in Bindings, NEW m \in Nat, b.assembly.id = m + 1,
         m + 1 \in Chunks!Messages, Remembers(b.completed, m)
  PROVE  Remembers(Chunks!RememberedOf(b), m + 1)
<1>1. CASE class = "terminal"
  BY <1>1 DEF Remembers, Chunks!RememberedOf
<1>2. CASE class # "terminal"
  <2> DEFINE done == b.completed
             rest == IF Len(done) < MaxMessagesCompleted THEN done ELSE Tail(done)
             new == Append(rest, m + 1)
  <2>1. Chunks!RememberedOf(b) = new
    BY <1>2 DEF Chunks!RememberedOf
  <2>2. /\ Len(done) <= m
        /\ Len(done) < MaxMessagesCompleted => Len(done) = m
        /\ \A i \in 1 .. Len(done) : done[i] = m - Len(done) + i
    BY <1>2 DEF Remembers
  <2>3. done \in Seq(Chunks!Messages) /\ Len(done) \in Nat /\ MaxMessagesCompleted \in Nat \ {0}
    BY TransportBoundsAssumption, RepeatsAssumption DEF Bindings
  <2> HIDE DEF done
  <2>4. CASE Len(done) < MaxMessagesCompleted
    <3>1. rest = done /\ new = Append(done, m + 1)
      BY <2>4
    <3> HIDE DEF rest
    <3>a. /\ Len(new) = Len(done) + 1 /\ new[Len(done) + 1] = m + 1
          /\ \A i \in 1 .. Len(done) : new[i] = done[i]
      BY <2>3, <3>1
    <3>b. Len(done) = m /\ \A i \in 1 .. m : done[i] = i
      <4>1. Len(done) = m
        BY <2>2, <2>3, <2>4
      <4>2. ASSUME NEW i \in 1 .. m
            PROVE  done[i] = i
        <5>1. done[i] = m - m + i
          BY <2>2, <4>1
        <5> QED
          BY <5>1
      <4> QED
        BY <4>1, <4>2
    <3> HIDE DEF new
    <3>2. Len(new) = m + 1 /\ \A i \in 1 .. Len(new) : new[i] = i
      BY <3>a, <3>b
    <3>3. \A i \in 1 .. Len(new) : i = m + 1 - Len(new) + i
      BY <3>2
    <3> QED
      BY <1>2, <2>1, <3>2, <3>3 DEF Remembers, new
  <2>5. CASE ~(Len(done) < MaxMessagesCompleted)
    <3>1. rest = Tail(done) /\ done # <<>>
      BY <2>3, <2>5
    <3>2. /\ rest \in Seq(Chunks!Messages) /\ Len(rest) = Len(done) - 1
          /\ \A i \in 1 .. Len(rest) : rest[i] = done[i + 1]
      BY <2>3, <3>1
    <3> HIDE DEF rest
    <3>3. /\ Len(new) = Len(done) /\ new[Len(done)] = m + 1
          /\ \A i \in 1 .. Len(done) - 1 : new[i] = done[i + 1]
      BY <2>3, <3>2
    <3> HIDE DEF new
    <3>4. ASSUME NEW i \in 1 .. Len(new)
          PROVE  new[i] = m + 1 - Len(new) + i
      <4>1. CASE i = Len(done)
        BY <2>3, <3>3, <4>1
      <4>2. CASE i # Len(done)
        <5>1. i \in 1 .. Len(done) - 1 /\ i + 1 \in 1 .. Len(done)
          BY <2>3, <3>3, <4>2
        <5>2. new[i] = m - Len(done) + (i + 1)
          BY <2>2, <3>3, <5>1
        <5> QED
          BY <2>3, <3>3, <5>1, <5>2
      <4> QED
        BY <4>1, <4>2
    <3>5. Len(new) <= m + 1 /\ ~(Len(new) < MaxMessagesCompleted)
      BY <2>2, <2>3, <2>5, <3>3
    <3> QED
      BY <1>2, <2>1, <3>4, <3>5 DEF Remembers, new
  <2> QED
    BY <2>4, <2>5
<1> QED
  BY <1>1, <1>2

\* Chunks in order, up to the last, are the whole message.
LEMMA WholeParts ==
  ASSUME NEW m \in Chunks!Messages, NEW p \in Chunks!Parts, Len(p) = Chunks!Count(m),
         \A i \in 1 .. Len(p) : p[i] = <<m, i>>
  PROVE  p = Chunks!Whole(m)
<1>1. p = [i \in 1 .. Len(p) |-> p[i]]
  BY DEF Chunks!Parts
<1> QED
  BY <1>1 DEF Chunks!Whole

\* The assembly with the next chunk.
LEMMA NextPart ==
  ASSUME NEW b \in Bindings, NEW m \in Chunks!Messages, NEW i \in {1, 2}, i = Len(b.assembly.parts) + 1,
         \A j \in 1 .. Len(b.assembly.parts) : b.assembly.parts[j] = <<m, j>>
  PROVE  LET p == Append(b.assembly.parts, <<m, i>>)
         IN p \in Chunks!Parts /\ Len(p) = i /\ \A j \in 1 .. Len(p) : p[j] = <<m, j>>
<1> DEFINE s == b.assembly.parts
           x == <<m, i>>
<1>1. s \in Seq(Chunks!Messages \X {1, 2}) /\ x \in Chunks!Messages \X {1, 2} /\ Len(s) \in Nat
  BY DEF Bindings, Chunks!Parts
<1>2. x = <<m, i>>
  OBVIOUS
<1> HIDE DEF s, x
<1>3. /\ Append(s, x) \in Seq(Chunks!Messages \X {1, 2}) /\ Len(Append(s, x)) = Len(s) + 1
      /\ Append(s, x)[Len(s) + 1] = x /\ \A j \in 1 .. Len(s) : Append(s, x)[j] = s[j]
  BY <1>1
<1>4. i = Len(s) + 1 /\ \A j \in 1 .. Len(s) : s[j] = <<m, j>>
  BY DEF s
<1>5. \A j \in 1 .. Len(Append(s, x)) : Append(s, x)[j] = <<m, j>>
  BY <1>1, <1>2, <1>3, <1>4
<1> QED
  BY <1>2, <1>3, <1>4, <1>5 DEF Chunks!Parts, s

LEMMA DiscardStep == ASSUME ChunksInv, Chunks!DiscardRetired PROVE ChunksInv'
<1>1. /\ Chunks!Turn /\ queue[1].kind = "retired" /\ UNCHANGED <<class, binding, busy, hub, delivered>>
      /\ queue' = Tail(queue) /\ Tail(queue) \in Seq(Chunks!Frames) /\ queue # <<>>
  BY Turns DEF Chunks!DiscardRetired, Chunks!Turn
<1>0. Chunks!TypeOK
  BY DEF ChunksInv
<1>2. Chunks!TypeOK' /\ Parted' /\ Chunks!DeliveredIsPrefix' /\ Chunks!DeadlineIsOfOpenMessage'
  BY <1>0, <1>1 DEF ChunksInv, Chunks!TypeOK, Parted, Chunks!DeliveredIsPrefix, Chunks!DeadlineIsOfOpenMessage, Chunks!Whole
<1>t. /\ Reached \in Nat /\ TakenUp \in Nat /\ queue \in Seq(Chunks!Frames)
      /\ hub \in [id : Nat, index : {1, 2}, faults : Nat]
  BY <1>0, Types
<1>3. TakenUp' = TakenUp /\ Reached' = Reached
  BY <1>1 DEF TakenUp, Reached
<1>4. ASSUME ~binding.closed
      PROVE  Following'
  <2>1. Following
    BY <1>4 DEF ChunksInv
  <2>2. NoHole(Tail(queue), Reached) /\ HubFollows(Tail(queue), Reached, hub)
    BY <1>1, <1>t, <2>1, LineShrinks DEF Following
  <2>3. (NoHole(queue, Reached) /\ HubFollows(queue, Reached, hub))'
    BY <1>1, <1>3, <2>2 DEF NoHole, HubFollows, Carries
  <2>4. ASSUME class = "subscription"
        PROVE  FALSE
    <3>1. 1 \in 1 .. Len(queue)
      BY <1>1, <1>t
    <3> QED
      BY <1>1, <2>1, <2>4, <3>1 DEF Following
  <2>5. (Remembers(binding.completed, TakenUp))'
    BY <1>1, <1>3, <2>1 DEF Following, Remembers
  <2> QED
    BY <1>1, <1>3, <2>1, <2>3, <2>4, <2>5 DEF Following
<1> QED
  BY <1>1, <1>2, <1>4 DEF ChunksInv

LEMMA ChunksRefuseStep == ASSUME ChunksInv, Chunks!Refuse PROVE ChunksInv'
<1>1. /\ Chunks!Turn /\ UNCHANGED <<class, busy, hub, delivered>> /\ binding' = Chunks!Closed(binding)
      /\ queue' = Tail(queue) /\ Tail(queue) \in Seq(Chunks!Frames)
  BY Turns DEF Chunks!Refuse, Chunks!Turn
<1>0. Chunks!TypeOK
  BY DEF ChunksInv
<1>2. binding' \in Bindings /\ binding'.assembly = binding.assembly /\ binding'.closed
  <2>1. binding \in Bindings
    BY <1>0, Types
  <2> QED
    BY <1>1, <2>1, ClosedFields
<1>3. binding' \in [closed : BOOLEAN, armed : BOOLEAN,
                    assembly : [id : Chunks!Messages \cup {Chunks!NoMessage}, ok : BOOLEAN, parts : Chunks!Parts],
                    completed : Seq(Chunks!Messages)]
  BY <1>2 DEF Bindings
<1>4. Chunks!TypeOK'
  BY <1>0, <1>1, <1>3 DEF Chunks!TypeOK
<1>5. Parted'
  BY <1>1, <1>2 DEF ChunksInv, Parted
<1> QED
  BY <1>1, <1>2, <1>4, <1>5, StaysClosed

\* The line after its head, which was the next chunk of message TakenUp + 1.
LEMMA LineGoesOn ==
  ASSUME ChunksInv, Chunks!Turn, ~binding.closed, queue[1].id = TakenUp + 1
  PROVE  /\ NoHole(Tail(queue), TakenUp + 1) /\ HubFollows(Tail(queue), TakenUp + 1, hub)
         /\ class = "subscription" =>
              /\ \A i \in 1 .. Len(Tail(queue)) : Tail(queue)[i].kind # "retired"
              /\ \A k \in Nat : k = TakenUp \/ k + 1 = EndOf(queue[1]) =>
                   InReach(Tail(queue), k) /\ HubInReach(Tail(queue), k, hub)
<1>0. Chunks!TypeOK /\ Following
  BY DEF ChunksInv
<1>t. /\ Reached \in {TakenUp, TakenUp + 1} /\ TakenUp \in Nat /\ queue \in Seq(Chunks!Frames)
      /\ hub \in [id : Nat, index : {1, 2}, faults : Nat] /\ queue # <<>>
  BY <1>0, Types, Turns
<1>1. TakenUp + 1 \in {Reached, Reached + 1} /\ Reached \in Nat /\ queue[1].id <= TakenUp + 1
  BY <1>t
<1>2. NoHole(queue, Reached) /\ HubFollows(queue, Reached, hub)
  BY <1>0 DEF Following
<1>3. NoHole(Tail(queue), TakenUp + 1) /\ HubFollows(Tail(queue), TakenUp + 1, hub)
  BY <1>1, <1>2, <1>t, LineShrinks
<1>4. ASSUME class = "subscription", NEW k \in Nat, k = TakenUp \/ k + 1 = EndOf(queue[1])
      PROVE  InReach(Tail(queue), k) /\ HubInReach(Tail(queue), k, hub)
  <2>1. InReach(queue, TakenUp) /\ HubInReach(queue, TakenUp, hub)
    BY <1>0, <1>4 DEF Following
  <2> QED
    BY <1>4, <1>t, <2>1, ReachShrinks
<1>5. ASSUME class = "subscription"
      PROVE  \A i \in 1 .. Len(Tail(queue)) : Tail(queue)[i].kind # "retired"
  <2>1. \A i \in 1 .. Len(queue) : queue[i].kind # "retired"
    BY <1>0, <1>5 DEF Following
  <2>2. Len(Tail(queue)) = Len(queue) - 1 /\ \A i \in 1 .. Len(Tail(queue)) : Tail(queue)[i] = queue[i + 1]
    BY <1>t
  <2> QED
    BY <1>t, <2>1, <2>2
<1> QED
  BY <1>3, <1>4, <1>5

LEMMA TerminalStep == ASSUME ChunksInv, Chunks!TerminalChunk PROVE ChunksInv'
<1> DEFINE f == Head(queue)
<1>1. /\ class = "terminal" /\ Chunks!Turn /\ f.kind # "retired" /\ Chunks!Fits(f)
      /\ binding' = Chunks!Opened(binding, f.id)
      /\ busy' = [step |-> "decrypt", id |-> f.id, ok |-> f.kind = "good",
                  parts |-> <<<<f.id, f.index>>>>]
  BY DEF Chunks!TerminalChunk
<1>2. /\ f \in Chunks!Frames /\ f = queue[1] /\ queue # <<>> /\ Tail(queue) \in Seq(Chunks!Frames)
      /\ busy.step = "idle" /\ f.id \in Chunks!Messages /\ f.id \in Nat \ {0} /\ f.index \in {1, 2}
  BY <1>1, Turns
<1>3. queue' = Tail(queue) /\ UNCHANGED <<class, hub, delivered>>
  BY <1>1 DEF Chunks!Turn
<1>0. Chunks!TypeOK /\ binding \in Bindings
  BY Types DEF ChunksInv
<1> HIDE DEF f
<1>4. /\ binding' \in Bindings /\ binding'.closed = binding.closed
      /\ binding'.completed = binding.completed
      /\ binding'.armed = IF binding.assembly.id = f.id THEN binding.armed ELSE TRUE
      /\ binding'.assembly.id = f.id /\ binding'.assembly.parts = binding.assembly.parts
  <2> DEFINE d == Chunks!Opened(binding, f.id)
  <2>1. IsOpened(binding, f.id, d)
    BY <1>0, <1>2, OpenedIs
  <2>2. binding' = d
    BY <1>1
  <2> HIDE DEF d
  <2>3. IsOpened(binding, f.id, binding')
    BY ONLY <2>1, <2>2
  <2> QED
    BY ONLY <2>3 DEF IsOpened
<1>5. /\ busy'.step = "decrypt" /\ busy'.id = f.id /\ busy'.parts = <<<<f.id, f.index>>>>
      /\ busy' \in [step : {"idle", "decrypt", "deliver"}, id : Chunks!Messages \cup {Chunks!NoMessage},
                    ok : BOOLEAN, parts : Chunks!Parts]
  <2>1. <<<<f.id, f.index>>>> \in Chunks!Parts
    BY <1>2 DEF Chunks!Parts
  <2> QED
    BY <1>1, <1>2, <2>1
<1>6. Chunks!TypeOK'
  <2>1. binding' \in [closed : BOOLEAN, armed : BOOLEAN,
                      assembly : [id : Chunks!Messages \cup {Chunks!NoMessage}, ok : BOOLEAN, parts : Chunks!Parts],
                      completed : Seq(Chunks!Messages)]
    BY <1>4 DEF Bindings
  <2> QED
    BY <1>0, <1>2, <1>3, <1>5, <2>1 DEF Chunks!TypeOK
<1>7. Parted'
  <2>1. f.id # Chunks!NoMessage
    BY <1>2 DEF Chunks!NoMessage
  <2> QED
    BY <1>1, <1>2, <1>3, <1>4, <1>5, <2>1 DEF Parted
<1>8. CASE binding.closed
  BY <1>3, <1>4, <1>6, <1>7, <1>8, StaysClosed
<1>9. CASE ~binding.closed
  <2>1. f.id = TakenUp + 1 /\ f.index = Len(binding.assembly.parts) + 1
    BY <1>1, <1>9, FitsNext DEF f
  <2>2. TakenUp' = TakenUp /\ TakenUp \in Nat /\ f.id # Chunks!NoMessage
    BY <1>0, <1>1, <1>2, <1>3, Types DEF TakenUp, Chunks!NoMessage
  <2>3. Reached' = TakenUp + 1
    BY <1>4, <2>2 DEF Reached
  <2>4. NoHole(Tail(queue), TakenUp + 1) /\ HubFollows(Tail(queue), TakenUp + 1, hub)
    BY <1>1, <1>2, <1>9, <2>1, LineGoesOn
  <2>5. (NoHole(queue, Reached) /\ HubFollows(queue, Reached, hub))'
    BY <1>3, <2>3, <2>4 DEF NoHole, HubFollows, Carries
  <2>6. Following
    BY <1>9 DEF ChunksInv
  <2>7. (Remembers(binding.completed, TakenUp))'
    BY <1>3, <1>4, <2>2, <2>6 DEF Following, Remembers
  <2>8. \A i \in 1 .. Len(binding.assembly.parts) : binding.assembly.parts[i] = <<f.id, i>>
    <3>1. CASE binding.assembly.id = Chunks!NoMessage
      <4>1. binding.assembly.parts = <<>>
        BY <3>1 DEF ChunksInv, Parted, Chunks!NotAssembling
      <4> QED
        BY <4>1
    <3>2. CASE binding.assembly.id # Chunks!NoMessage
      BY <2>1, <2>6, <3>2 DEF Following
    <3> QED
      BY <3>1, <3>2
  <2>9. Following'
    BY <1>1, <1>3, <1>4, <1>5, <2>1, <2>2, <2>5, <2>7, <2>8 DEF Following
  <2>10. Chunks!DeliveredIsPrefix'
    BY <1>3 DEF ChunksInv, Chunks!DeliveredIsPrefix, Chunks!Whole
  <2>11. Chunks!DeadlineIsOfOpenMessage'
    <3>1. binding'.armed
      <4>1. CASE binding.assembly.id = f.id
        <5>1. binding.assembly # Chunks!NotAssembling
          BY <2>2, <4>1 DEF Chunks!NotAssembling
        <5> QED
          BY <1>4, <1>9, <4>1, <5>1 DEF ChunksInv, Chunks!DeadlineIsOfOpenMessage
      <4>2. CASE binding.assembly.id # f.id
        BY <1>4, <4>2
      <4> QED
        BY <4>1, <4>2
    <3>2. binding'.assembly # Chunks!NotAssembling
      BY <1>4, <2>2 DEF Chunks!NotAssembling
    <3> QED
      BY <3>1, <3>2 DEF Chunks!DeadlineIsOfOpenMessage
  <2> QED
    BY <1>6, <1>7, <2>9, <2>10, <2>11 DEF ChunksInv
<1> QED
  BY <1>8, <1>9

LEMMA SubscriptionStep == ASSUME ChunksInv, Chunks!SubscriptionChunk PROVE ChunksInv'
<1> DEFINE f == Head(queue)
           o == Chunks!Opened(binding, f.id)
           good == f.kind = "good"
           w == Chunks!WithPart(o, f.id, f.index, good)
<1>1. /\ class = "subscription" /\ Chunks!Turn /\ Chunks!Fits(f)
      /\ IF Chunks!IsWhole(w)
         THEN /\ binding' = Chunks!Taken(w)
              /\ busy' = [step |-> "decrypt", id |-> f.id, ok |-> w.assembly.ok,
                          parts |-> w.assembly.parts]
         ELSE binding' = w /\ busy' = busy
  BY DEF Chunks!SubscriptionChunk
<1>2. /\ f \in Chunks!Frames /\ f = queue[1] /\ queue # <<>> /\ Tail(queue) \in Seq(Chunks!Frames)
      /\ busy.step = "idle" /\ f.id \in Chunks!Messages /\ f.id \in Nat \ {0} /\ f.index \in {1, 2}
  BY <1>1, Turns
<1>3. queue' = Tail(queue) /\ UNCHANGED <<class, hub, delivered>>
  BY <1>1 DEF Chunks!Turn
<1>0. Chunks!TypeOK /\ binding \in Bindings /\ TakenUp \in Nat /\ queue \in Seq(Chunks!Frames) /\ class \in Chunks!Classes
  BY Types DEF ChunksInv
<1>4. /\ o \in Bindings /\ o.closed = binding.closed /\ o.completed = binding.completed
      /\ o.armed = IF binding.assembly.id = f.id THEN binding.armed ELSE TRUE
      /\ o.assembly.id = f.id /\ o.assembly.parts = binding.assembly.parts
  <2>1. IsOpened(binding, f.id, o)
    BY <1>0, <1>2, OpenedIs
  <2> HIDE DEF f, o
  <2> QED
    BY ONLY <2>1 DEF IsOpened
<1>5. /\ w \in Bindings /\ w.closed = o.closed /\ w.completed = o.completed /\ w.armed = o.armed
      /\ w.assembly.id = o.assembly.id /\ w.assembly.ok \in BOOLEAN
      /\ w.assembly.parts = Append(o.assembly.parts, <<f.id, f.index>>)
  <2>1. good \in BOOLEAN
    OBVIOUS
  <2>2. o \in Bindings /\ f.id \in Chunks!Messages /\ f.index \in {1, 2}
    BY <1>2, <1>4
  <2>3. CASE good
    <3>1. w = Chunks!WithPart(o, f.id, f.index, TRUE)
      <4>1. good = TRUE
        BY <2>1, <2>3
      <4> HIDE DEF good
      <4> QED
        BY ONLY <4>1 DEF w
    <3> HIDE DEF w
    <3> QED
      BY <2>2, <3>1, WithPartFields
  <2>4. CASE ~good
    <3>1. w = Chunks!WithPart(o, f.id, f.index, FALSE)
      <4>1. good = FALSE
        BY <2>1, <2>4
      <4> HIDE DEF good
      <4> QED
        BY ONLY <4>1 DEF w
    <3> HIDE DEF w
    <3> QED
      BY <2>2, <3>1, WithPartFields
  <2> QED
    BY <2>3, <2>4
<1> HIDE DEF f, o, w, good
<1>6. f.id # Chunks!NoMessage /\ w.assembly.id = f.id /\ w.closed = binding.closed
      /\ w.completed = binding.completed /\ w.assembly.parts \in Chunks!Parts
  BY <1>2, <1>4, <1>5 DEF Chunks!NoMessage, Bindings
<1>7. CASE binding.closed
  <2>1. CASE Chunks!IsWhole(w)
    <3>1. binding' \in Bindings /\ binding'.closed /\ binding'.assembly = Chunks!NotAssembling
      <4>1. Chunks!Taken(w) \in Bindings /\ Chunks!Taken(w).closed = w.closed /\ Chunks!Taken(w).assembly = Chunks!NotAssembling
        BY <1>0, <1>2, <1>5, <1>6, TakenFields
      <4> QED
        BY <1>1, <1>6, <1>7, <2>1, <4>1
    <3>2. /\ busy'.step = "decrypt"
          /\ busy' \in [step : {"idle", "decrypt", "deliver"}, id : Chunks!Messages \cup {Chunks!NoMessage},
                        ok : BOOLEAN, parts : Chunks!Parts]
      <4>1. busy' = [step |-> "decrypt", id |-> f.id, ok |-> w.assembly.ok, parts |-> w.assembly.parts]
        BY <1>1, <2>1
      <4>2. f.id \in Chunks!Messages \cup {Chunks!NoMessage} /\ w.assembly.ok \in BOOLEAN /\ w.assembly.parts \in Chunks!Parts
        BY <1>2, <1>5, <1>6
      <4> QED
        BY ONLY <4>1, <4>2
    <3>3. Chunks!TypeOK'
      <4>1. binding' \in [closed : BOOLEAN, armed : BOOLEAN,
                          assembly : [id : Chunks!Messages \cup {Chunks!NoMessage}, ok : BOOLEAN, parts : Chunks!Parts],
                          completed : Seq(Chunks!Messages)]
        BY <3>1 DEF Bindings
      <4> QED
        BY <1>0, <1>2, <1>3, <3>2, <4>1 DEF Chunks!TypeOK
    <3>4. Parted'
      BY <1>1, <1>3, <3>1, <3>2 DEF Parted
    <3> QED
      BY <1>3, <3>1, <3>3, <3>4, StaysClosed
  <2>2. CASE ~Chunks!IsWhole(w)
    <3>1. binding' = w /\ busy' = busy
      BY <1>1, <2>2
    <3>2. Chunks!TypeOK'
      <4>1. binding' \in [closed : BOOLEAN, armed : BOOLEAN,
                          assembly : [id : Chunks!Messages \cup {Chunks!NoMessage}, ok : BOOLEAN, parts : Chunks!Parts],
                          completed : Seq(Chunks!Messages)]
        BY <1>5, <3>1 DEF Bindings
      <4> QED
        BY <1>0, <1>2, <1>3, <3>1, <4>1 DEF Chunks!TypeOK
    <3>3. Parted'
      BY <1>1, <1>2, <1>3, <1>6, <3>1 DEF Parted
    <3> QED
      BY <1>3, <1>6, <1>7, <3>1, <3>2, <3>3, StaysClosed
  <2> QED
    BY <2>1, <2>2
<1>8. CASE ~binding.closed
  <2>0. Following
    BY <1>8 DEF ChunksInv
  <2>1. f.id = TakenUp + 1 /\ f.index = Len(binding.assembly.parts) + 1
    <3>1. f.kind # "retired"
      <4>1. 1 \in 1 .. Len(queue)
        BY <1>0, <1>2
      <4> QED
        BY <1>1, <1>2, <2>0, <4>1 DEF Following
    <3> QED
      BY <1>1, <1>8, <3>1, FitsNext DEF f
  <2>2. /\ NoHole(Tail(queue), TakenUp + 1) /\ HubFollows(Tail(queue), TakenUp + 1, hub)
        /\ \A i \in 1 .. Len(Tail(queue)) : Tail(queue)[i].kind # "retired"
        /\ \A k \in Nat : k = TakenUp \/ k + 1 = EndOf(f) =>
             InReach(Tail(queue), k) /\ HubInReach(Tail(queue), k, hub)
    BY <1>1, <1>2, <1>8, <2>1, LineGoesOn
  <2>3. \A i \in 1 .. Len(binding.assembly.parts) : binding.assembly.parts[i] = <<f.id, i>>
    <3>1. CASE binding.assembly.id = Chunks!NoMessage
      <4>1. binding.assembly.parts = <<>>
        BY <3>1 DEF ChunksInv, Parted, Chunks!NotAssembling
      <4> QED
        BY <4>1
    <3>2. CASE binding.assembly.id # Chunks!NoMessage
      BY <2>1, <2>0, <3>2 DEF Following
    <3> QED
      BY <3>1, <3>2
  <2>4. /\ Len(w.assembly.parts) = f.index
        /\ \A j \in 1 .. Len(w.assembly.parts) : w.assembly.parts[j] = <<f.id, j>>
    <3>1. f.index = Len(o.assembly.parts) + 1 /\ \A i \in 1 .. Len(o.assembly.parts) : o.assembly.parts[i] = <<f.id, i>>
      BY <1>4, <2>1, <2>3
    <3> QED
      BY <1>2, <1>4, <1>5, <3>1, NextPart
  <2>5. Chunks!DeliveredIsPrefix'
    BY <1>3 DEF ChunksInv, Chunks!DeliveredIsPrefix, Chunks!Whole
  <2>6. CASE Chunks!IsWhole(w)
    <3>1. /\ binding' \in Bindings /\ binding'.closed = FALSE /\ binding'.armed = FALSE
          /\ binding'.assembly = Chunks!NotAssembling /\ binding'.completed = Chunks!RememberedOf(w)
      <4>1. /\ Chunks!Taken(w) \in Bindings /\ Chunks!Taken(w).closed = w.closed /\ Chunks!Taken(w).armed = FALSE
            /\ Chunks!Taken(w).assembly = Chunks!NotAssembling /\ Chunks!Taken(w).completed = Chunks!RememberedOf(w)
        BY <1>0, <1>2, <1>5, <1>6, TakenFields
      <4>2. w.closed = FALSE
        BY <1>0, <1>6, <1>8 DEF Bindings
      <4> QED
        BY <1>1, <2>6, <4>1, <4>2
    <3>2. /\ busy'.step = "decrypt" /\ busy'.parts = w.assembly.parts
          /\ busy' \in [step : {"idle", "decrypt", "deliver"}, id : Chunks!Messages \cup {Chunks!NoMessage},
                        ok : BOOLEAN, parts : Chunks!Parts]
      <4>1. busy' = [step |-> "decrypt", id |-> f.id, ok |-> w.assembly.ok, parts |-> w.assembly.parts]
        BY <1>1, <2>6
      <4>2. f.id \in Chunks!Messages \cup {Chunks!NoMessage} /\ w.assembly.ok \in BOOLEAN /\ w.assembly.parts \in Chunks!Parts
        BY <1>2, <1>5, <1>6
      <4> QED
        BY ONLY <4>1, <4>2
    <3>3. Chunks!TypeOK'
      <4>1. binding' \in [closed : BOOLEAN, armed : BOOLEAN,
                          assembly : [id : Chunks!Messages \cup {Chunks!NoMessage}, ok : BOOLEAN, parts : Chunks!Parts],
                          completed : Seq(Chunks!Messages)]
        BY <3>1 DEF Bindings
      <4> QED
        BY <1>0, <1>2, <1>3, <3>2, <4>1 DEF Chunks!TypeOK
    <3>4. Parted'
      BY <1>1, <1>3, <3>1, <3>2 DEF Parted
    <3>5. TakenUp' = TakenUp + 1 /\ Reached' = TakenUp + 1
      <4>1. TakenUp = Len(delivered) /\ TakenUp' = Len(delivered) + 1
        BY <1>0, <1>1, <1>2, <1>3, <3>2 DEF TakenUp
      <4>2. binding'.assembly.id = Chunks!NoMessage
        BY <3>1 DEF Chunks!NotAssembling
      <4> QED
        BY <1>0, <4>1, <4>2 DEF Reached
    <3>6. f.index = Chunks!Count(f.id)
      BY <1>6, <2>4, <2>6 DEF Chunks!IsWhole
    <3>7. busy'.parts = Chunks!Whole(TakenUp + 1)
      BY <1>2, <1>6, <2>1, <2>4, <3>2, <3>6, WholeParts
    <3>8. (Chunks!Whole(TakenUp))' = Chunks!Whole(TakenUp + 1)
      BY <3>5 DEF Chunks!Whole
    <3>9. EndOf(f) = TakenUp + 2
      BY <1>0, <2>1, <3>6 DEF EndOf
    <3>10. InReach(Tail(queue), TakenUp + 1) /\ HubInReach(Tail(queue), TakenUp + 1, hub)
      BY <1>0, <2>2, <3>9
    <3>11. (NoHole(queue, Reached) /\ HubFollows(queue, Reached, hub) /\ InReach(queue, TakenUp) /\ HubInReach(queue, TakenUp, hub))'
      BY <1>3, <2>2, <3>5, <3>10 DEF NoHole, HubFollows, InReach, HubInReach, Carries
    <3>12. Remembers(Chunks!RememberedOf(w), TakenUp + 1)
      BY <1>0, <1>2, <1>5, <1>6, <2>0, <2>1, RemembersNext DEF Following
    <3>13. (Remembers(binding.completed, TakenUp))'
      BY <1>3, <3>1, <3>5, <3>12 DEF Remembers
    <3>14. binding'.assembly.id = Chunks!NoMessage /\ binding'.assembly.parts = <<>>
      BY <3>1 DEF Chunks!NotAssembling
    <3>15. Following'
      BY <1>1, <1>3, <2>2, <3>7, <3>8, <3>11, <3>13, <3>14 DEF Following
    <3>16. Chunks!DeadlineIsOfOpenMessage'
      BY <3>1 DEF Chunks!DeadlineIsOfOpenMessage
    <3> QED
      BY <2>5, <3>3, <3>4, <3>15, <3>16 DEF ChunksInv
  <2>7. CASE ~Chunks!IsWhole(w)
    <3>1. binding' = w /\ busy' = busy
      BY <1>1, <2>7
    <3>2. Chunks!TypeOK'
      <4>1. binding' \in [closed : BOOLEAN, armed : BOOLEAN,
                          assembly : [id : Chunks!Messages \cup {Chunks!NoMessage}, ok : BOOLEAN, parts : Chunks!Parts],
                          completed : Seq(Chunks!Messages)]
        BY <1>5, <3>1 DEF Bindings
      <4> QED
        BY <1>0, <1>2, <1>3, <3>1, <4>1 DEF Chunks!TypeOK
    <3>3. Parted'
      BY <1>1, <1>2, <1>3, <1>6, <3>1 DEF Parted
    <3>4. TakenUp' = TakenUp /\ Reached' = TakenUp + 1
      <4>1. TakenUp' = TakenUp
        BY <1>3, <3>1 DEF TakenUp
      <4> QED
        BY <1>0, <1>6, <3>1, <4>1 DEF Reached
    <3>5. InReach(Tail(queue), TakenUp) /\ HubInReach(Tail(queue), TakenUp, hub)
      BY <1>0, <2>2
    <3>6. (NoHole(queue, Reached) /\ HubFollows(queue, Reached, hub) /\ InReach(queue, TakenUp) /\ HubInReach(queue, TakenUp, hub))'
      BY <1>3, <2>2, <3>4, <3>5 DEF NoHole, HubFollows, InReach, HubInReach, Carries
    <3>7. (Remembers(binding.completed, TakenUp))'
      BY <1>3, <1>6, <2>0, <3>1, <3>4 DEF Following, Remembers
    <3>8. Following'
      BY <1>1, <1>2, <1>3, <1>6, <2>1, <2>2, <2>4, <3>1, <3>4, <3>6, <3>7 DEF Following
    <3>9. Chunks!DeadlineIsOfOpenMessage'
      <4>1. w.armed
        <5>1. CASE binding.assembly.id = f.id
          <6>1. binding.assembly # Chunks!NotAssembling
            BY <1>6, <5>1 DEF Chunks!NotAssembling
          <6> QED
            BY <1>4, <1>5, <1>8, <5>1, <6>1 DEF ChunksInv, Chunks!DeadlineIsOfOpenMessage
        <5>2. CASE binding.assembly.id # f.id
          BY <1>4, <1>5, <5>2
        <5> QED
          BY <5>1, <5>2
      <4>2. w.assembly # Chunks!NotAssembling
        BY <1>6 DEF Chunks!NotAssembling
      <4> QED
        BY <3>1, <4>1, <4>2 DEF Chunks!DeadlineIsOfOpenMessage
    <3> QED
      BY <2>5, <3>2, <3>3, <3>8, <3>9 DEF ChunksInv
  <2> QED
    BY <2>6, <2>7
<1> QED
  BY <1>7, <1>8

LEMMA DecryptedStep == ASSUME ChunksInv, Chunks!ChunkDecrypted PROVE ChunksInv'
<1> DEFINE i == Head(busy.parts)[2]
           w == Chunks!WithPart(binding, busy.id, i, TRUE)
<1>0. /\ Chunks!TypeOK /\ binding \in Bindings /\ TakenUp \in Nat /\ class \in Chunks!Classes
      /\ delivered \in Seq(Chunks!Parts) /\ Len(delivered) \in Nat
  BY Types DEF ChunksInv
<1>1. /\ class = "terminal" /\ busy.step = "decrypt" /\ UNCHANGED <<class, queue, hub>>
  BY DEF Chunks!ChunkDecrypted
<1>2. /\ i \in {1, 2} /\ busy.id \in Chunks!Messages /\ busy.id # Chunks!NoMessage
      /\ binding.assembly.id = busy.id /\ busy.parts = <<<<busy.id, i>>>>
  <2>1. /\ busy.id # Chunks!NoMessage /\ binding.assembly.id = busy.id
        /\ \E j \in {1, 2} : busy.parts = <<<<busy.id, j>>>>
    BY <1>1 DEF ChunksInv, Parted
  <2>2. PICK j \in {1, 2} : busy.parts = <<<<busy.id, j>>>>
    BY <2>1
  <2>3. i = j
    BY <2>2
  <2>4. busy.id \in Chunks!Messages
    BY <1>0, <2>1, Types
  <2> QED
    BY <2>1, <2>2, <2>3, <2>4
<1>3. \/ ~busy.ok /\ binding' = Chunks!Closed(binding) /\ busy' = Chunks!Idle /\ delivered' = delivered
      \/ busy.ok /\ ~Chunks!IsWhole(w) /\ binding' = w /\ busy' = Chunks!Idle /\ delivered' = delivered
      \/ /\ busy.ok /\ Chunks!IsWhole(w) /\ binding' = Chunks!Taken(w)
         /\ IF ~binding.closed
            THEN /\ delivered' = Append(delivered, w.assembly.parts)
                 /\ busy' = [Chunks!Idle EXCEPT !.step = "deliver"]
            ELSE busy' = Chunks!Idle /\ delivered' = delivered
  BY DEF Chunks!ChunkDecrypted, Chunks!Delivers
<1>4. /\ w \in Bindings /\ w.closed = binding.closed /\ w.completed = binding.completed
      /\ w.armed = binding.armed /\ w.assembly.id = busy.id
      /\ w.assembly.parts = Append(binding.assembly.parts, <<busy.id, i>>)
      /\ w.assembly.parts \in Chunks!Parts
  <2>1. /\ w \in Bindings /\ w.closed = binding.closed /\ w.completed = binding.completed
        /\ w.armed = binding.armed /\ w.assembly.id = binding.assembly.id
        /\ w.assembly.parts = Append(binding.assembly.parts, <<busy.id, i>>)
    BY <1>0, <1>2, WithPartFields
  <2> HIDE DEF w
  <2>2. w.assembly.parts \in Chunks!Parts
    BY <2>1 DEF Bindings
  <2> QED
    BY <1>2, <2>1, <2>2
<1> HIDE DEF i, w
<1>5. /\ Chunks!Taken(w) \in Bindings /\ Chunks!Taken(w).closed = w.closed /\ Chunks!Taken(w).armed = FALSE
      /\ Chunks!Taken(w).assembly = Chunks!NotAssembling /\ Chunks!Taken(w).completed = Chunks!RememberedOf(w)
  BY <1>0, <1>2, <1>4, TakenFields
<1>6. /\ binding' \in Bindings /\ binding'.closed \in {binding.closed, TRUE}
      /\ binding'.assembly.id = Chunks!NoMessage => binding'.assembly = Chunks!NotAssembling
  <2>1. CASE binding' = Chunks!Closed(binding)
    <3>1. Chunks!Closed(binding) \in Bindings /\ Chunks!Closed(binding).closed = TRUE /\ Chunks!Closed(binding).assembly = binding.assembly
      BY <1>0, ClosedFields
    <3> QED
      BY <1>2, <2>1, <3>1
  <2>2. CASE binding' = w
    BY <1>2, <1>4, <2>2
  <2>3. CASE binding' = Chunks!Taken(w)
    BY <1>4, <1>5, <2>3
  <2> QED
    BY <1>3, <2>1, <2>2, <2>3
<1>7. /\ busy'.step \in {"idle", "deliver"}
      /\ busy' \in [step : {"idle", "decrypt", "deliver"}, id : Chunks!Messages \cup {Chunks!NoMessage},
                    ok : BOOLEAN, parts : Chunks!Parts]
  <2>1. busy' = Chunks!Idle \/ busy' = [Chunks!Idle EXCEPT !.step = "deliver"]
    BY <1>3
  <2>2. CASE busy' = Chunks!Idle
    BY <2>2 DEF Chunks!Idle, Chunks!Parts
  <2>3. CASE busy' = [Chunks!Idle EXCEPT !.step = "deliver"]
    <3>1. busy' = [step |-> "deliver", id |-> Chunks!NoMessage, ok |-> TRUE, parts |-> <<>>]
      BY <2>3 DEF Chunks!Idle
    <3> QED
      BY <3>1 DEF Chunks!Parts
  <2> QED
    BY <2>1, <2>2, <2>3
<1>8. Chunks!TypeOK'
  <2>1. binding' \in [closed : BOOLEAN, armed : BOOLEAN,
                      assembly : [id : Chunks!Messages \cup {Chunks!NoMessage}, ok : BOOLEAN, parts : Chunks!Parts],
                      completed : Seq(Chunks!Messages)]
    BY <1>6 DEF Bindings
  <2>2. delivered' \in Seq(Chunks!Parts)
    <3>1. delivered' = delivered \/ delivered' = Append(delivered, w.assembly.parts)
      BY <1>3
    <3>2. \A p \in Chunks!Parts : Append(delivered, p) \in Seq(Chunks!Parts)
      BY <1>0
    <3> QED
      BY <1>0, <1>4, <3>1, <3>2
  <2> QED
    BY <1>0, <1>1, <1>7, <2>1, <2>2 DEF Chunks!TypeOK
<1>9. Parted'
  BY <1>1, <1>6, <1>7 DEF Parted
<1>10. CASE binding.closed \/ binding' = Chunks!Closed(binding)
  <2>1. binding'.closed
    <3>1. binding' = Chunks!Closed(binding) => binding'.closed
      BY <1>0, ClosedFields
    <3> QED
      BY <1>6, <1>10, <3>1
  <2>2. delivered' = delivered
    <3>1. Chunks!Closed(binding).assembly.id = busy.id /\ Chunks!Closed(binding).assembly.id # Chunks!NoMessage
      BY <1>0, <1>2, ClosedFields
    <3>2. Chunks!Taken(w) # Chunks!Closed(binding)
      BY <1>5, <3>1 DEF Chunks!NotAssembling
    <3> QED
      BY <1>3, <1>10, <3>2
  <2> QED
    BY <1>8, <1>9, <2>1, <2>2, StaysClosed
<1>11. CASE ~binding.closed /\ binding' # Chunks!Closed(binding)
  <2>0. Following
    BY <1>11 DEF ChunksInv
  <2>1. /\ busy.id = TakenUp + 1 /\ i = Len(binding.assembly.parts) + 1 /\ TakenUp = Len(delivered)
        /\ Reached = TakenUp + 1
        /\ \A j \in 1 .. Len(binding.assembly.parts) : binding.assembly.parts[j] = <<busy.id, j>>
    <3>1. busy.parts = <<<<busy.id, Len(binding.assembly.parts) + 1>>>>
      BY <1>1, <2>0 DEF Following
    <3>2. i = Len(binding.assembly.parts) + 1
      BY <3>1 DEF i
    <3>3. busy.id = TakenUp + 1
      BY <1>2, <2>0 DEF Following
    <3>4. TakenUp = Len(delivered)
      BY <1>0, <1>1 DEF TakenUp
    <3>5. Reached = TakenUp + 1
      BY <1>0, <1>2 DEF Reached
    <3> QED
      BY <1>2, <2>0, <3>2, <3>3, <3>4, <3>5 DEF Following
  <2>2. /\ Len(w.assembly.parts) = i
        /\ \A j \in 1 .. Len(w.assembly.parts) : w.assembly.parts[j] = <<busy.id, j>>
    <3> DEFINE p == w.assembly.parts
    <3>1. /\ binding \in Bindings /\ busy.id \in Chunks!Messages /\ i \in {1, 2}
          /\ i = Len(binding.assembly.parts) + 1
          /\ \A j \in 1 .. Len(binding.assembly.parts) : binding.assembly.parts[j] = <<busy.id, j>>
      BY <1>0, <1>2, <2>1
    <3>2. p = Append(binding.assembly.parts, <<busy.id, i>>)
      BY <1>4
    <3> HIDE DEF p, i
    <3>3. Len(p) = i /\ \A j \in 1 .. Len(p) : p[j] = <<busy.id, j>>
      BY ONLY <3>1, <3>2, NextPart
    <3> QED
      BY <3>3 DEF p
  <2>3. CASE busy.ok /\ ~Chunks!IsWhole(w) /\ binding' = w /\ busy' = Chunks!Idle /\ delivered' = delivered
    <3>1. TakenUp' = TakenUp /\ Reached' = Reached
      <4>1. TakenUp' = TakenUp
        BY <1>0, <1>1, <2>1, <2>3 DEF TakenUp, Chunks!Idle
      <4> QED
        BY <1>2, <1>4, <2>1, <2>3, <4>1 DEF Reached
    <3>2. (NoHole(queue, Reached) /\ HubFollows(queue, Reached, hub))'
      BY <1>1, <2>0, <3>1 DEF Following, NoHole, HubFollows, Carries
    <3>3. (Remembers(binding.completed, TakenUp))'
      BY <1>1, <1>4, <2>0, <2>3, <3>1 DEF Following, Remembers
    <3>4. Following'
      BY <1>1, <1>4, <2>1, <2>2, <2>3, <3>1, <3>2, <3>3 DEF Following, Chunks!Idle
    <3>5. Chunks!DeliveredIsPrefix'
      BY <2>3 DEF ChunksInv, Chunks!DeliveredIsPrefix, Chunks!Whole
    <3>6. Chunks!DeadlineIsOfOpenMessage'
      <4>1. binding.assembly # Chunks!NotAssembling /\ w.assembly # Chunks!NotAssembling
        BY <1>2, <1>4 DEF Chunks!NotAssembling
      <4> QED
        BY <1>4, <1>11, <2>3, <4>1 DEF ChunksInv, Chunks!DeadlineIsOfOpenMessage
    <3> QED
      BY <1>8, <1>9, <3>4, <3>5, <3>6 DEF ChunksInv
  <2>4. CASE /\ busy.ok /\ Chunks!IsWhole(w) /\ binding' = Chunks!Taken(w)
             /\ delivered' = Append(delivered, w.assembly.parts)
             /\ busy' = [Chunks!Idle EXCEPT !.step = "deliver"]
    <3>1. TakenUp' = TakenUp + 1 /\ Reached' = Reached
      <4>1. TakenUp' = TakenUp + 1
        BY <1>0, <1>1, <1>4, <2>1, <2>4 DEF TakenUp
      <4>2. binding'.assembly.id = Chunks!NoMessage
        BY <1>5, <2>4 DEF Chunks!NotAssembling
      <4> QED
        BY <1>0, <2>1, <4>1, <4>2 DEF Reached
    <3>2. (NoHole(queue, Reached) /\ HubFollows(queue, Reached, hub))'
      BY <1>1, <2>0, <3>1 DEF Following, NoHole, HubFollows, Carries
    <3>3. Remembers(Chunks!RememberedOf(w), TakenUp + 1)
      BY <1>0, <1>2, <1>4, <2>0, <2>1, RemembersNext DEF Following
    <3>4. (Remembers(binding.completed, TakenUp))'
      BY <1>1, <1>5, <2>4, <3>1, <3>3 DEF Remembers
    <3>5. binding'.assembly.id = Chunks!NoMessage /\ binding'.assembly.parts = <<>> /\ busy'.step = "deliver"
      BY <1>5, <2>4 DEF Chunks!NotAssembling, Chunks!Idle
    <3>6. Following'
      BY <1>1, <3>2, <3>4, <3>5 DEF Following
    <3>7. w.assembly.parts = Chunks!Whole(TakenUp + 1)
      BY <1>2, <1>4, <2>1, <2>2, <2>4, WholeParts DEF Chunks!IsWhole
    <3>8. Chunks!DeliveredIsPrefix'
      <4>1. \A j \in 1 .. Len(delivered) : delivered[j] = Chunks!Whole(j)
        BY <1>0 DEF ChunksInv, Chunks!DeliveredIsPrefix
      <4>2. /\ Len(delivered') = Len(delivered) + 1 /\ DOMAIN delivered' = 1 .. Len(delivered) + 1
            /\ delivered'[Len(delivered) + 1] = w.assembly.parts
            /\ \A j \in 1 .. Len(delivered) : delivered'[j] = delivered[j]
        BY <1>0, <1>4, <2>4
      <4>3. \A j \in 1 .. Len(delivered) + 1 : delivered'[j] = Chunks!Whole(j)
        BY <1>0, <2>1, <3>7, <4>1, <4>2
      <4> QED
        BY <4>2, <4>3 DEF Chunks!DeliveredIsPrefix, Chunks!Whole
    <3>9. Chunks!DeadlineIsOfOpenMessage'
      BY <1>5, <2>4 DEF Chunks!DeadlineIsOfOpenMessage
    <3> QED
      BY <1>8, <1>9, <3>6, <3>8, <3>9 DEF ChunksInv
  <2> QED
    BY <1>3, <1>11, <2>3, <2>4
<1> QED
  BY <1>10, <1>11

LEMMA ListenerStep == ASSUME ChunksInv, Chunks!ListenerDone PROVE ChunksInv'
<1>1. /\ busy.step = "deliver" /\ busy' = Chunks!Idle /\ UNCHANGED <<class, queue, hub, delivered>>
      /\ binding' = binding \/ binding' = Chunks!Closed(binding)
  BY DEF Chunks!ListenerDone
<1>0. Chunks!TypeOK /\ binding \in Bindings
  BY Types DEF ChunksInv
<1>2. /\ busy'.step = "idle"
      /\ busy' \in [step : {"idle", "decrypt", "deliver"}, id : Chunks!Messages \cup {Chunks!NoMessage},
                    ok : BOOLEAN, parts : Chunks!Parts]
  BY <1>1 DEF Chunks!Idle, Chunks!Parts
<1>3. /\ binding' \in Bindings /\ binding'.assembly = binding.assembly
      /\ binding' = binding \/ binding'.closed
  BY <1>0, <1>1, ClosedFields
<1>4. Chunks!TypeOK'
  <2>1. binding' \in [closed : BOOLEAN, armed : BOOLEAN,
                      assembly : [id : Chunks!Messages \cup {Chunks!NoMessage}, ok : BOOLEAN, parts : Chunks!Parts],
                      completed : Seq(Chunks!Messages)]
    BY <1>3 DEF Bindings
  <2> QED
    BY <1>0, <1>1, <1>2, <2>1 DEF Chunks!TypeOK
<1>5. Parted'
  BY <1>1, <1>2, <1>3 DEF ChunksInv, Parted
<1>6. CASE binding'.closed
  BY <1>1, <1>4, <1>5, <1>6, StaysClosed
<1>7. CASE binding' = binding
  <2>1. TakenUp' = TakenUp /\ Reached' = Reached
    BY <1>1, <1>2, <1>7 DEF TakenUp, Reached
  <2>2. ASSUME ~binding.closed
        PROVE  Following'
    <3>1. Following
      BY <2>2 DEF ChunksInv
    <3>2. (NoHole(queue, Reached) /\ HubFollows(queue, Reached, hub))'
      BY <1>1, <2>1, <3>1 DEF Following, NoHole, HubFollows, Carries
    <3>3. (class = "subscription" => InReach(queue, TakenUp) /\ HubInReach(queue, TakenUp, hub))'
      BY <1>1, <2>1, <3>1 DEF Following, InReach, HubInReach
    <3>4. (Remembers(binding.completed, TakenUp))'
      BY <1>1, <1>7, <2>1, <3>1 DEF Following, Remembers
    <3> QED
      BY <1>1, <1>2, <1>7, <2>1, <3>1, <3>2, <3>3, <3>4 DEF Following
  <2> QED
    BY <1>1, <1>4, <1>5, <1>7, <2>2 DEF ChunksInv, Chunks!DeliveredIsPrefix, Chunks!DeadlineIsOfOpenMessage, Chunks!Whole
<1> QED
  BY <1>3, <1>6, <1>7

LEMMA MessageStep == ASSUME ChunksInv, Chunks!MessageDecrypted PROVE ChunksInv'
<1>1. /\ class = "subscription" /\ busy.step = "decrypt" /\ busy' = Chunks!Idle /\ UNCHANGED <<class, queue, hub>>
      /\ \/ binding' = Chunks!Closed(binding) /\ delivered' = delivered
         \/ /\ binding' = binding
            /\ delivered' = IF ~binding.closed THEN Append(delivered, busy.parts) ELSE delivered
  BY DEF Chunks!MessageDecrypted, Chunks!Delivers
<1>0. Chunks!TypeOK /\ binding \in Bindings /\ delivered \in Seq(Chunks!Parts) /\ busy.parts \in Chunks!Parts /\ Len(delivered) \in Nat
  BY Types DEF ChunksInv
<1>2. /\ busy'.step = "idle"
      /\ busy' \in [step : {"idle", "decrypt", "deliver"}, id : Chunks!Messages \cup {Chunks!NoMessage},
                    ok : BOOLEAN, parts : Chunks!Parts]
  BY <1>1 DEF Chunks!Idle, Chunks!Parts
<1>3. /\ binding' \in Bindings /\ binding'.assembly = binding.assembly
      /\ binding' = binding \/ (binding'.closed /\ delivered' = delivered)
      /\ binding' = Chunks!Closed(binding) => binding'.closed
  BY <1>0, <1>1, ClosedFields
<1>4. Chunks!TypeOK'
  <2>1. binding' \in [closed : BOOLEAN, armed : BOOLEAN,
                      assembly : [id : Chunks!Messages \cup {Chunks!NoMessage}, ok : BOOLEAN, parts : Chunks!Parts],
                      completed : Seq(Chunks!Messages)]
    BY <1>3 DEF Bindings
  <2>2. delivered' \in Seq(Chunks!Parts)
    BY <1>0, <1>1
  <2> QED
    BY <1>0, <1>1, <1>2, <2>1, <2>2 DEF Chunks!TypeOK
<1>5. Parted'
  BY <1>1, <1>2, <1>3 DEF ChunksInv, Parted
<1>6. CASE binding'.closed
  <2>1. delivered' = delivered
    BY <1>1, <1>3, <1>6
  <2> QED
    BY <1>4, <1>5, <1>6, <2>1, StaysClosed
<1>7. CASE ~binding'.closed
  <2>1. binding' = binding /\ ~binding.closed /\ delivered' = Append(delivered, busy.parts)
    BY <1>1, <1>3, <1>7
  <2>2. Following
    BY <2>1 DEF ChunksInv
  <2>3. TakenUp = Len(delivered) + 1 /\ TakenUp' = TakenUp
    BY <1>0, <1>1, <1>2, <2>1 DEF TakenUp
  <2>4. Reached' = Reached
    BY <2>1, <2>3 DEF Reached
  <2>5. busy.parts = Chunks!Whole(Len(delivered) + 1)
    BY <1>1, <2>2, <2>3 DEF Following
  <2>6. (NoHole(queue, Reached) /\ HubFollows(queue, Reached, hub) /\ InReach(queue, TakenUp) /\ HubInReach(queue, TakenUp, hub))'
    BY <1>1, <2>2, <2>3, <2>4 DEF Following, NoHole, HubFollows, InReach, HubInReach, Carries
  <2>7. (Remembers(binding.completed, TakenUp))'
    BY <1>1, <2>1, <2>2, <2>3 DEF Following, Remembers
  <2>8. Following'
    BY <1>1, <1>2, <2>1, <2>2, <2>3, <2>4, <2>6, <2>7 DEF Following
  <2>9. Chunks!DeliveredIsPrefix'
    <3>1. \A j \in 1 .. Len(delivered) : delivered[j] = Chunks!Whole(j)
      BY <1>0 DEF ChunksInv, Chunks!DeliveredIsPrefix
    <3>2. /\ DOMAIN delivered' = 1 .. Len(delivered) + 1
          /\ delivered'[Len(delivered) + 1] = busy.parts
          /\ \A j \in 1 .. Len(delivered) : delivered'[j] = delivered[j]
      BY <1>0, <2>1
    <3>3. \A j \in 1 .. Len(delivered) + 1 : delivered'[j] = Chunks!Whole(j)
      BY <1>0, <2>5, <3>1, <3>2
    <3> QED
      BY <3>2, <3>3 DEF Chunks!DeliveredIsPrefix, Chunks!Whole
  <2> QED
    BY <1>4, <1>5, <2>1, <2>8, <2>9 DEF ChunksInv, Chunks!DeadlineIsOfOpenMessage
<1> QED
  BY <1>6, <1>7

LEMMA ChunksNext == ASSUME ChunksInv, [Chunks!Next]_(Chunks!vars) PROVE ChunksInv'
<1>t. /\ hub \in [id : 1 .. MaxMessages + 1, index : {1, 2}, faults : 0 .. MaxFaults]
      /\ MaxMessages \in Nat /\ MaxFaults \in Nat
      /\ hub.id \in 1 .. MaxMessages + 1 /\ hub.index \in {1, 2} /\ hub.faults \in 0 .. MaxFaults
  BY Types DEF ChunksInv
<1>a. ASSUME hub.id \in Chunks!Messages
      PROVE  /\ Chunks!After(hub) \in [id : 1 .. MaxMessages + 1, index : {1, 2}, faults : 0 .. MaxFaults]
             /\ Chunks!After(hub).faults = hub.faults
  <2>1. hub.id + 1 \in 1 .. MaxMessages + 1
    BY <1>a, <1>t DEF Chunks!Messages
  <2> DEFINE next == hub.id + 1
  <2>2. Chunks!After(hub) = IF hub.index < Chunks!Count(hub.id) THEN [hub EXCEPT !.index = 2]
                     ELSE [hub EXCEPT !.id = next, !.index = 1]
    BY DEF Chunks!After
  <2>3. next \in 1 .. MaxMessages + 1
    BY <2>1
  <2> HIDE DEF next
  <2>4. CASE Chunks!After(hub) = [hub EXCEPT !.index = 2]
    BY <1>t, <2>4
  <2>5. CASE Chunks!After(hub) = [hub EXCEPT !.id = next, !.index = 1]
    BY <1>t, <2>3, <2>5
  <2> QED
    BY <2>2, <2>4, <2>5
<1>1. CASE Chunks!Send
  <2>1. /\ hub.id \in Chunks!Messages /\ hub' = Chunks!After(hub)
        /\ Chunks!Arrives([id |-> hub.id, index |-> hub.index, kind |-> "good"])
    BY <1>1 DEF Chunks!Send
  <2>2. hub'.faults = hub.faults + 0 /\ hub.faults + 0 <= MaxFaults
    BY <1>a, <1>t, <2>1
  <2> QED
    BY <1>a, <2>1, <2>2, Arrival
<1>2. ASSUME NEW kind \in {"corrupt", "refused"}, Chunks!SendBad(kind)
      PROVE  ChunksInv'
  <2>1. /\ hub.id \in Chunks!Messages /\ hub' = [Chunks!After(hub) EXCEPT !.faults = @ + 1] /\ hub.faults < MaxFaults
        /\ Chunks!Arrives([id |-> hub.id, index |-> hub.index, kind |-> kind])
    BY <1>2 DEF Chunks!SendBad
  <2>2. /\ hub'.id = Chunks!After(hub).id /\ hub'.index = Chunks!After(hub).index /\ hub'.faults = hub.faults + 1
        /\ hub' \in [id : 1 .. MaxMessages + 1, index : {1, 2}, faults : 0 .. MaxFaults]
    BY <1>a, <1>t, <2>1
  <2>3. hub.faults + 1 <= MaxFaults
    BY <1>t, <2>1
  <2> QED
    BY <2>1, <2>2, <2>3, Arrival
<1>3. CASE Chunks!Repeat
  <2>1. /\ hub' = [hub EXCEPT !.id = @ - 1, !.index = 1, !.faults = @ + 1] /\ hub.id \in Chunks!Messages \ {1}
        /\ hub.faults < MaxFaults /\ UNCHANGED <<class, binding, queue, busy, delivered>>
    BY <1>3 DEF Chunks!Repeat
  <2>2. /\ hub' \in [id : 1 .. MaxMessages + 1, index : {1, 2}, faults : 0 .. MaxFaults]
        /\ hub'.index = 1 /\ hub'.faults = hub.faults + 1 /\ hub'.id = hub.id - 1
    <3> DEFINE at == hub.id - 1
               misuses == hub.faults + 1
    <3>1. hub' = [hub EXCEPT !.id = at, !.index = 1, !.faults = misuses]
      BY <2>1
    <3>2. at \in 1 .. MaxMessages + 1 /\ misuses \in 0 .. MaxFaults
      BY <1>t, <2>1 DEF Chunks!Messages
    <3> HIDE DEF at, misuses
    <3>3. /\ hub' \in [id : 1 .. MaxMessages + 1, index : {1, 2}, faults : 0 .. MaxFaults]
          /\ hub'.index = 1 /\ hub'.faults = misuses /\ hub'.id = at
      BY <1>t, <3>1, <3>2
    <3> QED
      BY <3>3 DEF at, misuses
  <2> QED
    BY <2>1, <2>2, HubMoves
<1>4. CASE Chunks!Abandon
  <2>1. /\ hub' = [hub EXCEPT !.id = @ + 1, !.index = 1, !.faults = @ + 1] /\ hub.id \in Chunks!Messages
        /\ hub.index = 2 /\ hub.faults < MaxFaults /\ UNCHANGED <<class, binding, queue, busy, delivered>>
    BY <1>4 DEF Chunks!Abandon
  <2>2. /\ hub' \in [id : 1 .. MaxMessages + 1, index : {1, 2}, faults : 0 .. MaxFaults]
        /\ hub'.index = 1 /\ hub'.faults = hub.faults + 1 /\ hub'.id = hub.id + 1
    <3> DEFINE at == hub.id + 1
               misuses == hub.faults + 1
    <3>1. hub' = [hub EXCEPT !.id = at, !.index = 1, !.faults = misuses]
      BY <2>1
    <3>2. at \in 1 .. MaxMessages + 1 /\ misuses \in 0 .. MaxFaults
      BY <1>t, <2>1 DEF Chunks!Messages
    <3> HIDE DEF at, misuses
    <3>3. /\ hub' \in [id : 1 .. MaxMessages + 1, index : {1, 2}, faults : 0 .. MaxFaults]
          /\ hub'.index = 1 /\ hub'.faults = misuses /\ hub'.id = at
      BY <1>t, <3>1, <3>2
    <3> QED
      BY <3>3 DEF at, misuses
  <2> QED
    BY <2>1, <2>2, HubMoves
<1>5. CASE Chunks!Close \/ Chunks!Timeout
  BY <1>5, Closes DEF Chunks!Close, Chunks!Timeout
<1>6. CASE UNCHANGED Chunks!vars
  <2>1. Chunks!TypeOK' /\ Parted' /\ Chunks!DeliveredIsPrefix' /\ Chunks!DeadlineIsOfOpenMessage'
    BY <1>6 DEF ChunksInv, Chunks!vars, Chunks!TypeOK, Parted, Chunks!DeliveredIsPrefix,
       Chunks!DeadlineIsOfOpenMessage, Chunks!Whole
  <2>2. ~binding.closed => Following'
    BY <1>6 DEF ChunksInv, Chunks!vars, Following, TakenUp, Reached, NoHole, HubFollows, InReach, HubInReach, Carries,
                Remembers, Chunks!Whole, EndOf
  <2> QED
    BY <1>6, <2>1, <2>2 DEF ChunksInv, Chunks!vars
<1> QED
  BY <1>1, <1>2, <1>3, <1>4, <1>5, <1>6, RetiredArrives, DiscardStep, ChunksRefuseStep, TerminalStep,
     SubscriptionStep, DecryptedStep, ListenerStep, MessageStep DEF Chunks!Next

\* One channel: what is assembled, in line and still to come is one run of messages, as
\* long as the channel is open; and a closed one tells nothing.
THEOREM ChunksInductive == Chunks!Spec => []ChunksInv
<1>1. Chunks!Init => ChunksInv
  BY ChunksInit
<1>2. ChunksInv /\ [Chunks!Next]_(Chunks!vars) => ChunksInv'
  BY ChunksNext
<1> QED
  BY <1>1, <1>2, PTL DEF Chunks!Spec

-----------------------------------------------------------------------------
(* The peer.  PeerLifecycle_proofs is about a module with a state of its   *)
(* own; the lemma takes what it proves to the transport's instance, one    *)
(* operator after another.                                                 *)

LEMMA SamePeer ==
  /\ Peer!Init <=> PeerProofs!Init
  /\ Peer!Next <=> PeerProofs!Next
  /\ Peer!TypeOK <=> PeerProofs!TypeOK
  /\ Peer!AttemptOwnsClient <=> PeerProofs!AttemptOwnsClient
  /\ Peer!PublishedIsCurrent <=> PeerProofs!PublishedIsCurrent
  /\ Peer!DemandIsServed <=> PeerProofs!DemandIsServed
  /\ Peer!QuietAfterDisconnect <=> PeerProofs!QuietAfterDisconnect
<1>1. Peer!Init <=> PeerProofs!Init
  BY DEF Peer!Init, PeerProofs!Init, Peer!Gens, PeerProofs!Gens, Peer!None, PeerProofs!None
<1>2. \A t, g : Peer!Owns(t, g) <=> PeerProofs!Owns(t, g)
  BY DEF Peer!Owns, PeerProofs!Owns
<1>3. \A t : Peer!ResetPeer(t) = PeerProofs!ResetPeer(t)
  BY DEF Peer!ResetPeer, PeerProofs!ResetPeer, Peer!Gens, PeerProofs!Gens, Peer!None, PeerProofs!None
<1>4. \A t, g : Peer!CloseResources(t, g) = PeerProofs!CloseResources(t, g)
  BY DEF Peer!CloseResources, PeerProofs!CloseResources, Peer!None, PeerProofs!None
<1>5. \A t, g : Peer!Settled(t, g) = PeerProofs!Settled(t, g)
  BY DEF Peer!Settled, PeerProofs!Settled
<1>6. \A t : Peer!Disconnected(t) = PeerProofs!Disconnected(t)
  BY <1>3, <1>4, <1>5 DEF Peer!Disconnected, PeerProofs!Disconnected, Peer!None, PeerProofs!None
<1>7. \A t : Peer!StartAttempt(t) = PeerProofs!StartAttempt(t)
  BY <1>3, <1>6 DEF Peer!StartAttempt, PeerProofs!StartAttempt
<1>8. \A t : Peer!Usable(t) <=> PeerProofs!Usable(t)
  BY DEF Peer!Usable, PeerProofs!Usable, Peer!None, PeerProofs!None
<1>9. \A t : Peer!Connect(t) = PeerProofs!Connect(t)
  BY <1>7, <1>8 DEF Peer!Connect, PeerProofs!Connect, Peer!None, PeerProofs!None
<1>10. \A t : Peer!Callback(t) = PeerProofs!Callback(t)
  BY <1>6, <1>9 DEF Peer!Callback, PeerProofs!Callback
<1>11. \A t : Peer!ScheduleRetry(t) = PeerProofs!ScheduleRetry(t)
  BY <1>10 DEF Peer!ScheduleRetry, PeerProofs!ScheduleRetry
<1>12. \A t, demand : Peer!AfterFailure(t, demand) = PeerProofs!AfterFailure(t, demand)
  BY <1>11 DEF Peer!AfterFailure, PeerProofs!AfterFailure
<1>13. \A t, g, demand : Peer!FailAttempt(t, g, demand) = PeerProofs!FailAttempt(t, g, demand)
  BY <1>2, <1>3, <1>4, <1>5, <1>12 DEF Peer!FailAttempt, PeerProofs!FailAttempt, Peer!None,
     PeerProofs!None
<1>14. \A t : Peer!HasReconnectDemand(t) <=> PeerProofs!HasReconnectDemand(t)
  BY DEF Peer!HasReconnectDemand, PeerProofs!HasReconnectDemand
<1>15. \A t : Peer!OwnDemand(t) <=> PeerProofs!OwnDemand(t)
  BY <1>14 DEF Peer!OwnDemand, PeerProofs!OwnDemand
<1>16. \A g : Peer!OpenFails(g) <=> PeerProofs!OpenFails(g)
  BY <1>2, <1>13, <1>15 DEF Peer!OpenFails, PeerProofs!OpenFails
<1>17. \A g : Peer!AttemptTimesOut(g) <=> PeerProofs!AttemptTimesOut(g)
  BY <1>13, <1>15 DEF Peer!AttemptTimesOut, PeerProofs!AttemptTimesOut
<1>18. \A g : Peer!ChannelStartsClosing(g) <=> PeerProofs!ChannelStartsClosing(g)
  BY DEF Peer!ChannelStartsClosing, PeerProofs!ChannelStartsClosing
<1>19. \A t, g : Peer!IsCurrentPeer(t, g) <=> PeerProofs!IsCurrentPeer(t, g)
  BY DEF Peer!IsCurrentPeer, PeerProofs!IsCurrentPeer
<1>20. \A t : Peer!CaptureDemand(t) = PeerProofs!CaptureDemand(t)
  BY <1>14 DEF Peer!CaptureDemand, PeerProofs!CaptureDemand
<1>21. \A t, shouldReconnect : Peer!Recover(t, shouldReconnect) = PeerProofs!Recover(t, shouldReconnect)
  BY DEF Peer!Recover, PeerProofs!Recover
<1>22. \A t, shouldReconnect, g : Peer!HandleTransportClosed(t, shouldReconnect, g) = PeerProofs!HandleTransportClosed(t, shouldReconnect, g)
  BY <1>3, <1>13, <1>21 DEF Peer!HandleTransportClosed, PeerProofs!HandleTransportClosed, Peer!None,
     PeerProofs!None
<1>23. \A t, g : Peer!Lose(t, g) = PeerProofs!Lose(t, g)
  BY <1>10, <1>15, <1>20, <1>22 DEF Peer!Lose, PeerProofs!Lose
<1>24. \A g : Peer!ChannelCloses(g) <=> PeerProofs!ChannelCloses(g)
  BY <1>19, <1>23 DEF Peer!ChannelCloses, PeerProofs!ChannelCloses
<1>25. \A g : Peer!FailPeerGeneration(g) <=> PeerProofs!FailPeerGeneration(g)
  BY <1>23 DEF Peer!FailPeerGeneration, PeerProofs!FailPeerGeneration
<1>26. Peer!RetryTimerFires <=> PeerProofs!RetryTimerFires
  BY <1>9 DEF Peer!RetryTimerFires, PeerProofs!RetryTimerFires
<1>27. Peer!RecoverConnection <=> PeerProofs!RecoverConnection
  BY <1>9 DEF Peer!RecoverConnection, PeerProofs!RecoverConnection
<1>28. Peer!Request <=> PeerProofs!Request
  BY <1>9 DEF Peer!Request, PeerProofs!Request
<1>29. \A h : Peer!Subscribe(h) <=> PeerProofs!Subscribe(h)
  BY <1>8, <1>9 DEF Peer!Subscribe, PeerProofs!Subscribe, Peer!None, PeerProofs!None
<1>30. \A h : Peer!Unsubscribe(h) <=> PeerProofs!Unsubscribe(h)
  BY DEF Peer!Unsubscribe, PeerProofs!Unsubscribe
<1>31. Peer!Disconnect <=> PeerProofs!Disconnect
  BY <1>6 DEF Peer!Disconnect, PeerProofs!Disconnect
<1>32. \A t, g : Peer!OwnsAfterAwait(t, g) <=> PeerProofs!OwnsAfterAwait(t, g)
  BY <1>2 DEF Peer!OwnsAfterAwait, PeerProofs!OwnsAfterAwait
<1>33. \A g : Peer!Publish(g) <=> PeerProofs!Publish(g)
  BY <1>13, <1>15, <1>32 DEF Peer!Publish, PeerProofs!Publish
<1>34. \A g : Peer!ChannelOpens(g) <=> PeerProofs!ChannelOpens(g)
  BY <1>10 DEF Peer!ChannelOpens, PeerProofs!ChannelOpens
<1>35. \A g : Peer!SendHello(g) <=> PeerProofs!SendHello(g)
  BY <1>2 DEF Peer!SendHello, PeerProofs!SendHello
<1>36. \A t, g : Peer!Complete(t, g) = PeerProofs!Complete(t, g)
  BY <1>5 DEF Peer!Complete, PeerProofs!Complete, Peer!None, PeerProofs!None
<1>37. \A g : Peer!HelloAcked(g) <=> PeerProofs!HelloAcked(g)
  BY <1>2, <1>10, <1>13, <1>15, <1>36 DEF Peer!HelloAcked, PeerProofs!HelloAcked
<1>38. \A g : Peer!OpenAdvances(g) <=> PeerProofs!OpenAdvances(g)
  BY <1>33, <1>34, <1>35, <1>37 DEF Peer!OpenAdvances, PeerProofs!OpenAdvances
<1>39. Peer!Next <=> PeerProofs!Next
  BY <1>16, <1>17, <1>18, <1>24, <1>25, <1>26, <1>27, <1>28, <1>29, <1>30, <1>31, <1>38 DEF Peer!Next,
     PeerProofs!Next, Peer!Gens, PeerProofs!Gens, Peer!None, PeerProofs!None, Peer!Holders,
     PeerProofs!Holders
<1>40. Peer!Transports = PeerProofs!Transports
  BY DEF Peer!Transports, PeerProofs!Transports, Peer!Gens, PeerProofs!Gens, Peer!Holders,
     PeerProofs!Holders
<1>41. Peer!TypeOK <=> PeerProofs!TypeOK
  BY <1>40 DEF Peer!TypeOK, PeerProofs!TypeOK
<1>42. Peer!Running = PeerProofs!Running
  BY DEF Peer!Running, PeerProofs!Running
<1>43. Peer!AttemptOwnsClient <=> PeerProofs!AttemptOwnsClient
  BY <1>2, <1>42 DEF Peer!AttemptOwnsClient, PeerProofs!AttemptOwnsClient
<1>44. Peer!PublishedIsCurrent <=> PeerProofs!PublishedIsCurrent
  BY DEF Peer!PublishedIsCurrent, PeerProofs!PublishedIsCurrent, Peer!None, PeerProofs!None
<1>45. Peer!Served <=> PeerProofs!Served
  BY <1>42 DEF Peer!Served, PeerProofs!Served, Peer!None, PeerProofs!None
<1>46. Peer!DemandIsServed <=> PeerProofs!DemandIsServed
  BY <1>45 DEF Peer!DemandIsServed, PeerProofs!DemandIsServed
<1>47. Peer!QuietAfterDisconnect <=> PeerProofs!QuietAfterDisconnect
  BY <1>42 DEF Peer!QuietAfterDisconnect, PeerProofs!QuietAfterDisconnect, Peer!None, PeerProofs!None
<1> QED
  BY <1>1, <1>39, <1>41, <1>43, <1>44, <1>46, <1>47

LEMMA PeerRuns == Peer!Spec => PeerProofs!Spec
<1>1. Peer!vars = PeerProofs!vars
  BY DEF Peer!vars, PeerProofs!vars
<1>2. Peer!Init => PeerProofs!Init
  BY SamePeer
<1>3. [Peer!Next]_(Peer!vars) => [PeerProofs!Next]_(PeerProofs!vars)
  BY SamePeer DEF Peer!vars, PeerProofs!vars
<1> QED
  BY <1>2, <1>3, PTL DEF Peer!Spec, PeerProofs!Spec

-----------------------------------------------------------------------------
(* The transport.                                                          *)

\* A step of the transport is a step of one part, and the others stand still.
LEMMA PartsStep ==
  ASSUME [TransportNext]_transportVars
  PROVE  /\ [Next]_vars /\ [Peer!Next]_(Peer!vars) /\ [Events!Next]_(Events!vars)
         /\ [Control!Next]_(Control!vars) /\ [Chunks!Next]_(Chunks!vars)
<1>1. UNCHANGED peer => UNCHANGED Peer!vars
  BY DEF Peer!vars
<1>2. UNCHANGED eventVars => UNCHANGED Events!vars
  BY DEF eventVars, Events!vars
<1>3. UNCHANGED controlVars => UNCHANGED Control!vars
  BY DEF controlVars, Control!vars
<1>4. UNCHANGED chunkVars => UNCHANGED Chunks!vars
  BY DEF chunkVars, Chunks!vars
<1>5. CASE EntityOnly /\ Next
  BY <1>1, <1>2, <1>3, <1>4, <1>5 DEF EntityOnly
<1>6. CASE PeerOnly /\ Peer!Next
  BY <1>2, <1>3, <1>4, <1>6 DEF PeerOnly
<1>7. CASE EventsOnly /\ Events!Next
  BY <1>1, <1>3, <1>4, <1>7 DEF EventsOnly
<1>8. CASE ControlOnly /\ Control!Next
  BY <1>1, <1>2, <1>4, <1>8 DEF ControlOnly
<1>9. CASE ChunksOnly /\ Chunks!Next
  BY <1>1, <1>2, <1>3, <1>9 DEF ChunksOnly
<1>10. CASE UNCHANGED transportVars
  BY <1>1, <1>2, <1>3, <1>4, <1>10 DEF transportVars
<1> QED
  BY <1>5, <1>6, <1>7, <1>8, <1>9, <1>10 DEF TransportNext

\* WebrtcDaemonTransport: a run of the transport, the steps of its other components left
\* out, is a run of each of them.
THEOREM PartsRun ==
  TransportSpec => Spec /\ Peer!Spec /\ Events!Spec /\ Control!Spec /\ Chunks!Spec
<1>1. TransportInit => Init /\ Peer!Init /\ Events!Init /\ Control!Init /\ Chunks!Init
  BY DEF TransportInit
<1>2. [TransportNext]_transportVars =>
        /\ [Next]_vars /\ [Peer!Next]_(Peer!vars) /\ [Events!Next]_(Events!vars)
        /\ [Control!Next]_(Control!vars) /\ [Chunks!Next]_(Chunks!vars)
  BY PartsStep
<1> QED
  BY <1>1, <1>2, PTL DEF TransportSpec, Spec, Peer!Spec, Events!Spec, Control!Spec, Chunks!Spec

LEMMA PeerBound == MaxGen \in Nat
BY EntityBoundsAssumption

\* Every component keeps the shape the code gives its state.
THEOREM TransportTypes == TransportSpec => []TypesOK
<1>1. EventsInv => Events!TypeOK
  BY EventsImplied
<1>2. ControlInv => Control!TypeOK
  BY ControlImplied
<1>3. ChunksInv => Chunks!TypeOK
  BY DEF ChunksInv
<1>4. TypeOK /\ PeerProofs!TypeOK /\ Events!TypeOK /\ Control!TypeOK /\ Chunks!TypeOK => TypesOK
  BY SamePeer DEF TypesOK
<1>5. PeerProofs!Spec => []PeerProofs!TypeOK
  BY PeerBound, PeerProofs!TypeCorrect
<1> QED
  BY <1>1, <1>2, <1>3, <1>4, <1>5, PartsRun, PeerRuns, TypeCorrect, EventsInductive, ControlInductive,
     ChunksInductive, PTL

\* startAttempt, failAttempt, publish, disconnect: the attempt that runs owns the client,
\* a captured demand is served, the published channel is the current attempt's and after a
\* disconnect nothing runs, whatever the other components do.
THEOREM TransportPeer == TransportSpec => []PeerIsServed
<1>1. /\ PeerProofs!Spec => []PeerProofs!AttemptOwnsClient
      /\ PeerProofs!Spec => []PeerProofs!DemandIsServed
      /\ PeerProofs!Spec => []PeerProofs!PublishedIsCurrent
      /\ PeerProofs!Spec => []PeerProofs!QuietAfterDisconnect
  BY PeerBound, PeerProofs!OneAttemptOwns, PeerProofs!DemandServed, PeerProofs!PublishedCurrent,
     PeerProofs!DisconnectIsFinal
<1>2. PeerProofs!AttemptOwnsClient /\ PeerProofs!DemandIsServed
        /\ PeerProofs!PublishedIsCurrent /\ PeerProofs!QuietAfterDisconnect => PeerIsServed
  BY SamePeer DEF PeerIsServed
<1> QED
  BY <1>1, <1>2, PartsRun, PeerRuns, PTL

\* receivePackageEvent, resubscribePackageEvent: an event is told at most once and never
\* after a later one, over however many channels and peers the holder is restored.
THEOREM TransportEvents == TransportSpec => []HeardOnceInOrder
<1>1. EventsInv => HeardOnceInOrder
  BY EventsImplied DEF HeardOnceInOrder
<1> QED
  BY <1>1, PartsRun, EventsInductive, PTL

\* handleMessage, releaseAssembly, resetPeerState: while a peer or an attempt is there the
\* budget is the chunks held and the ids remembered, within its limit, and no message is
\* handed on twice while its id is remembered.
THEOREM TransportControl == TransportSpec => []ControlIsAccounted
<1>1. ControlInv => ControlIsAccounted
  BY ControlImplied DEF ControlIsAccounted
<1> QED
  BY <1>1, PartsRun, ControlInductive, PTL

\* handleTerminalChannelMessage, handleSubscriptionChannelMessage: Hub's messages from the
\* first on, whole and once, however the chunks are repeated, refused or retired.
THEOREM TransportChunks == TransportSpec => []ChunksAreWhole
<1>1. ChunksInv => ChunksAreWhole
  BY DEF ChunksInv, ChunksAreWhole
<1> QED
  BY <1>1, PartsRun, ChunksInductive, PTL

\* isCurrentSubscriptionBinding, resetPeerState: no listener is taken back, and a demand is
\* dropped only by a ready stream or a disconnect.
THEOREM TransportForgetsNothing == TransportSpec => NothingIsForgotten
<1>1. PeerProofs!Spec => PeerProofs!DemandIsSticky
  BY PeerBound, PeerProofs!DemandSticks
<1>2. [peer.demand /\ ~peer'.demand => peer'.disconnected \/ peer'.ready]_(PeerProofs!vars)
        => [peer.demand /\ ~peer'.demand => peer'.disconnected \/ peer'.ready]_(Peer!vars)
  BY DEF Peer!vars, PeerProofs!vars
<1> QED
  BY <1>1, <1>2, PartsRun, PeerRuns, NeverGoesBack, PTL
  DEF NothingIsForgotten, Peer!DemandIsSticky, PeerProofs!DemandIsSticky

\* receiveEntityFrame on the transport: one channel at a time, and a view without a hole.
THEOREM TransportEntity == TransportSpec => []OneChannel /\ []ViewIsPrefix
  BY PartsRun, OneChannelOpen, ListenerHasNoHole, PTL
=============================================================================
