----------------------- MODULE EntitySubscription_proofs -----------------------
(***************************************************************************)
(* The held entity subscription for every number of peers, ids and changes *)
(* and every environment: types, one open channel, no hole in what the     *)
(* listener was told, and no way back.                                     *)
(***************************************************************************)
EXTENDS EntitySubscription, FiniteSetTheorems, TLAPS

Links == {"down", "connecting", "open", "closing"}
Readies == {"none", "pending", "resolved", "rejected"}

\* A client outside the bounds of the model.
Unbounded ==
  [gen : Nat, link : Links, generation : Nat, id : Nat, seq : Int, resubscribing : BOOLEAN,
   channel : Nat, ready : Readies, closed : BOOLEAN, nextId : Nat, asked : Nat,
   flights : SUBSET [gen : Nat, via : Nat, at : {"unsubscribe", "ready"}],
   open : SUBSET Nat, admitted : SUBSET Ids]

\* Generations and ids are handed out in order; the last ones are the greatest.
Numbered(c) ==
  /\ c.generation <= c.gen
  /\ 1 <= c.nextId /\ c.id < c.nextId /\ c.asked < c.nextId /\ c.channel < c.nextId
  /\ \A f \in c.flights : f.gen <= c.gen /\ f.via <= c.gen

\* A resubscription of this peer that waits for its unsubscribe request.
Unsubscribing(c) == {f \in c.flights : f.at = "unsubscribe" /\ f.gen = c.gen}

\* One channel, or one request that may still open one, or one resubscription that may
\* still send that request; none of them without a peer.
OneAtATime(c) ==
  /\ c.open = IF c.channel = Undefined THEN {} ELSE {c.channel}
  /\ c.asked # Undefined => c.channel = Undefined
  /\ Unsubscribing(c) # {} => c.channel = Undefined /\ c.asked = Undefined
  /\ \A f, g \in Unsubscribing(c) : f = g
  /\ c.link \in {"down", "connecting"} => c.channel = Undefined /\ c.asked = Undefined
  /\ c.link = "connecting" => Unsubscribing(c) = {}

\* A subscription without an identity, or with one the Hub has not confirmed, has no
\* sequence.
Unsequenced(c) == c.id = Undefined \/ c.id = c.asked => c.seq = -1

Good(c) == c \in Unbounded /\ Numbered(c) /\ OneAtATime(c) /\ Unsequenced(c)

\* From c to d: ids grow, a new request has a new id, a channel is closed or kept, and
\* a sequence is kept or reset; kept for the channel only with its id.
Later(c, d) ==
  /\ c.nextId <= d.nextId
  /\ d.asked \in {Undefined, c.asked} \/ c.nextId <= d.asked
  /\ d.channel \in {Undefined, c.channel}
  /\ d.channel # Undefined /\ d.id = d.channel => d.id = c.id /\ d.seq = c.seq
  /\ d.seq \in {-1, c.seq}

-----------------------------------------------------------------------------
(* The client's methods.                                                   *)

\* closeSubscriptionChannel of the subscription's channel.
LEMMA CloseIsGood ==
  ASSUME NEW c, Good(c)
  PROVE  LET d == CloseChannel(c, c.channel)
         IN /\ Good(d) /\ d.channel = Undefined /\ d.open = {}
            /\ d.nextId = c.nextId /\ d.asked = c.asked /\ d.gen = c.gen /\ d.link = c.link
            /\ d.flights = c.flights /\ d.id = c.id /\ d.seq = c.seq /\ d.closed = c.closed
            /\ Later(c, d)
<1> DEFINE d == CloseChannel(c, c.channel)
<1>0. c \in Unbounded
  BY DEF Good
<1>1. /\ d.gen = c.gen /\ d.link = c.link /\ d.generation = c.generation /\ d.id = c.id
      /\ d.seq = c.seq /\ d.resubscribing = c.resubscribing /\ d.ready = c.ready
      /\ d.closed = c.closed /\ d.nextId = c.nextId /\ d.asked = c.asked
      /\ d.flights = c.flights /\ d.admitted = c.admitted
      /\ d.channel = Undefined /\ d.open = c.open \ {c.channel}
  BY <1>0 DEF CloseChannel, Unbounded, Undefined
<1>2. d \in Unbounded
  BY <1>0 DEF CloseChannel, Unbounded, Undefined
<1> HIDE DEF d
<1>3. d.open = {}
  BY <1>1 DEF Good, OneAtATime
<1>4. Numbered(d) /\ Unsequenced(d)
  BY <1>0, <1>1 DEF Good, Numbered, Unsequenced, Unbounded, Undefined
<1>5. Unsubscribing(d) = Unsubscribing(c)
  BY <1>1 DEF Unsubscribing
<1>6. OneAtATime(d)
  BY <1>1, <1>3, <1>5 DEF Good, OneAtATime
<1>7. Later(c, d)
  BY <1>0, <1>1 DEF Later, Unbounded
<1> QED
  BY <1>1, <1>2, <1>3, <1>4, <1>6, <1>7 DEF Good, d

\* resetPeerState: what it leaves of a client.
LEMMA ResetFields ==
  ASSUME NEW c \in Unbounded
  PROVE  LET r == ResetPeer(c)
         IN /\ r \in Unbounded /\ r.gen = c.gen /\ r.generation = Undefined /\ r.id = Undefined
            /\ r.seq = -1 /\ r.nextId = c.nextId /\ r.asked = Undefined /\ r.flights = c.flights
            /\ r.channel = Undefined /\ r.open = {} /\ r.ready = c.ready /\ r.closed = c.closed
<1> DEFINE r == ResetPeer(c)
<1>1. Undefined \in Nat /\ -1 \in Int /\ FALSE \in BOOLEAN /\ {} \in SUBSET Nat
  BY DEF Undefined
<1>2. r \in Unbounded
  BY <1>1, Zenon DEF ResetPeer, Unbounded
<1>3. /\ r.gen = c.gen /\ r.generation = Undefined /\ r.id = Undefined
      /\ r.seq = -1 /\ r.nextId = c.nextId /\ r.asked = Undefined /\ r.flights = c.flights
      /\ r.channel = Undefined /\ r.open = {} /\ r.ready = c.ready /\ r.closed = c.closed
  BY SMT DEF ResetPeer, Unbounded
<1> QED
  BY <1>2, <1>3

\* startAttempt: a fresh peer, whatever the state of the last one.
LEMMA AttemptIsGood ==
  ASSUME NEW c \in Unbounded, 1 <= c.nextId, \A f \in c.flights : f.gen <= c.gen /\ f.via <= c.gen
  PROVE  LET e == StartAttempt(c)
         IN /\ Good(e)
            /\ e.gen = c.gen + 1 /\ e.id = Undefined /\ e.seq = -1 /\ e.nextId = c.nextId
            /\ e.asked = Undefined /\ e.flights = c.flights /\ e.channel = Undefined
            /\ e.ready = c.ready /\ e.closed = c.closed
<1> DEFINE r == ResetPeer(c)
           e == StartAttempt(c)
<1>1. /\ r \in Unbounded /\ r.gen = c.gen /\ r.generation = Undefined /\ r.id = Undefined
      /\ r.seq = -1 /\ r.nextId = c.nextId /\ r.asked = Undefined /\ r.flights = c.flights
      /\ r.channel = Undefined /\ r.open = {} /\ r.ready = c.ready /\ r.closed = c.closed
  BY ResetFields
<1>2. e = [r EXCEPT !.gen = @ + 1, !.link = "connecting"]
  BY DEF StartAttempt
<1> HIDE DEF r, e
<1>m. e \in Unbounded
  <2>1. r.gen + 1 \in Nat /\ "connecting" \in Links
    BY <1>1 DEF Unbounded, Links
  <2> QED
    BY <1>1, <1>2, <2>1, Zenon DEF Unbounded
<1>3. /\ e \in Unbounded /\ e.gen = c.gen + 1 /\ e.link = "connecting"
      /\ e.generation = Undefined /\ e.id = Undefined /\ e.seq = -1 /\ e.nextId = c.nextId
      /\ e.asked = Undefined /\ e.flights = c.flights /\ e.channel = Undefined /\ e.open = {}
      /\ e.ready = c.ready /\ e.closed = c.closed
  BY <1>1, <1>2, <1>m DEF Unbounded
<1>4. c.gen \in Nat /\ c.nextId \in Nat /\ \A f \in c.flights : f.gen \in Nat /\ f.via \in Nat
  BY DEF Unbounded
<1>5. Numbered(e)
  BY <1>3, <1>4 DEF Numbered, Undefined
<1>6. Unsubscribing(e) = {}
  BY <1>3, <1>4 DEF Unsubscribing
<1>7. OneAtATime(e) /\ Unsequenced(e)
  BY <1>3, <1>6 DEF OneAtATime, Unsequenced
<1> QED
  BY <1>3, <1>5, <1>7 DEF Good, e

\* handleTransportClosed, failAttempt: without a peer nothing is open or asked for.
LEMMA ResetIsGood ==
  ASSUME NEW c, Good(c)
  PROVE  LET d == [ResetPeer(c) EXCEPT !.link = "down"]
         IN Good(d) /\ Later(c, d)
<1>0. c \in Unbounded
  BY DEF Good
<1> DEFINE r == ResetPeer(c)
           d == [r EXCEPT !.link = "down"]
<1>1. /\ r \in Unbounded /\ r.gen = c.gen /\ r.generation = Undefined /\ r.id = Undefined
      /\ r.seq = -1 /\ r.nextId = c.nextId /\ r.asked = Undefined /\ r.flights = c.flights
      /\ r.channel = Undefined /\ r.open = {}
  BY <1>0, ResetFields
<1> HIDE DEF r
<1>3. /\ d \in Unbounded /\ d.gen = c.gen /\ d.link = "down" /\ d.generation = Undefined
      /\ d.id = Undefined /\ d.seq = -1 /\ d.nextId = c.nextId /\ d.asked = Undefined
      /\ d.flights = c.flights /\ d.channel = Undefined /\ d.open = {}
  BY <1>1 DEF Unbounded, Links
<1> HIDE DEF d
<1>5. c.gen \in Nat /\ c.nextId \in Nat
  BY <1>0 DEF Unbounded
<1>6. Numbered(d)
  BY <1>3, <1>5 DEF Good, Numbered, Undefined
<1>7. Unsubscribing(d) = Unsubscribing(c)
  BY <1>3 DEF Unsubscribing
<1>8. OneAtATime(d) /\ Unsequenced(d)
  BY <1>3, <1>7 DEF Good, OneAtATime, Unsequenced
<1>9. Later(c, d)
  BY <1>3, <1>5 DEF Later
<1> QED
  BY <1>3, <1>6, <1>8, <1>9 DEF Good, d, r

\* connect
LEMMA ConnectedIsGood ==
  ASSUME NEW c, Good(c)
  PROVE  LET d == Connected(c)
         IN /\ Good(d) /\ Later(c, d)
            /\ (d = c /\ c.link \in {"connecting", "open"}) \/ (d = StartAttempt(c) /\ d.gen = c.gen + 1)
            /\ d.flights = c.flights /\ d.nextId = c.nextId
<1>0. c \in Unbounded /\ 1 <= c.nextId /\ \A f \in c.flights : f.gen <= c.gen /\ f.via <= c.gen
  BY DEF Good, Numbered
<1>1. c.nextId \in Nat /\ c.gen \in Nat /\ c.link \in Links
  BY <1>0 DEF Unbounded
<1>2. Later(c, c)
  BY <1>1 DEF Later
<1>3. CASE c.link \in {"down", "closing"}
  <2>1. Connected(c) = StartAttempt(c)
    BY <1>3 DEF Connected
  <2>2. Later(c, StartAttempt(c))
    BY <1>0, <1>1, AttemptIsGood DEF Later
  <2> QED
    BY <1>0, <2>1, <2>2, AttemptIsGood
<1>4. CASE c.link \notin {"down", "closing"}
  <2>1. Connected(c) = c /\ c.link \in {"connecting", "open"}
    BY <1>1, <1>4 DEF Connected, Links
  <2>2. Good(Connected(c)) /\ Later(c, Connected(c))
    BY <1>2, <2>1
  <2>3. Connected(c).flights = c.flights /\ Connected(c).nextId = c.nextId
    BY <2>1
  <2> QED
    BY <2>1, <2>2, <2>3
<1> QED
  BY <1>3, <1>4

\* startEntitySubscription, when nothing of an earlier request or channel is left.
LEMMA StartIsGood ==
  ASSUME NEW c, Good(c), NEW g \in Nat,
         g = c.gen => /\ c.channel = Undefined /\ c.asked = Undefined
                      /\ Unsubscribing(c) = {} /\ c.link # "connecting"
  PROVE  LET d == Start(c, g)
         IN /\ Good(d) /\ Later(c, d) /\ d.flights = c.flights
            /\ d.channel \in {Undefined, c.channel}
            /\ c.gen <= d.gen
            /\ g # c.gen => d = c
<1> DEFINE s == [c EXCEPT !.generation = g, !.id = c.nextId, !.seq = -1,
                          !.nextId = @ + 1, !.asked = c.nextId,
                          !.ready = IF @ = "none" THEN "pending" ELSE @]
           d == Start(c, g)
<1>0. c \in Unbounded /\ Numbered(c)
  BY DEF Good
<1>1. /\ c.nextId \in Nat /\ 1 <= c.nextId /\ c.gen \in Nat /\ c.link \in Links
      /\ c.channel < c.nextId /\ c.channel \in Nat
      /\ \A f \in c.flights : f.gen <= c.gen /\ f.via <= c.gen
  BY <1>0 DEF Unbounded, Numbered
<1>2. CASE c.closed \/ g # c.gen \/ (c.generation = g /\ c.ready # "none")
  <2>1. d = c
    BY <1>2 DEF Start
  <2>2. Later(c, c)
    BY <1>1 DEF Later
  <2> QED
    BY <1>1, <2>1, <2>2
<1>3. CASE ~(c.closed \/ g # c.gen \/ (c.generation = g /\ c.ready # "none"))
  <2>1. d = Connected(s) /\ g = c.gen
    BY <1>3 DEF Start
  <2>m. s \in Unbounded
    <3>1. -1 \in Int /\ c.nextId + 1 \in Nat
      BY <1>1
    <3>2. (IF c.ready = "none" THEN "pending" ELSE c.ready) \in Readies
      BY <1>0 DEF Unbounded, Readies
    <3> QED
      BY <1>0, <1>1, <3>1, <3>2, Zenon DEF Unbounded
  <2>2. /\ s \in Unbounded /\ s.gen = c.gen /\ s.link = c.link /\ s.generation = c.gen
        /\ s.id = c.nextId /\ s.seq = -1 /\ s.nextId = c.nextId + 1 /\ s.asked = c.nextId
        /\ s.flights = c.flights /\ s.channel = c.channel /\ s.open = c.open
    BY <1>0, <1>1, <2>1, <2>m DEF Unbounded
  <2> HIDE DEF s, d
  <2>3. /\ c.channel = Undefined /\ c.asked = Undefined /\ c.link # "connecting"
        /\ c.open = {} /\ Unsubscribing(c) = {}
    BY <2>1 DEF Good, OneAtATime
  <2>4. CASE c.link \in {"down", "closing"}
    <3>1. d = StartAttempt(s)
      BY <2>1, <2>2, <2>4 DEF Connected
    <3>2. 1 <= s.nextId
      BY <1>1, <2>2
    <3>3. /\ Good(d) /\ d.gen = s.gen + 1 /\ d.id = Undefined /\ d.seq = -1
          /\ d.nextId = s.nextId /\ d.asked = Undefined /\ d.flights = s.flights
          /\ d.channel = Undefined
      BY <1>1, <2>2, <3>1, <3>2, AttemptIsGood
    <3>4. Later(c, d)
      BY <1>1, <2>2, <3>3 DEF Later
    <3> QED
      BY <1>1, <2>1, <2>2, <3>3, <3>4 DEF d
  <2>5. CASE c.link = "open"
    <3>1. d = s
      BY <2>1, <2>2, <2>5 DEF Connected
    <3>2. Unsubscribing(s) = {}
      BY <2>2, <2>3 DEF Unsubscribing
    <3>3. Numbered(s)
      BY <1>1, <2>2, <2>3 DEF Numbered, Undefined
    <3>4. OneAtATime(s) /\ Unsequenced(s)
      BY <2>2, <2>3, <2>5, <3>2 DEF OneAtATime, Unsequenced
    <3>5. Later(c, s)
      BY <1>1, <2>2, <2>3 DEF Later
    <3> QED
      BY <1>1, <2>1, <2>2, <3>1, <3>3, <3>4, <3>5 DEF Good, d
  <2> QED
    BY <1>1, <2>3, <2>4, <2>5 DEF Links
<1> QED
  BY <1>2, <1>3

\* resubscribeEntity of a subscription whose channel is there.
LEMMA ResubscribeIsGood ==
  ASSUME NEW c, Good(c),
         c.channel # Undefined \/ (c.asked = Undefined /\ c.link \in {"open", "closing"} /\ Unsubscribing(c) = {})
  PROVE  LET d == Resubscribe(c, c.gen)
         IN Good(d) /\ Later(c, d)
<1> DEFINE closing == CloseChannel(c, c.channel)
           r == [closing EXCEPT !.resubscribing = TRUE]
           e == Connected(r)
           f == [gen |-> c.gen, via |-> e.gen, at |-> "unsubscribe"]
           d == [e EXCEPT !.flights = @ \cup {f}]
<1>0. c \in Unbounded /\ c.gen \in Nat /\ c.nextId \in Nat /\ c.channel \in Nat /\ c.link \in Links
  BY DEF Good, Unbounded
<1>a. c.asked = Undefined /\ Unsubscribing(c) = {} /\ c.link \in {"open", "closing"}
  BY <1>0 DEF Good, OneAtATime, Links
<1>1. CASE c.resubscribing \/ c.closed
  <2>1. Resubscribe(c, c.gen) = c
    BY <1>1 DEF Resubscribe
  <2>2. Later(c, c)
    BY <1>0 DEF Later
  <2> QED
    BY <2>1, <2>2
<1>2. CASE ~(c.resubscribing \/ c.closed)
  <2>1. Resubscribe(c, c.gen) = d
    BY <1>2 DEF Resubscribe
  <2>2. /\ Good(closing) /\ closing.channel = Undefined /\ closing.open = {}
        /\ closing.nextId = c.nextId /\ closing.asked = c.asked /\ closing.gen = c.gen
        /\ closing.link = c.link /\ closing.flights = c.flights
        /\ closing.id = c.id /\ closing.seq = c.seq
    BY CloseIsGood
  <2> HIDE DEF closing
  <2>3. /\ r \in Unbounded /\ r.gen = c.gen /\ r.link = c.link /\ r.generation = closing.generation
        /\ r.id = c.id /\ r.seq = c.seq /\ r.nextId = c.nextId /\ r.asked = c.asked
        /\ r.flights = c.flights /\ r.channel = Undefined /\ r.open = {}
    BY <2>2 DEF Good, Unbounded
  <2> HIDE DEF r
  <2>4. Unsubscribing(r) = Unsubscribing(c)
    BY <2>3 DEF Unsubscribing
  <2>5. Good(r) /\ Later(c, r)
    BY <1>0, <2>2, <2>3, <2>4 DEF Good, Numbered, OneAtATime, Unsequenced, Later
  <2>6. /\ Good(e) /\ Later(r, e)
        /\ (e = r /\ r.link \in {"connecting", "open"}) \/ (e = StartAttempt(r) /\ e.gen = r.gen + 1)
        /\ e.flights = r.flights /\ e.nextId = r.nextId
    BY <2>5, ConnectedIsGood
  <2> HIDE DEF e
  <2>7. e \in Unbounded /\ e.gen \in Nat /\ c.gen <= e.gen /\ e.channel = Undefined
        /\ e.asked = Undefined
    <3>1. e \in Unbounded /\ e.gen \in Nat
      BY <2>6 DEF Good, Unbounded
    <3>2. r.gen = c.gen /\ (e.gen = r.gen \/ e.gen = r.gen + 1)
      BY <2>3, <2>6
    <3>3. c.gen <= e.gen
      BY <1>0, <3>1, <3>2
    <3>4. e = r \/ e = StartAttempt(r)
      BY <2>6
    <3>5. /\ StartAttempt(r).channel = Undefined /\ StartAttempt(r).asked = Undefined
      <4>1. r \in Unbounded /\ 1 <= r.nextId /\ \A x \in r.flights : x.gen <= r.gen /\ x.via <= r.gen
        BY <2>5 DEF Good, Numbered
      <4> QED
        BY <4>1, AttemptIsGood
    <3> QED
      BY <1>a, <2>3, <3>1, <3>3, <3>4, <3>5
  <2>8. f \in [gen : Nat, via : Nat, at : {"unsubscribe", "ready"}]
    BY <1>0, <2>7
  <2> HIDE DEF f
  <2>9. /\ d \in Unbounded /\ d.gen = e.gen /\ d.link = e.link /\ d.generation = e.generation
        /\ d.id = e.id /\ d.seq = e.seq /\ d.nextId = e.nextId /\ d.asked = e.asked
        /\ d.flights = e.flights \cup {f} /\ d.channel = e.channel /\ d.open = e.open
    BY <2>7, <2>8 DEF Unbounded
  <2> HIDE DEF d
  <2>10. Unsubscribing(d) = IF e.gen = c.gen THEN {f} ELSE {}
    <3>1. Unsubscribing(e) = {}
      <4>1. CASE e = r
        BY <1>a, <2>4, <4>1
      <4>2. CASE e.gen = r.gen + 1
        <5>1. \A x \in e.flights : x.gen <= r.gen /\ x.gen \in Nat
          BY <2>5, <2>6 DEF Good, Numbered, Unbounded
        <5>2. r.gen \in Nat
          BY <2>3 DEF Unbounded
        <5> QED
          BY <4>2, <5>1, <5>2 DEF Unsubscribing
      <4> QED
        BY <2>6, <4>1, <4>2
    <3>2. f.gen = c.gen /\ f.at = "unsubscribe"
      BY DEF f
    <3> QED
      BY <2>9, <3>1, <3>2 DEF Unsubscribing
  <2>11. e.gen = c.gen => e.link = "open"
    BY <1>0, <1>a, <2>3, <2>6
  <2>12. OneAtATime(d) /\ Unsequenced(d)
    BY <2>6, <2>7, <2>9, <2>10, <2>11 DEF Good, OneAtATime, Unsequenced
  <2>13. f.gen <= e.gen /\ f.via <= e.gen
    BY <1>0, <2>7 DEF f
  <2>14. Numbered(d)
    BY <2>6, <2>9, <2>13 DEF Good, Numbered
  <2>15. Later(c, d)
    BY <1>0, <2>3, <2>5, <2>6, <2>9 DEF Later
  <2> QED
    BY <2>1, <2>9, <2>12, <2>14, <2>15 DEF Good
<1> QED
  BY <1>1, <1>2

\* resubscribeEntity after its await.
LEMMA ResumeIsGood ==
  ASSUME NEW c, Good(c), NEW f \in c.flights, f.at = "unsubscribe"
  PROVE  LET d == Resume(c, f)
         IN Good(d) /\ Later(c, d)
<1> DEFINE freed == [c EXCEPT !.flights = @ \ {f}, !.generation = Undefined,
                              !.id = Undefined, !.seq = -1]
           e == Start(freed, f.gen)
           h == [f EXCEPT !.at = "ready"]
<1>0. /\ c \in Unbounded /\ c.gen \in Nat /\ c.nextId \in Nat
      /\ f \in [gen : Nat, via : Nat, at : {"unsubscribe", "ready"}]
      /\ f.gen \in Nat /\ f.via \in Nat /\ f.gen <= c.gen /\ f.via <= c.gen
  BY DEF Good, Unbounded, Numbered
<1>1. /\ freed \in Unbounded /\ freed.gen = c.gen /\ freed.link = c.link
      /\ freed.generation = Undefined /\ freed.id = Undefined /\ freed.seq = -1
      /\ freed.nextId = c.nextId /\ freed.asked = c.asked /\ freed.flights = c.flights \ {f}
      /\ freed.channel = c.channel /\ freed.open = c.open
  <2>1. Undefined \in Nat /\ -1 \in Int
    BY DEF Undefined
  <2>2. c.flights \ {f} \in SUBSET [gen : Nat, via : Nat, at : {"unsubscribe", "ready"}]
    BY <1>0 DEF Unbounded
  <2>3. freed \in Unbounded
    BY <1>0, <2>1, <2>2, Zenon DEF Unbounded
  <2> QED
    BY <1>0, <2>3 DEF Unbounded
<1> HIDE DEF freed
<1>2. Unsubscribing(freed) = Unsubscribing(c) \ {f}
  BY <1>1 DEF Unsubscribing
<1>3. Good(freed) /\ Later(c, freed)
  <2>1. Numbered(freed)
    BY <1>0, <1>1 DEF Good, Numbered, Undefined
  <2>2. OneAtATime(freed) /\ Unsequenced(freed)
    BY <1>1, <1>2 DEF Good, OneAtATime, Unsequenced
  <2>3. Later(c, freed)
    BY <1>0, <1>1 DEF Later
  <2> QED
    BY <1>1, <2>1, <2>2, <2>3 DEF Good
<1>4. f.gen = freed.gen => /\ freed.channel = Undefined /\ freed.asked = Undefined
                           /\ Unsubscribing(freed) = {} /\ freed.link # "connecting"
  <2>1. f.gen = c.gen => f \in Unsubscribing(c)
    BY DEF Unsubscribing
  <2> QED
    BY <1>1, <1>2, <2>1 DEF Good, OneAtATime
<1>5. /\ Good(e) /\ Later(freed, e) /\ e.flights = freed.flights /\ freed.gen <= e.gen
  BY <1>0, <1>3, <1>4, StartIsGood
<1> HIDE DEF e
<1>6. e \in Unbounded /\ e.gen \in Nat /\ e.nextId \in Nat
  BY <1>5 DEF Good, Unbounded
<1>7. Later(c, e)
  <2>1. freed.nextId \in Nat /\ freed.nextId = c.nextId
    BY <1>0, <1>1
  <2>2. c.nextId <= e.nextId
    BY <1>0, <1>5, <1>6, <2>1 DEF Later
  <2>3. e.asked \in {Undefined, c.asked} \/ c.nextId <= e.asked
    BY <1>1, <1>5, <2>1 DEF Later
  <2>4. e.channel \in {Undefined, c.channel} /\ e.seq \in {-1, c.seq}
    BY <1>1, <1>5 DEF Later
  <2>5. e.channel # Undefined /\ e.id = e.channel => e.id = c.id /\ e.seq = c.seq
    BY <1>1, <1>3, <1>5 DEF Later
  <2> QED
    BY <2>2, <2>3, <2>4, <2>5 DEF Later
<1>8. CASE f.gen = c.gen /\ ~c.closed /\ e.ready = "pending"
  <2> DEFINE d == [e EXCEPT !.flights = @ \cup {h}]
  <2>1. Resume(c, f) = d
    BY <1>8 DEF Resume, e, freed
  <2>2. /\ h \in [gen : Nat, via : Nat, at : {"unsubscribe", "ready"}]
        /\ h.at = "ready" /\ h.gen = f.gen /\ h.via = f.via
    BY <1>0
  <2> HIDE DEF h
  <2>3. /\ d \in Unbounded /\ d.gen = e.gen /\ d.link = e.link /\ d.generation = e.generation
        /\ d.id = e.id /\ d.seq = e.seq /\ d.nextId = e.nextId /\ d.asked = e.asked
        /\ d.flights = e.flights \cup {h} /\ d.channel = e.channel /\ d.open = e.open
    BY <1>6, <2>2 DEF Unbounded
  <2> HIDE DEF d
  <2>4. Unsubscribing(d) = Unsubscribing(e)
    BY <2>2, <2>3 DEF Unsubscribing
  <2>5. h.gen <= e.gen /\ h.via <= e.gen
    BY <1>0, <1>1, <1>5, <1>6, <2>2
  <2>6. Numbered(d)
    BY <1>5, <2>3, <2>5 DEF Good, Numbered
  <2>7. OneAtATime(d) /\ Unsequenced(d)
    BY <1>5, <2>3, <2>4 DEF Good, OneAtATime, Unsequenced
  <2>8. Later(c, d)
    BY <1>7, <2>3 DEF Later
  <2> QED
    BY <2>1, <2>3, <2>6, <2>7, <2>8 DEF Good
<1>9. CASE ~(f.gen = c.gen /\ ~c.closed /\ e.ready = "pending")
  <2> DEFINE d == [e EXCEPT !.resubscribing = FALSE]
  <2>1. Resume(c, f) = d
    BY <1>9 DEF Resume, e, freed
  <2>3. /\ d \in Unbounded /\ d.gen = e.gen /\ d.link = e.link /\ d.generation = e.generation
        /\ d.id = e.id /\ d.seq = e.seq /\ d.nextId = e.nextId /\ d.asked = e.asked
        /\ d.flights = e.flights /\ d.channel = e.channel /\ d.open = e.open
    BY <1>6 DEF Unbounded
  <2> HIDE DEF d
  <2>4. Unsubscribing(d) = Unsubscribing(e)
    BY <2>3 DEF Unsubscribing
  <2>6. Numbered(d)
    BY <1>5, <2>3 DEF Good, Numbered
  <2>7. OneAtATime(d) /\ Unsequenced(d)
    BY <1>5, <2>3, <2>4 DEF Good, OneAtATime, Unsequenced
  <2>8. Later(c, d)
    BY <1>7, <2>3 DEF Later
  <2> QED
    BY <2>1, <2>3, <2>6, <2>7, <2>8 DEF Good
<1> QED
  BY <1>8, <1>9

\* A change of fields that the structure does not depend on.
LEMMA SameIsGood ==
  ASSUME NEW c, Good(c), NEW d \in Unbounded,
         d.gen = c.gen, d.generation = c.generation, d.id = c.id, d.seq = c.seq,
         d.nextId = c.nextId, d.channel = c.channel, d.open = c.open,
         d.asked \in {c.asked, Undefined}, d.flights \in SUBSET c.flights,
         d.link = c.link \/ d.link \in {"open", "closing"}
  PROVE  Good(d) /\ Later(c, d)
<1>1. c \in Unbounded /\ c.nextId \in Nat
  BY DEF Good, Unbounded
<1>2. Numbered(d)
  <2>1. d.asked < d.nextId
    BY <1>1 DEF Good, Numbered, Undefined
  <2> QED
    BY <2>1 DEF Good, Numbered
<1>3. Unsubscribing(d) \subseteq Unsubscribing(c)
  BY DEF Unsubscribing
<1>4. OneAtATime(d)
  BY <1>3 DEF Good, OneAtATime
<1>5. Unsequenced(d) /\ Later(c, d)
  BY <1>1 DEF Good, Unsequenced, Later
<1> QED
  BY <1>2, <1>4, <1>5 DEF Good

\* rejectReady and resolveReady.
LEMMA SettleIsGood ==
  ASSUME NEW c, Good(c), NEW outcome \in Readies
  PROVE  Good(Settle(c, outcome)) /\ Later(c, Settle(c, outcome))
<1> DEFINE d == Settle(c, outcome)
<1>1. c \in Unbounded
  BY DEF Good
<1>2. d \in Unbounded
  <2>1. (IF c.ready = "pending" THEN outcome ELSE c.ready) \in Readies
    BY <1>1 DEF Unbounded
  <2> QED
    BY <1>1, <2>1, Zenon DEF Settle, Unbounded
<1>3. /\ d.gen = c.gen /\ d.generation = c.generation /\ d.id = c.id /\ d.seq = c.seq
      /\ d.nextId = c.nextId /\ d.channel = c.channel /\ d.open = c.open
      /\ d.asked = c.asked /\ d.flights = c.flights /\ d.link = c.link
  BY <1>1, SMT DEF Settle, Unbounded
<1> HIDE DEF d
<1>4. d.asked \in {c.asked, Undefined} /\ d.flights \in SUBSET c.flights
  BY <1>3
<1> QED
  BY <1>2, <1>3, <1>4, SameIsGood DEF d

LEMMA LaterIsTransitive ==
  ASSUME NEW c \in Unbounded, NEW d \in Unbounded, NEW e \in Unbounded, Later(c, d), Later(d, e)
  PROVE  Later(c, e)
<1>1. c.nextId \in Nat /\ d.nextId \in Nat /\ e.nextId \in Nat /\ e.asked \in Nat
  BY DEF Unbounded
<1>2. c.nextId <= e.nextId
  BY <1>1 DEF Later
<1>3. e.asked \in {Undefined, c.asked} \/ c.nextId <= e.asked
  BY <1>1 DEF Later
<1>4. e.channel \in {Undefined, c.channel} /\ e.seq \in {-1, c.seq}
  BY DEF Later
<1>5. e.channel # Undefined /\ e.id = e.channel => e.id = c.id /\ e.seq = c.seq
  BY DEF Later
<1> QED
  BY <1>2, <1>3, <1>4, <1>5 DEF Later

-----------------------------------------------------------------------------
(* The invariant.                                                          *)

IsSnapshot(b, i) == wire[b][i].type = "snapshot"

\* What is in line for a subscription: frames the Hub has sent, at most one snapshot,
\* and none before the Hub could know the subscription.
WiresAreSent ==
  \A b \in Ids :
    /\ wire[b] # <<>> \/ b \in served => b < client.nextId /\ b # client.asked
    /\ \A i \in 1 .. Len(wire[b]) :
         /\ wire[b][i].seq <= hubSeq
         /\ IsSnapshot(b, i) => b \in served
         /\ \A j \in 1 .. Len(wire[b]) : IsSnapshot(b, i) /\ IsSnapshot(b, j) => i = j

\* The listener knows every change up to the last one it was told of.
ViewIsKnown ==
  /\ \E n \in 0 .. hubSeq : view = 1 .. n
  /\ client.seq # -1 => client.seq \in 0 .. hubSeq /\ view = 1 .. client.seq

\* The snapshot in line on the channel is no older than the view, and until it is
\* received the subscription has no sequence.
SnapshotIsAhead ==
  client.channel # Undefined =>
    /\ \A i \in 1 .. Len(wire[client.channel]) :
         IsSnapshot(client.channel, i) => view \subseteq 1 .. wire[client.channel][i].seq
    /\ /\ client.id = client.channel
       /\ \/ client.channel \notin served
          \/ \E i \in 1 .. Len(wire[client.channel]) : IsSnapshot(client.channel, i)
       => client.seq = -1

Typed ==
  /\ faults \in FaultSets
  /\ client.gen <= MaxGen /\ client.nextId <= MaxId + 1
  /\ wire \in [Ids -> Seq(Frames)]
  /\ hubSeq \in 0 .. MaxSeq
  /\ served \subseteq Ids

\* The inductive invariant: one request, resubscription or channel at a time gives
\* OneChannel; that ids are new and snapshots are sent once keeps the view.
IInv == Good(client) /\ Typed /\ WiresAreSent /\ ViewIsKnown /\ SnapshotIsAhead

\* The channel is one of the ids of the instance.
LEMMA ChannelIsId == IInv /\ client.channel # Undefined => client.channel \in Ids
<1> SUFFICES ASSUME IInv, client.channel # Undefined PROVE client.channel \in Ids
  OBVIOUS
<1>1. /\ client.channel \in Nat /\ client.nextId \in Nat /\ client.nextId <= MaxId + 1
      /\ client.channel < client.nextId
  BY DEF IInv, Good, Numbered, Unbounded, Typed
<1> QED
  BY <1>1, EntityBoundsAssumption DEF Ids, Undefined

LEMMA InitIInv == Init => IInv
<1> SUFFICES ASSUME Init PROVE IInv
  OBVIOUS
<1>1. client = [gen |-> 1, link |-> "connecting", generation |-> Undefined, id |-> Undefined,
                seq |-> -1, resubscribing |-> FALSE, channel |-> Undefined, ready |-> "none",
                closed |-> FALSE, nextId |-> 1, asked |-> Undefined, flights |-> {},
                open |-> {}, admitted |-> {}]
      /\ wire = [b \in Ids |-> <<>>] /\ hubSeq = 0 /\ served = {} /\ view = {}
      /\ faults \in FaultSets
  BY DEF Init
<1>2. client \in Unbounded
  BY <1>1 DEF Unbounded, Undefined, Links, Readies
<1>3. Numbered(client)
  BY <1>1 DEF Numbered, Undefined
<1>4. OneAtATime(client) /\ Unsequenced(client)
  BY <1>1 DEF OneAtATime, Unsequenced, Unsubscribing
<1>5. Typed
  <2>1. wire \in [Ids -> Seq(Frames)]
    BY <1>1
  <2> QED
    BY <1>1, <2>1, EntityBoundsAssumption DEF Typed
<1>6. WiresAreSent /\ SnapshotIsAhead
  BY <1>1 DEF WiresAreSent, SnapshotIsAhead
<1>7. ViewIsKnown
  <2>1. view = 1 .. 0 /\ 0 \in 0 .. hubSeq /\ client.seq = -1
    BY <1>1
  <2> QED
    BY <2>1 DEF ViewIsKnown
<1> QED
  BY <1>2, <1>3, <1>4, <1>5, <1>6, <1>7 DEF IInv, Good

\* The rest of a line of frames.
LEMMA TailOfLine ==
  ASSUME NEW q \in Seq(Frames), q # <<>>
  PROVE  /\ Tail(q) \in Seq(Frames) /\ Len(q) \in Nat /\ 1 <= Len(q)
         /\ Len(Tail(q)) = Len(q) - 1
         /\ \A i \in 1 .. Len(Tail(q)) : i + 1 \in 1 .. Len(q) /\ Tail(q)[i] = q[i + 1]
         /\ Head(q) = q[1] /\ q[1] \in Frames
OBVIOUS

\* A first frame may leave its line; a new request has a new id.
LEMMA LinesShorten ==
  ASSUME IInv, client' \in Unbounded, Later(client, client') \/ (client'.nextId = client.nextId /\ client'.asked = client.asked),
         UNCHANGED <<hubSeq, served>>,
         wire' = wire \/ \E b \in Ids : wire[b] # <<>> /\ wire' = [wire EXCEPT ![b] = Tail(@)]
  PROVE  /\ wire' \in [Ids -> Seq(Frames)]
         /\ \A b \in Ids : \E shift \in {0, 1} :
              \A i \in 1 .. Len(wire'[b]) : i + shift \in 1 .. Len(wire[b]) /\ wire'[b][i] = wire[b][i + shift]
         /\ WiresAreSent'
<1>0. /\ wire \in [Ids -> Seq(Frames)] /\ client \in Unbounded
      /\ client.nextId \in Nat /\ client'.nextId \in Nat
  BY DEF IInv, Typed, Good, Unbounded
<1>1. wire' \in [Ids -> Seq(Frames)]
  <2>1. ASSUME NEW b \in Ids, wire[b] # <<>>, wire' = [wire EXCEPT ![b] = Tail(@)]
        PROVE  wire' \in [Ids -> Seq(Frames)]
    <3>1. wire[b] \in Seq(Frames)
      BY <1>0
    <3>2. Tail(wire[b]) \in Seq(Frames)
      BY <2>1, <3>1, TailOfLine
    <3> QED
      BY <1>0, <2>1, <3>2
  <2> QED
    BY <1>0, <2>1
<1>3. \A b \in Ids : wire'[b] = wire[b] \/ (wire[b] # <<>> /\ wire'[b] = Tail(wire[b]))
  BY <1>0
<1>4. ASSUME NEW b \in Ids
      PROVE  \E shift \in {0, 1} :
               \A i \in 1 .. Len(wire'[b]) : i + shift \in 1 .. Len(wire[b]) /\ wire'[b][i] = wire[b][i + shift]
  <2>1. CASE wire'[b] = wire[b]
    <3>1. \A i \in 1 .. Len(wire'[b]) : i + 0 = i
      OBVIOUS
    <3> QED
      BY <2>1, <3>1
  <2>2. CASE wire[b] # <<>> /\ wire'[b] = Tail(wire[b])
    BY <1>0, <2>2, TailOfLine
  <2> QED
    BY <1>3, <2>1, <2>2
<1>5. \A b \in Ids : wire'[b] # <<>> => wire[b] # <<>>
  BY <1>0, <1>3
<1>6. WiresAreSent'
  <2> SUFFICES ASSUME NEW b \in Ids
               PROVE  /\ wire'[b] # <<>> \/ b \in served => b < client'.nextId /\ b # client'.asked
                      /\ \A i \in 1 .. Len(wire'[b]) :
                           /\ wire'[b][i].seq <= hubSeq
                           /\ wire'[b][i].type = "snapshot" => b \in served
                           /\ \A j \in 1 .. Len(wire'[b]) :
                                wire'[b][i].type = "snapshot" /\ wire'[b][j].type = "snapshot" => i = j
    BY DEF WiresAreSent, IsSnapshot
  <2>1. wire'[b] # <<>> \/ b \in served => b < client'.nextId /\ b # client'.asked
    <3>1. wire'[b] # <<>> \/ b \in served => b < client.nextId /\ b # client.asked
      BY <1>5 DEF IInv, WiresAreSent
    <3>2. b \in Nat /\ b # Undefined /\ client'.asked \in Nat
      BY <1>0, EntityBoundsAssumption DEF Ids, Undefined, Unbounded
    <3>3. client.nextId <= client'.nextId
      BY <1>0 DEF Later
    <3>4. client'.asked \in {Undefined, client.asked} \/ client.nextId <= client'.asked
      BY DEF Later
    <3> QED
      BY <1>0, <3>1, <3>2, <3>3, <3>4
  <2>2. PICK shift \in {0, 1} :
          \A i \in 1 .. Len(wire'[b]) : i + shift \in 1 .. Len(wire[b]) /\ wire'[b][i] = wire[b][i + shift]
    BY <1>4
  <2>3. \A i \in 1 .. Len(wire[b]) :
          /\ wire[b][i].seq <= hubSeq
          /\ wire[b][i].type = "snapshot" => b \in served
          /\ \A j \in 1 .. Len(wire[b]) :
               wire[b][i].type = "snapshot" /\ wire[b][j].type = "snapshot" => i = j
    BY DEF IInv, WiresAreSent, IsSnapshot
  <2>4. ASSUME NEW i \in 1 .. Len(wire'[b]), NEW j \in 1 .. Len(wire'[b]),
               wire'[b][i].type = "snapshot", wire'[b][j].type = "snapshot"
        PROVE  i = j
    <3>1. i + shift = j + shift
      BY <2>2, <2>3, <2>4
    <3> QED
      BY <3>1
  <2> QED
    BY <2>1, <2>2, <2>3, <2>4
<1> QED
  BY <1>1, <1>4, <1>6

\* A step of the client alone, that may take the first frame of a line.
LEMMA LaterStep ==
  ASSUME IInv, Good(client'), Later(client, client'),
         client'.gen <= MaxGen, client'.nextId <= MaxId + 1,
         UNCHANGED <<faults, hubSeq, served, view>>,
         wire' = wire \/ \E b \in Ids : wire[b] # <<>> /\ wire' = [wire EXCEPT ![b] = Tail(@)]
  PROVE  IInv'
<1>1. /\ wire' \in [Ids -> Seq(Frames)] /\ WiresAreSent'
      /\ \A b \in Ids : \E shift \in {0, 1} :
           \A i \in 1 .. Len(wire'[b]) : i + shift \in 1 .. Len(wire[b]) /\ wire'[b][i] = wire[b][i + shift]
  <2>1. client' \in Unbounded
    BY DEF Good
  <2> QED
    BY <2>1, LinesShorten
<1>2. Typed'
  BY <1>1 DEF IInv, Typed
<1>7. ViewIsKnown'
  BY DEF IInv, ViewIsKnown, Later
<1>8. SnapshotIsAhead'
  <2> SUFFICES ASSUME client'.channel # Undefined
               PROVE  SnapshotIsAhead'
    BY DEF SnapshotIsAhead
  <2> DEFINE b == client'.channel
  <2>1. b = client.channel /\ b \in Ids
    BY ChannelIsId DEF Later
  <2>2. PICK shift \in {0, 1} :
          \A i \in 1 .. Len(wire'[b]) : i + shift \in 1 .. Len(wire[b]) /\ wire'[b][i] = wire[b][i + shift]
    BY <1>1, <2>1
  <2>3. \A i \in 1 .. Len(wire'[b]) :
          wire'[b][i].type = "snapshot" => view' \subseteq 1 .. wire'[b][i].seq
    BY <2>1, <2>2 DEF IInv, SnapshotIsAhead, IsSnapshot
  <2>4. ASSUME client'.id = b,
               b \notin served \/ \E i \in 1 .. Len(wire'[b]) : wire'[b][i].type = "snapshot"
        PROVE  client'.seq = -1
    <3>1. client.id = b /\ client'.seq = client.seq
      BY <2>1, <2>4 DEF Later
    <3>2. b \notin served \/ \E i \in 1 .. Len(wire[b]) : wire[b][i].type = "snapshot"
      BY <2>2, <2>4
    <3> QED
      BY <2>1, <3>1, <3>2 DEF IInv, SnapshotIsAhead, IsSnapshot
  <2> QED
    BY <2>3, <2>4 DEF SnapshotIsAhead, IsSnapshot
<1> QED
  BY <1>1, <1>2, <1>7, <1>8 DEF IInv

\* What the Hub sends is of now, on an open channel, and its snapshot the only one.
LEMMA HubStep ==
  ASSUME IInv, UNCHANGED <<faults, client, view>>,
         wire' \in [Ids -> Seq(Frames)], hubSeq' \in 0 .. MaxSeq, hubSeq <= hubSeq',
         served' \in SUBSET Ids, served \subseteq served', served' \subseteq served \cup client.open,
         \A b \in Ids : \/ wire'[b] = wire[b]
                        \/ /\ b \in client.open
                           /\ \E x \in Frames : /\ wire'[b] = Append(wire[b], x) /\ x.seq = hubSeq'
                                                /\ x.type = "snapshot" => b \notin served /\ b \in served'
  PROVE  IInv'
<1>0. /\ wire \in [Ids -> Seq(Frames)] /\ client \in Unbounded /\ hubSeq \in Nat /\ hubSeq' \in Nat
      /\ client.nextId \in Nat /\ \A b \in Ids : Len(wire[b]) \in Nat
  BY EntityBoundsAssumption DEF IInv, Typed, Good, Unbounded
<1>1. Typed'
  BY DEF IInv, Typed
<1>2. \A b \in Ids : b \in client.open => b = client.channel /\ b < client.nextId /\ b # client.asked
  BY EntityBoundsAssumption DEF IInv, Good, OneAtATime, Numbered, Ids, Undefined
<1>3. ASSUME NEW b \in Ids, NEW i \in 1 .. Len(wire'[b])
      PROVE  \/ i \in 1 .. Len(wire[b]) /\ wire'[b][i] = wire[b][i]
             \/ /\ i = Len(wire[b]) + 1 /\ wire'[b][i].seq = hubSeq' /\ b \in client.open
                /\ wire'[b][i].type = "snapshot" => b \notin served /\ b \in served'
  <2>1. CASE wire'[b] = wire[b]
    BY <2>1
  <2>2. ASSUME NEW x \in Frames, wire'[b] = Append(wire[b], x), x.seq = hubSeq', b \in client.open,
               x.type = "snapshot" => b \notin served /\ b \in served'
        PROVE  \/ i \in 1 .. Len(wire[b]) /\ wire'[b][i] = wire[b][i]
               \/ /\ i = Len(wire[b]) + 1 /\ wire'[b][i].seq = hubSeq' /\ b \in client.open
                  /\ wire'[b][i].type = "snapshot" => b \notin served /\ b \in served'
    <3>1. Len(wire'[b]) = Len(wire[b]) + 1
      BY <1>0, <2>2
    <3>2. i \in 1 .. Len(wire[b]) => wire'[b][i] = wire[b][i]
      BY <1>0, <2>2
    <3>3. i = Len(wire[b]) + 1 => wire'[b][i] = x
      BY <1>0, <2>2
    <3>4. i \in 1 .. Len(wire[b]) \/ i = Len(wire[b]) + 1
      BY <1>0, <3>1
    <3> QED
      BY <2>2, <3>2, <3>3, <3>4
  <2> QED
    BY <2>1, <2>2
<1>4. WiresAreSent'
  <2> SUFFICES ASSUME NEW b \in Ids
               PROVE  /\ wire'[b] # <<>> \/ b \in served' => b < client.nextId /\ b # client.asked
                      /\ \A i \in 1 .. Len(wire'[b]) :
                           /\ wire'[b][i].seq <= hubSeq'
                           /\ wire'[b][i].type = "snapshot" => b \in served'
                           /\ \A j \in 1 .. Len(wire'[b]) :
                                wire'[b][i].type = "snapshot" /\ wire'[b][j].type = "snapshot" => i = j
    BY DEF WiresAreSent, IsSnapshot
  <2>1. /\ wire[b] # <<>> \/ b \in served => b < client.nextId /\ b # client.asked
        /\ \A i \in 1 .. Len(wire[b]) :
             /\ wire[b][i].seq <= hubSeq
             /\ wire[b][i].type = "snapshot" => b \in served
             /\ \A j \in 1 .. Len(wire[b]) :
                  wire[b][i].type = "snapshot" /\ wire[b][j].type = "snapshot" => i = j
    BY DEF IInv, WiresAreSent, IsSnapshot
  <2>2. wire'[b] # <<>> \/ b \in served' => b < client.nextId /\ b # client.asked
    BY <1>2, <2>1
  <2>3. ASSUME NEW i \in 1 .. Len(wire'[b])
        PROVE  wire'[b][i].seq <= hubSeq' /\ (wire'[b][i].type = "snapshot" => b \in served')
    <3>1. CASE i \in 1 .. Len(wire[b]) /\ wire'[b][i] = wire[b][i]
      <4>1. wire[b][i] \in Frames
        BY <1>0, <3>1
      <4>2. wire[b][i].seq \in Nat
        BY <4>1, EntityBoundsAssumption DEF Frames
      <4> QED
        BY <1>0, <2>1, <3>1, <4>2
    <3> QED
      BY <1>0, <1>3, <3>1
  <2>4. ASSUME NEW i \in 1 .. Len(wire'[b]), NEW j \in 1 .. Len(wire'[b]),
               wire'[b][i].type = "snapshot", wire'[b][j].type = "snapshot"
        PROVE  i = j
    BY <1>3, <2>1, <2>4
  <2> QED
    BY <2>2, <2>3, <2>4
<1>5. ViewIsKnown'
  <2>1. PICK n \in 0 .. hubSeq : view = 1 .. n
    BY DEF IInv, ViewIsKnown
  <2>2. n \in 0 .. hubSeq' /\ view' = 1 .. n
    BY <1>0, <2>1
  <2>3. client'.seq # -1 => client'.seq \in 0 .. hubSeq /\ view' = 1 .. client'.seq
    BY DEF IInv, ViewIsKnown
  <2>4. 0 .. hubSeq \subseteq 0 .. hubSeq'
    BY <1>0
  <2>5. client'.seq # -1 => client'.seq \in 0 .. hubSeq' /\ view' = 1 .. client'.seq
    BY <2>3, <2>4, Zenon
  <2> QED
    BY <2>2, <2>5 DEF ViewIsKnown
<1>6. SnapshotIsAhead'
  <2> SUFFICES ASSUME client.channel # Undefined
               PROVE  SnapshotIsAhead'
    BY DEF SnapshotIsAhead
  <2> DEFINE b == client.channel
  <2>1. b \in Ids
    BY ChannelIsId
  <2>2. /\ \A i \in 1 .. Len(wire[b]) : wire[b][i].type = "snapshot" => view \subseteq 1 .. wire[b][i].seq
        /\ client.id = b /\ (b \notin served \/ \E i \in 1 .. Len(wire[b]) : wire[b][i].type = "snapshot")
           => client.seq = -1
    BY DEF IInv, SnapshotIsAhead, IsSnapshot
  <2>3. view \subseteq 1 .. hubSeq'
    BY <1>0 DEF IInv, ViewIsKnown
  <2> HIDE DEF b
  <2>4. \A i \in 1 .. Len(wire'[b]) : wire'[b][i].type = "snapshot" => view \subseteq 1 .. wire'[b][i].seq
    BY <1>3, <2>1, <2>2, <2>3
  <2>5. client.id = b /\ (b \notin served' \/ \E i \in 1 .. Len(wire'[b]) : wire'[b][i].type = "snapshot")
        => client.seq = -1
    BY <1>3, <2>1, <2>2
  <2> QED
    BY <2>4, <2>5 DEF SnapshotIsAhead, IsSnapshot, b
<1> QED
  BY <1>1, <1>4, <1>5, <1>6 DEF IInv

LEMMA HubPreserves ==
  ASSUME IInv, HubChange \/ HubSkips \/ \E b \in Ids : HubSnapshot(b) \/ HubEarlyDelta(b)
  PROVE  IInv' /\ view' = view
<1>0. /\ wire \in [Ids -> Seq(Frames)] /\ hubSeq \in 0 .. MaxSeq /\ hubSeq \in Nat /\ served \in SUBSET Ids
      /\ MaxSeq \in Nat
  BY EntityBoundsAssumption DEF IInv, Typed
<1>1. ASSUME NEW b \in Ids, HubSnapshot(b) PROVE IInv' /\ view' = view
  <2> DEFINE x == [type |-> "snapshot", seq |-> hubSeq]
  <2>1. /\ b \in client.open /\ b \notin served /\ served' = served \cup {b}
        /\ wire' = [wire EXCEPT ![b] = Append(@, x)]
        /\ UNCHANGED <<faults, client, hubSeq, view>>
    BY <1>1 DEF HubSnapshot, HubSends
  <2>2. x \in Frames /\ x.type = "snapshot" /\ x.seq = hubSeq
    BY <1>0 DEF Frames
  <2> HIDE DEF x
  <2>3. wire' \in [Ids -> Seq(Frames)]
    BY <1>0, <2>1, <2>2
  <2>4. \A a \in Ids : wire'[a] = wire[a] \/ (a = b /\ wire'[a] = Append(wire[a], x))
    BY <1>0, <2>1
  <2> QED
    BY <1>0, <2>1, <2>2, <2>3, <2>4, HubStep
<1>2. ASSUME NEW b \in Ids, HubEarlyDelta(b) PROVE IInv' /\ view' = view
  <2> DEFINE x == [type |-> "delta", seq |-> hubSeq + 1]
  <2>1. /\ b \in client.open /\ hubSeq < MaxSeq /\ hubSeq' = hubSeq + 1
        /\ wire' = [wire EXCEPT ![b] = Append(@, x)]
        /\ UNCHANGED <<faults, client, served, view>>
    BY <1>2 DEF HubEarlyDelta, HubSends
  <2>2. x \in Frames /\ x.type # "snapshot" /\ x.seq = hubSeq'
    BY <1>0, <2>1 DEF Frames
  <2> HIDE DEF x
  <2>3. wire' \in [Ids -> Seq(Frames)]
    BY <1>0, <2>1, <2>2
  <2>4. \A a \in Ids : wire'[a] = wire[a] \/ (a = b /\ wire'[a] = Append(wire[a], x))
    BY <1>0, <2>1
  <2> QED
    BY <1>0, <2>1, <2>2, <2>3, <2>4, HubStep
<1>3. CASE HubChange
  <2> DEFINE x == [type |-> "delta", seq |-> hubSeq + 1]
  <2>1. /\ hubSeq < MaxSeq /\ hubSeq' = hubSeq + 1
        /\ wire' = [b \in Ids |-> IF b \in served \cap client.open THEN Append(wire[b], x) ELSE wire[b]]
        /\ UNCHANGED <<faults, client, served, view>>
    BY <1>3 DEF HubChange
  <2>2. x \in Frames /\ x.type # "snapshot" /\ x.seq = hubSeq'
    BY <1>0, <2>1 DEF Frames
  <2> HIDE DEF x
  <2>3. wire' \in [Ids -> Seq(Frames)]
    BY <1>0, <2>1, <2>2
  <2>4. \A a \in Ids : wire'[a] = wire[a] \/ (a \in client.open /\ wire'[a] = Append(wire[a], x))
    BY <1>0, <2>1
  <2> QED
    BY <1>0, <2>1, <2>2, <2>3, <2>4, HubStep
<1>4. CASE HubSkips
  <2>1. hubSeq < MaxSeq /\ hubSeq' = hubSeq + 1 /\ UNCHANGED <<faults, client, wire, served, view>>
    BY <1>4 DEF HubSkips
  <2> QED
    BY <1>0, <2>1, HubStep
<1> QED
  BY <1>1, <1>2, <1>3, <1>4

\* A frame that is accepted: the next change, or a snapshot no older than the view.
LEMMA AcceptPreserves ==
  ASSUME IInv, NEW b \in Ids, Receive(b), IsCurrentBinding(client, b), Accepts(client, Head(wire[b]))
  PROVE  IInv' /\ view \subseteq view'
<1> DEFINE f == Head(wire[b])
<1>0. /\ wire[b] \in Seq(Frames) /\ wire[b] # <<>> /\ wire' = [wire EXCEPT ![b] = Tail(@)]
      /\ UNCHANGED <<faults, hubSeq, served>>
      /\ client'.gen <= MaxGen /\ client'.nextId <= MaxId + 1
      /\ IF f.type = "snapshot" THEN client' = Settle([client EXCEPT !.seq = f.seq], "resolved")
                                ELSE client' = [client EXCEPT !.seq = f.seq]
      /\ view' = IF f.type = "snapshot" THEN 1 .. f.seq ELSE view \cup {f.seq}
  BY DEF Receive, Becomes, IInv, Typed
<1>1. /\ f \in Frames /\ f = wire[b][1] /\ 1 \in 1 .. Len(wire[b]) /\ f.seq \in Nat
      /\ f.type = "snapshot" \/ (client.seq # -1 /\ f.seq = client.seq + 1)
  <2>1. f \in Frames /\ f = wire[b][1] /\ 1 \in 1 .. Len(wire[b])
    BY <1>0, TailOfLine
  <2>2. f.seq \in Nat
    BY <2>1, EntityBoundsAssumption DEF Frames
  <2> QED
    BY <2>1, <2>2 DEF Accepts
<1>2. /\ client.channel = b /\ client.id = b /\ client \in Unbounded /\ client.asked = Undefined
      /\ b # Undefined
  BY DEF IsCurrentBinding, IInv, Good, OneAtATime, Ids, Undefined
<1> HIDE DEF f
<1>3. Good(client') /\ client'.nextId = client.nextId /\ client'.asked = client.asked
      /\ client'.channel = b /\ client'.seq = f.seq
  <2> DEFINE d == [client EXCEPT !.seq = f.seq]
  <2>1. f.seq \in Int
    BY <1>1
  <2>2. d \in Unbounded
    BY <1>2, <2>1, Zenon DEF Unbounded
  <2>3. /\ d.gen = client.gen /\ d.generation = client.generation /\ d.id = client.id /\ d.seq = f.seq
        /\ d.nextId = client.nextId /\ d.channel = client.channel /\ d.open = client.open
        /\ d.asked = client.asked /\ d.flights = client.flights /\ d.link = client.link
    BY <1>2, SMT DEF Unbounded
  <2> HIDE DEF d
  <2>4. Numbered(d) /\ Unsequenced(d)
    BY <1>2, <2>3 DEF IInv, Good, Numbered, Unsequenced
  <2>5. Unsubscribing(d) = Unsubscribing(client)
    BY <2>3 DEF Unsubscribing
  <2>6. OneAtATime(d)
    BY <2>3, <2>5 DEF IInv, Good, OneAtATime
  <2>7. Good(d)
    BY <2>2, <2>4, <2>6 DEF Good
  <2> DEFINE e == Settle(d, "resolved")
  <2>8. Good(e)
    BY <2>7, SettleIsGood DEF Readies
  <2>9. e.nextId = d.nextId /\ e.asked = d.asked /\ e.channel = d.channel /\ e.seq = d.seq
    BY <2>2, SMT DEF Settle, Unbounded
  <2> QED
    BY <1>0, <1>2, <2>3, <2>7, <2>8, <2>9 DEF d
<1>4. /\ wire' \in [Ids -> Seq(Frames)] /\ WiresAreSent'
      /\ \E shift \in {0, 1} :
           \A i \in 1 .. Len(wire'[b]) : i + shift \in 1 .. Len(wire[b]) /\ wire'[b][i] = wire[b][i + shift]
  <2>1. client' \in Unbounded
    BY <1>3 DEF Good
  <2> QED
    BY <1>0, <1>3, <2>1, LinesShorten
<1>5. Typed'
  BY <1>0, <1>4 DEF IInv, Typed
<1>6. f.seq <= hubSeq /\ hubSeq \in Nat /\ (f.type = "snapshot" => b \in served)
  BY <1>1, EntityBoundsAssumption DEF IInv, Typed, WiresAreSent, IsSnapshot
<1>7. view' = 1 .. f.seq /\ view \subseteq view'
  <2>1. CASE f.type = "snapshot"
    <3>1. view \subseteq 1 .. f.seq
      BY <1>1, <1>2, <2>1 DEF IInv, SnapshotIsAhead, IsSnapshot
    <3> QED
      BY <1>0, <2>1, <3>1
  <2>2. CASE f.type # "snapshot"
    <3>1. client.seq \in 0 .. hubSeq /\ view = 1 .. client.seq /\ f.seq = client.seq + 1
      BY <1>1, <2>2 DEF IInv, ViewIsKnown
    <3>2. view' = view \cup {f.seq}
      BY <1>0, <2>2
    <3> QED
      BY <1>6, <3>1, <3>2
  <2> QED
    BY <2>1, <2>2
<1>8. ViewIsKnown'
  <2>1. f.seq \in 0 .. hubSeq' /\ hubSeq' = hubSeq
    BY <1>0, <1>1, <1>6
  <2>2. view' = 1 .. f.seq /\ client'.seq = f.seq
    BY <1>3, <1>7
  <2> QED
    BY <2>1, <2>2 DEF ViewIsKnown
<1>9. b \in served /\ \A i \in 1 .. Len(wire'[b]) : wire'[b][i].type # "snapshot"
  <2>0. /\ Tail(wire[b]) = wire'[b] /\ Len(wire[b]) \in Nat
        /\ \A i \in 1 .. Len(wire'[b]) : i + 1 \in 1 .. Len(wire[b]) /\ wire'[b][i] = wire[b][i + 1]
    <3>1. wire \in [Ids -> Seq(Frames)]
      BY DEF IInv, Typed
    <3>2. Tail(wire[b]) = wire'[b]
      BY <1>0, <3>1
    <3> QED
      BY <1>0, <3>2, TailOfLine
  <2>1. CASE f.type = "snapshot"
    <3>1. \A j \in 1 .. Len(wire[b]) : wire[b][j].type = "snapshot" => j = 1
      BY <1>1, <2>1 DEF IInv, WiresAreSent, IsSnapshot
    <3>2. \A i \in 1 .. Len(wire'[b]) : i + 1 # 1
      OBVIOUS
    <3> QED
      BY <1>6, <2>0, <2>1, <3>1, <3>2
  <2>2. CASE f.type # "snapshot"
    <3>1. client.seq # -1
      BY <1>1, <2>2
    <3>2. b \in served /\ \A i \in 1 .. Len(wire[b]) : wire[b][i].type # "snapshot"
      BY <1>2, <3>1 DEF IInv, SnapshotIsAhead, IsSnapshot
    <3> QED
      BY <2>0, <3>2
  <2> QED
    BY <2>1, <2>2
<1>10. SnapshotIsAhead'
  BY <1>0, <1>3, <1>9 DEF SnapshotIsAhead, IsSnapshot
<1> QED
  BY <1>3, <1>4, <1>5, <1>7, <1>8, <1>10 DEF IInv

\* A step of the client alone that leaves it good is one of the cases of LaterStep.
LEMMA MoveIsLater ==
  ASSUME IInv, NEW c, Good(c), Later(client, c), Becomes(c), Others
  PROVE  IInv' /\ view' = view
<1>1. /\ client' = c /\ client'.gen <= MaxGen /\ client'.nextId <= MaxId + 1
      /\ UNCHANGED <<faults, hubSeq, served, view>> /\ wire' = wire
  BY DEF Becomes, Others
<1>2. Good(client') /\ Later(client, client')
  BY <1>1
<1> QED
  BY <1>1, <1>2, LaterStep

LEMMA PeerPreserves ==
  ASSUME IInv, PeerConnects \/ PeerLost \/ Recover \/ ChannelCloses
  PROVE  IInv' /\ view' = view
<1>0. /\ Good(client) /\ client \in Unbounded /\ client.gen \in Nat /\ client.nextId \in Nat
      /\ 1 <= client.nextId /\ \A f \in client.flights : f.gen <= client.gen /\ f.via <= client.gen
  BY DEF IInv, Good, Unbounded, Numbered
<1>1. CASE PeerConnects
  <2> DEFINE c == [client EXCEPT !.link = "open"]
             d == Start(c, client.gen)
  <2>1. client.link = "connecting" /\ Becomes(d) /\ Others
    BY <1>1 DEF PeerConnects
  <2>2. /\ c \in Unbounded /\ c.gen = client.gen /\ c.generation = client.generation
        /\ c.id = client.id /\ c.seq = client.seq /\ c.nextId = client.nextId
        /\ c.channel = client.channel /\ c.open = client.open /\ c.asked = client.asked
        /\ c.flights = client.flights /\ c.link = "open"
    BY <1>0 DEF Unbounded, Links
  <2> HIDE DEF c
  <2>3. Good(c) /\ Later(client, c)
    BY <1>0, <2>2, SameIsGood
  <2>4. Unsubscribing(c) = Unsubscribing(client)
    BY <2>2 DEF Unsubscribing
  <2>5. c.channel = Undefined /\ c.asked = Undefined /\ Unsubscribing(c) = {}
    BY <1>0, <2>1, <2>2, <2>4 DEF Good, OneAtATime
  <2>6. Good(d) /\ Later(c, d)
    BY <1>0, <2>2, <2>3, <2>5, StartIsGood
  <2> HIDE DEF d
  <2>7. Later(client, d)
    BY <1>0, <2>2, <2>3, <2>6, LaterIsTransitive DEF Good
  <2> QED
    BY <2>1, <2>6, <2>7, MoveIsLater
<1>2. CASE PeerLost
  <2> DEFINE d == [ResetPeer(client) EXCEPT !.link = "down"]
  <2>1. Becomes(d) /\ Others
    BY <1>2 DEF PeerLost
  <2>2. Good(d) /\ Later(client, d)
    BY <1>0, ResetIsGood
  <2> HIDE DEF d
  <2> QED
    BY <2>1, <2>2, MoveIsLater
<1>3. CASE Recover
  <2> DEFINE d == StartAttempt(client)
  <2>1. Becomes(d) /\ Others
    BY <1>3 DEF Recover
  <2>2. /\ Good(d) /\ d.gen = client.gen + 1 /\ d.id = Undefined /\ d.seq = -1
        /\ d.nextId = client.nextId /\ d.asked = Undefined /\ d.channel = Undefined
    BY <1>0, AttemptIsGood
  <2> HIDE DEF d
  <2>3. Later(client, d)
    BY <1>0, <2>2 DEF Later
  <2> QED
    BY <2>1, <2>2, <2>3, MoveIsLater
<1>4. CASE ChannelCloses
  <2> DEFINE d == [client EXCEPT !.link = "closing"]
  <2>1. Becomes(d) /\ Others
    BY <1>4 DEF ChannelCloses
  <2>2. /\ d \in Unbounded /\ d.gen = client.gen /\ d.generation = client.generation
        /\ d.id = client.id /\ d.seq = client.seq /\ d.nextId = client.nextId
        /\ d.channel = client.channel /\ d.open = client.open /\ d.asked = client.asked
        /\ d.flights = client.flights /\ d.link = "closing"
    BY <1>0 DEF Unbounded, Links
  <2> HIDE DEF d
  <2>3. Good(d) /\ Later(client, d)
    BY <1>0, <2>2, SameIsGood
  <2> QED
    BY <2>1, <2>3, MoveIsLater
<1> QED
  BY <1>1, <1>2, <1>3, <1>4

\* The channel of a reservation opens for a request whose identity is still there: no
\* other is open, and the Hub has sent nothing on it yet.
LEMMA AnsweredPreserves ==
  ASSUME IInv, SubscribeAnswered
  PROVE  IInv' /\ view' = view
<1> DEFINE b == client.asked
           answered == [client EXCEPT !.asked = Undefined]
           d == [answered EXCEPT !.open = @ \cup {b}, !.channel = b]
<1>0. /\ Good(client) /\ client \in Unbounded /\ b # Undefined /\ b \in Nat /\ b < client.nextId
      /\ client.nextId \in Nat /\ client.nextId <= MaxId + 1 /\ client.link = "open"
      /\ UNCHANGED <<faults, wire, hubSeq, served, view>>
  BY DEF IInv, Good, Unbounded, Numbered, Typed, SubscribeAnswered, Others
<1>1. /\ client'.gen <= MaxGen /\ client'.nextId <= MaxId + 1
      /\ client' = IF client.closed \/ client.id # b THEN answered ELSE d
  BY DEF SubscribeAnswered, Becomes
<1>2. /\ answered \in Unbounded /\ answered.gen = client.gen /\ answered.link = client.link
      /\ answered.generation = client.generation /\ answered.id = client.id
      /\ answered.seq = client.seq /\ answered.nextId = client.nextId
      /\ answered.channel = client.channel /\ answered.open = client.open
      /\ answered.asked = Undefined /\ answered.flights = client.flights
  BY <1>0 DEF Unbounded, Undefined
<1> HIDE DEF answered
<1>3. CASE client.closed \/ client.id # b
  <2>1. Good(answered) /\ Later(client, answered)
    BY <1>0, <1>2, SameIsGood
  <2>2. client' = answered /\ Others
    BY <1>0, <1>1, <1>3 DEF Others
  <2> QED
    BY <1>1, <2>1, <2>2, MoveIsLater DEF Becomes
<1>4. CASE ~(client.closed \/ client.id # b)
  <2>1. client.open = {} /\ client.id = b /\ client.seq = -1 /\ Unsubscribing(client) = {}
    BY <1>0, <1>4 DEF Good, OneAtATime, Unsequenced
  <2>m. d \in Unbounded
    <3>1. answered.open \cup {b} \in SUBSET Nat
      BY <1>0, <1>2, <2>1
    <3> QED
      BY <1>0, <1>2, <3>1, Zenon DEF Unbounded
  <2>2. /\ d.gen = client.gen /\ d.link = "open" /\ d.generation = client.generation
        /\ d.id = b /\ d.seq = -1 /\ d.nextId = client.nextId /\ d.channel = b
        /\ d.open = {b} /\ d.asked = Undefined /\ d.flights = client.flights
    BY <1>0, <1>2, <2>1 DEF Unbounded
  <2> HIDE DEF d
  <2>3. Unsubscribing(d) = {}
    BY <2>1, <2>2 DEF Unsubscribing
  <2>4. OneAtATime(d) /\ Unsequenced(d)
    BY <1>0, <2>2, <2>3 DEF OneAtATime, Unsequenced
  <2>5. Numbered(d)
    BY <1>0, <2>2 DEF Good, Numbered, Undefined
  <2>6. client' = d /\ Good(client')
    BY <1>1, <1>4, <2>m, <2>4, <2>5 DEF Good
  <2> HIDE DEF b
  <2>7. b \in Ids /\ wire[b] = <<>> /\ b \notin served
    <3>1. b \in Ids
      BY <1>0, EntityBoundsAssumption DEF Ids, Undefined
    <3> QED
      BY <3>1 DEF IInv, WiresAreSent, b
  <2>8. Typed'
    BY <1>0, <1>1 DEF IInv, Typed
  <2>9. WiresAreSent'
    <3>1. \A a \in Ids : a # Undefined
      BY DEF Ids, Undefined
    <3> QED
      BY <1>0, <2>2, <2>6, <3>1 DEF IInv, WiresAreSent, IsSnapshot
  <2>10. ViewIsKnown'
    BY <1>0, <2>2, <2>6 DEF IInv, ViewIsKnown
  <2>11. SnapshotIsAhead'
    BY <1>0, <2>2, <2>6, <2>7 DEF SnapshotIsAhead, IsSnapshot
  <2> QED
    BY <1>0, <2>6, <2>8, <2>9, <2>10, <2>11 DEF IInv
<1> QED
  BY <1>3, <1>4

\* A refused request or channel, and a channel the Hub admits.
LEMMA ChannelPreserves ==
  ASSUME IInv, SubscribeFails \/ \E b \in Ids : ChannelAdmitted(b) \/ ChannelRefused(b) \/ ChannelLost(b)
  PROVE  IInv' /\ view' = view
<1>0. Good(client) /\ client \in Unbounded /\ "rejected" \in Readies /\ client.link \in Links
  BY DEF IInv, Good, Unbounded, Readies
<1>1. CASE SubscribeFails
  <2> DEFINE failed == [client EXCEPT !.asked = Undefined]
             d == IF client.id = client.asked THEN Settle(failed, "rejected") ELSE failed
  <2>1. Becomes(d) /\ Others
    BY <1>1 DEF SubscribeFails
  <2>2. /\ failed \in Unbounded /\ failed.gen = client.gen /\ failed.link = client.link
        /\ failed.generation = client.generation /\ failed.id = client.id
        /\ failed.seq = client.seq /\ failed.nextId = client.nextId
        /\ failed.channel = client.channel /\ failed.open = client.open
        /\ failed.asked = Undefined /\ failed.flights = client.flights
    BY <1>0 DEF Unbounded, Undefined
  <2> HIDE DEF failed
  <2>3. Good(failed) /\ Later(client, failed)
    BY <1>0, <2>2, SameIsGood
  <2>4. Good(Settle(failed, "rejected")) /\ Later(failed, Settle(failed, "rejected"))
    BY <1>0, <2>3, SettleIsGood
  <2>5. Later(client, Settle(failed, "rejected"))
    BY <1>0, <2>2, <2>3, <2>4, LaterIsTransitive DEF Good
  <2>6. Good(d) /\ Later(client, d)
    BY <2>3, <2>4, <2>5
  <2> HIDE DEF d
  <2> QED
    BY <2>1, <2>6, MoveIsLater
<1>2. ASSUME NEW b \in Ids, ChannelAdmitted(b) PROVE IInv' /\ view' = view
  <2> DEFINE d == [client EXCEPT !.admitted = @ \cup {b}]
  <2>1. Becomes(d) /\ Others
    BY <1>2 DEF ChannelAdmitted
  <2>2. /\ d \in Unbounded /\ d.gen = client.gen /\ d.generation = client.generation
        /\ d.id = client.id /\ d.seq = client.seq /\ d.nextId = client.nextId
        /\ d.channel = client.channel /\ d.open = client.open /\ d.asked = client.asked
        /\ d.flights = client.flights /\ d.link = client.link
    BY <1>0 DEF Unbounded
  <2> HIDE DEF d
  <2>3. Good(d) /\ Later(client, d)
    BY <1>0, <2>2, SameIsGood
  <2> QED
    BY <2>1, <2>3, MoveIsLater
<1>3. ASSUME NEW b \in client.open PROVE b = client.channel /\ client.channel # Undefined
  BY <1>0 DEF Good, OneAtATime
<1> DEFINE lost == CloseChannel(client, client.channel)
<1>4. /\ Good(lost) /\ lost.channel = Undefined /\ lost.asked = client.asked
      /\ lost.gen = client.gen /\ lost.link = client.link /\ lost.flights = client.flights
      /\ Later(client, lost)
  BY <1>0, CloseIsGood
<1> HIDE DEF lost
<1>5. lost \in Unbounded
  BY <1>4 DEF Good
<1>6. ASSUME NEW b \in Ids, ChannelRefused(b) PROVE IInv' /\ view' = view
  <2> DEFINE d == IF client.id = b THEN Settle(lost, "rejected") ELSE lost
  <2>1. b = client.channel
    BY <1>3, <1>6 DEF ChannelRefused
  <2>2. Becomes(d) /\ Others
    BY <1>6, <2>1 DEF ChannelRefused, lost
  <2>3. Good(Settle(lost, "rejected")) /\ Later(lost, Settle(lost, "rejected"))
    BY <1>0, <1>4, SettleIsGood
  <2>4. Later(client, Settle(lost, "rejected"))
    BY <1>0, <1>4, <1>5, <2>3, LaterIsTransitive DEF Good
  <2>5. Good(d) /\ Later(client, d)
    BY <1>4, <2>3, <2>4
  <2> HIDE DEF d
  <2> QED
    BY <2>2, <2>5, MoveIsLater
<1>7. ASSUME NEW b \in Ids, ChannelLost(b) PROVE IInv' /\ view' = view
  <2> DEFINE r == Resubscribe(lost, lost.gen)
             d == IF IsCurrentBinding(client, b) THEN r ELSE lost
  <2>1. b = client.channel /\ client.channel # Undefined
    BY <1>3, <1>7 DEF ChannelLost
  <2>2. Becomes(d) /\ Others
    BY <1>4, <1>7, <2>1 DEF ChannelLost, lost
  <2>3. Unsubscribing(lost) = Unsubscribing(client)
    BY <1>4 DEF Unsubscribing
  <2>4. lost.asked = Undefined /\ lost.link \in {"open", "closing"} /\ Unsubscribing(lost) = {}
    BY <1>0, <1>4, <2>1, <2>3 DEF Good, OneAtATime, Links
  <2>5. Good(r) /\ Later(lost, r)
    BY <1>4, <2>4, ResubscribeIsGood
  <2> HIDE DEF r
  <2>6. Later(client, r)
    BY <1>0, <1>4, <1>5, <2>5, LaterIsTransitive DEF Good
  <2>7. Good(d) /\ Later(client, d)
    BY <1>4, <2>5, <2>6
  <2> HIDE DEF d
  <2> QED
    BY <2>2, <2>7, MoveIsLater
<1> QED
  BY <1>1, <1>2, <1>6, <1>7

\* The two awaits of a resubscription, and the end of the subscription.
LEMMA CallPreserves ==
  ASSUME IInv, Unsubscribe \/ \E f \in Flights : UnsubscribeSettles(f) \/ ReadySettles(f)
  PROVE  IInv' /\ view' = view
<1>0. Good(client) /\ client \in Unbounded
  BY DEF IInv, Good
<1>1. ASSUME NEW f \in Flights, UnsubscribeSettles(f) PROVE IInv' /\ view' = view
  <2>1. f \in client.flights /\ f.at = "unsubscribe" /\ Becomes(Resume(client, f)) /\ Others
    BY <1>1 DEF UnsubscribeSettles
  <2>2. Good(Resume(client, f)) /\ Later(client, Resume(client, f))
    BY <1>0, <2>1, ResumeIsGood
  <2> QED
    BY <2>1, <2>2, MoveIsLater
<1>2. ASSUME NEW f \in Flights, ReadySettles(f) PROVE IInv' /\ view' = view
  <2> DEFINE d == [client EXCEPT !.flights = @ \ {f}, !.resubscribing = FALSE]
  <2>1. Becomes(d) /\ Others
    BY <1>2 DEF ReadySettles
  <2>2. /\ d \in Unbounded /\ d.gen = client.gen /\ d.generation = client.generation
        /\ d.id = client.id /\ d.seq = client.seq /\ d.nextId = client.nextId
        /\ d.channel = client.channel /\ d.open = client.open /\ d.asked = client.asked
        /\ d.flights \in SUBSET client.flights /\ d.link = client.link
    BY <1>0 DEF Unbounded
  <2> HIDE DEF d
  <2>3. Good(d) /\ Later(client, d)
    BY <1>0, <2>2, SameIsGood
  <2> QED
    BY <2>1, <2>3, MoveIsLater
<1>3. CASE Unsubscribe
  <2> DEFINE c == [client EXCEPT !.closed = TRUE]
             e == CloseChannel(c, c.channel)
             d == IF client.channel = Undefined THEN c ELSE e
  <2>1. /\ c \in Unbounded /\ c.gen = client.gen /\ c.generation = client.generation
        /\ c.id = client.id /\ c.seq = client.seq /\ c.nextId = client.nextId
        /\ c.channel = client.channel /\ c.open = client.open /\ c.asked = client.asked
        /\ c.flights = client.flights /\ c.link = client.link
    BY <1>0 DEF Unbounded
  <2>2. Becomes(d) /\ Others
    BY <1>3, <2>1 DEF Unsubscribe
  <2> HIDE DEF c
  <2>3. Good(c) /\ Later(client, c)
    BY <1>0, <2>1, SameIsGood
  <2>4. Good(e) /\ Later(c, e)
    BY <2>3, CloseIsGood
  <2> HIDE DEF e
  <2>5. Later(client, e)
    BY <1>0, <2>1, <2>3, <2>4, LaterIsTransitive DEF Good
  <2>6. Good(d) /\ Later(client, d)
    BY <2>3, <2>4, <2>5
  <2> HIDE DEF d
  <2> QED
    BY <2>2, <2>6, MoveIsLater
<1> QED
  BY <1>1, <1>2, <1>3

\* A frame that is discarded, or that forces resubscription, tells the listener nothing.
LEMMA RejectPreserves ==
  ASSUME IInv, NEW b \in Ids, Receive(b),
         ~IsCurrentBinding(client, b) \/ ~Accepts(client, Head(wire[b]))
  PROVE  IInv' /\ view' = view
<1>0. /\ Good(client) /\ client \in Unbounded /\ wire[b] # <<>>
      /\ wire' = [wire EXCEPT ![b] = Tail(@)] /\ UNCHANGED <<faults, hubSeq, served>>
      /\ client.gen <= MaxGen /\ client.nextId <= MaxId + 1 /\ client.nextId \in Nat
  BY DEF IInv, Good, Unbounded, Typed, Receive
<1>1. CASE ~IsCurrentBinding(client, b)
  <2>1. client' = client /\ view' = view
    BY <1>1 DEF Receive
  <2>2. Later(client, client)
    BY <1>0 DEF Later
  <2> QED
    BY <1>0, <2>1, <2>2, LaterStep
<1>2. CASE IsCurrentBinding(client, b)
  <2> DEFINE d == Resubscribe(client, client.gen)
  <2>1. client' = d /\ client'.gen <= MaxGen /\ client'.nextId <= MaxId + 1 /\ view' = view
    BY <1>2 DEF Receive, Becomes
  <2>2. client.channel # Undefined
    BY <1>2 DEF IsCurrentBinding, Ids, Undefined
  <2>3. Good(d) /\ Later(client, d)
    BY <1>0, <2>2, ResubscribeIsGood
  <2> HIDE DEF d
  <2> QED
    BY <1>0, <2>1, <2>3, LaterStep
<1> QED
  BY <1>1, <1>2

\* Every step keeps the invariant, and what the listener was told of stays told.
LEMMA StepPreserves == IInv /\ [Next]_vars => IInv' /\ view \subseteq view'
<1> SUFFICES ASSUME IInv, [Next]_vars PROVE IInv' /\ view \subseteq view'
  OBVIOUS
<1>1. CASE PeerConnects \/ PeerLost \/ Recover \/ ChannelCloses
  BY <1>1, PeerPreserves
<1>2. CASE SubscribeAnswered
  BY <1>2, AnsweredPreserves
<1>3. CASE SubscribeFails \/ \E b \in Ids : ChannelAdmitted(b) \/ ChannelRefused(b) \/ ChannelLost(b)
  BY <1>3, ChannelPreserves
<1>4. CASE HubChange \/ HubSkips \/ \E b \in Ids : HubSnapshot(b) \/ HubEarlyDelta(b)
  BY <1>4, HubPreserves
<1>5. CASE Unsubscribe \/ \E f \in Flights : UnsubscribeSettles(f) \/ ReadySettles(f)
  BY <1>5, CallPreserves
<1>6. ASSUME NEW b \in Ids, Receive(b) PROVE IInv' /\ view \subseteq view'
  <2>1. CASE IsCurrentBinding(client, b) /\ Accepts(client, Head(wire[b]))
    BY <1>6, <2>1, AcceptPreserves
  <2>2. CASE ~IsCurrentBinding(client, b) \/ ~Accepts(client, Head(wire[b]))
    BY <1>6, <2>2, RejectPreserves
  <2> QED
    BY <2>1, <2>2
<1>7. CASE UNCHANGED vars
  BY <1>7 DEF vars, IInv, Typed, WiresAreSent, ViewIsKnown, SnapshotIsAhead, IsSnapshot
<1> QED
  BY <1>1, <1>2, <1>3, <1>4, <1>5, <1>6, <1>7 DEF Next

-----------------------------------------------------------------------------
(* The theorems.                                                           *)

\* One request, resubscription or channel at a time, and lines the Hub has sent: the
\* inductive invariant holds whatever the methods of the subscription meet.
THEOREM Inductive == Spec => []IInv
<1>1. IInv /\ [Next]_vars => IInv'
  BY StepPreserves
<1> QED
  BY <1>1, InitIInv, PTL DEF Spec

\* resubscribeEntity and the subscribe answers: every field keeps the shape the code
\* gives it, and the channel the subscription refers to is one that is not closed.
THEOREM TypeCorrect == Spec => []TypeOK
<1>1. IInv => TypeOK
  <2> SUFFICES ASSUME IInv PROVE TypeOK
    OBVIOUS
  <2>1. /\ client \in Unbounded /\ client.nextId \in Nat /\ client.gen \in Nat
        /\ client.gen <= MaxGen /\ client.nextId <= MaxId + 1
        /\ MaxGen \in Nat /\ MaxId \in Nat /\ MaxSeq \in Nat /\ hubSeq \in 0 .. MaxSeq
    BY EntityBoundsAssumption DEF IInv, Good, Unbounded, Typed
  <2>2. /\ client.gen \in Gens /\ client.generation \in Gens /\ client.nextId \in 1 .. MaxId + 1
        /\ client.id \in 0 .. MaxId /\ client.asked \in 0 .. MaxId /\ client.channel \in 0 .. MaxId
    BY <2>1 DEF IInv, Good, Numbered, Unbounded, Gens
  <2>3. client.seq \in {-1} \cup 0 .. MaxSeq
    BY <2>1 DEF IInv, ViewIsKnown
  <2>4. client.flights \in SUBSET Flights
    <3> SUFFICES ASSUME NEW f \in client.flights PROVE f \in Flights
      OBVIOUS
    <3>1. f \in [gen : Nat, via : Nat, at : {"unsubscribe", "ready"}]
      BY <2>1 DEF Unbounded
    <3>2. f.gen \in Gens /\ f.via \in Gens
      BY <2>1, <3>1 DEF IInv, Good, Numbered, Gens
    <3> QED
      BY <3>1, <3>2 DEF Flights
  <2>5. client.open \in SUBSET Ids /\ client.channel \in client.open \cup {Undefined}
    BY ChannelIsId DEF IInv, Good, OneAtATime
  <2>6. client \in Clients
    BY <2>1, <2>2, <2>3, <2>4, <2>5, Zenon DEF Clients, Unbounded, Links, Readies
  <2>7. view \subseteq 1 .. MaxSeq
    BY <2>1 DEF IInv, ViewIsKnown
  <2> QED
    BY <2>5, <2>6, <2>7 DEF IInv, Typed, TypeOK
<1> QED
  BY <1>1, Inductive, PTL

\* isCurrentSubscriptionBinding and the identity check of a late answer: there are never
\* two channels of the subscription whose bindings are open.
THEOREM OneChannelOpen == Spec => []OneChannel
<1>1. IInv => OneChannel
  <2>1. IInv => client.open = {} \/ client.open = {client.channel}
    BY DEF IInv, Good, OneAtATime
  <2>2. Cardinality({}) = 0 /\ Cardinality({client.channel}) = 1
    BY FS_EmptySet, FS_Singleton, Zenon
  <2>3. IInv => Cardinality(client.open) = 0 \/ Cardinality(client.open) = 1
    BY <2>1, <2>2, Zenon
  <2> QED
    BY <2>3 DEF OneChannel
<1> QED
  BY <1>1, Inductive, PTL

\* receiveEntityFrame: whatever was lost, reset or restarted, the listener knows every
\* change up to the last one it was told of.
THEOREM ListenerHasNoHole == Spec => []ViewIsPrefix
<1>1. IInv => ViewIsPrefix
  <2> SUFFICES ASSUME IInv PROVE ViewIsPrefix
    OBVIOUS
  <2>1. PICK n \in 0 .. hubSeq : view = 1 .. n
    BY DEF IInv, ViewIsKnown
  <2>2. n \in 0 .. MaxSeq
    BY EntityBoundsAssumption DEF IInv, Typed
  <2>3. client.seq # -1 => view = 1 .. client.seq
    BY DEF IInv, ViewIsKnown
  <2> QED
    BY <2>1, <2>2, <2>3 DEF ViewIsPrefix
<1> QED
  BY <1>1, Inductive, PTL

\* A snapshot on a later channel never takes the listener back.
THEOREM NeverGoesBack == Spec => ViewNeverGoesBack
<1>1. IInv /\ [Next]_vars => [view \subseteq view']_vars
  BY StepPreserves
<1> QED
  BY <1>1, Inductive, PTL DEF Spec, ViewNeverGoesBack
=============================================================================
