------------------------- MODULE PeerLifecycle_proofs -------------------------
(***************************************************************************)
(* The control peer over any number of generations: no two attempts run,   *)
(* the published channel is the current one, a captured demand is always   *)
(* served, and nothing of the connection survives a disconnect.            *)
(*                                                                         *)
(* Each lemma is about a method: from a good transport it leaves a good    *)
(* one, and what it keeps of the demand.                                   *)
(***************************************************************************)
EXTENDS PeerLifecycle, TLAPS

\* The attempts of transport t that are not settled.
RunningOf(t) == {g \in 1 .. t.gen : g \notin t.settled}

\* An attempt that runs owns the client; what is armed or joined is one that runs.
OneAttempt(t) ==
  /\ \A g \in RunningOf(t) : Owns(t, g) /\ t.promise = g /\ g \in t.deadline
  /\ t.deadline \subseteq RunningOf(t)
  /\ t.promise # None => t.promise \in RunningOf(t)
  /\ t.current \in {None, t.gen}

\* Nothing is known of a generation to come.
PastOnly(t) ==
  \A g \in Gens \ {None} : g > t.gen =>
    g \notin t.settled /\ t.stage[g] = "none" /\ t.chan[g] = "absent"

\* An attempt in open is not settled while it owns the client, and its channel is published
\* from its signaling on.
Opening(t) ==
  /\ t.current # None /\ t.stage[t.current] # "none" => t.current \in RunningOf(t)
  /\ t.current # None /\ t.stage[t.current] \in {"negotiating", "greeting"} => t.channel = t.current
  /\ t.channel # None => t.chan[t.channel] # "absent"

Quiet(t) ==
  t.disconnected =>
    /\ ~t.retryTimer /\ ~t.demand /\ ~t.ready
    /\ RunningOf(t) = {} /\ t.channel = None

\* The inductive invariant, but for the demand.
Good(t) ==
  /\ t \in Transports
  /\ OneAttempt(t)
  /\ PastOnly(t)
  /\ Opening(t)
  /\ Quiet(t)
  /\ t.channel \in {None, t.gen}
  /\ t.retryTimer => t.demand

Published(t) == t.channel # None /\ t.chan[t.channel] # "closed"

ServedIn(t) ==
  \/ Published(t)
  \/ RunningOf(t) # {}
  \/ t.retryTimer
  \/ t.recovering /\ t.demand

Demands(t) == t.demand \/ "entity" \in t.holders

\* A demand is served, or it ended with the disconnect.
Kept(t) == Demands(t) => t.disconnected \/ ServedIn(t)

IInv == Good(transport) /\ Kept(transport)

\* Fields that a method which ends or starts an attempt leaves alone, and those that a
\* method about the demand does.
SameDemand(s, t) ==
  /\ s.demand = t.demand /\ s.retryTimer = t.retryTimer /\ s.recovering = t.recovering
  /\ s.holders = t.holders /\ s.disconnected = t.disconnected
SameConnection(s, t) ==
  /\ s.gen = t.gen /\ s.current = t.current /\ s.promise = t.promise /\ s.channel = t.channel
  /\ s.ready = t.ready /\ s.settled = t.settled /\ s.deadline = t.deadline
  /\ s.stage = t.stage /\ s.chan = t.chan /\ s.disconnected = t.disconnected

-----------------------------------------------------------------------------
(* The parts of a method, field by field.                                  *)


LEMMA ResetFields ==
  ASSUME MaxGen \in Nat, NEW t \in Transports, NEW s, s = ResetPeer(t)
  PROVE  /\ s \in Transports
         /\ s.channel = None /\ s.ready = FALSE
         /\ s.gen = t.gen /\ s.current = t.current /\ s.promise = t.promise
         /\ s.settled = t.settled /\ s.deadline = t.deadline
         /\ s.stage = t.stage /\ SameDemand(s, t)
         /\ \A g \in Gens : g = t.channel /\ g # None => s.chan[g] = "closed"
         /\ \A g \in Gens : g # t.channel \/ g = None => s.chan[g] = t.chan[g]
<1> DEFINE chan == [g \in Gens |-> IF g = t.channel /\ g # None THEN "closed" ELSE t.chan[g]]
<1>1. s = [t EXCEPT !.channel = None, !.ready = FALSE, !.chan = chan]
  BY DEF ResetPeer
<1>2. chan \in [Gens -> {"absent", "connecting", "open", "closing", "closed"}]
  BY DEF Transports
<1>3. \A g \in Gens : chan[g] = IF g = t.channel /\ g # None THEN "closed" ELSE t.chan[g]
  OBVIOUS
<1> HIDE DEF chan
<1>4. None \in Gens /\ FALSE \in BOOLEAN
  BY DEF None, Gens
<1>5. s \in Transports
  BY <1>1, <1>2, <1>4, Zenon DEF Transports
<1> QED
  BY <1>1, <1>3, <1>5 DEF Transports, SameDemand

LEMMA CloseFields ==
  ASSUME MaxGen \in Nat, NEW t \in Transports, NEW g \in Gens, NEW s, s = CloseResources(t, g)
  PROVE  /\ s \in Transports
         /\ s.channel = IF t.channel = g THEN None ELSE t.channel
         /\ s.gen = t.gen /\ s.current = t.current /\ s.promise = t.promise /\ s.ready = t.ready
         /\ s.settled = t.settled /\ s.deadline = t.deadline
         /\ s.stage = t.stage /\ SameDemand(s, t)
         /\ \A h \in Gens : h = g /\ t.chan[g] # "absent" => s.chan[h] = "closed"
         /\ \A h \in Gens : h # g \/ t.chan[g] = "absent" => s.chan[h] = t.chan[h]
<1> DEFINE channel == IF t.channel = g THEN None ELSE t.channel
           chan == [t.chan EXCEPT ![g] = IF t.chan[g] = "absent" THEN "absent" ELSE "closed"]
<1>1. s = [t EXCEPT !.channel = channel, !.chan = chan]
  BY DEF CloseResources
<1>2. chan \in [Gens -> {"absent", "connecting", "open", "closing", "closed"}]
  BY DEF Transports
<1>3. \A h \in Gens : chan[h] = IF h = g /\ t.chan[g] # "absent" THEN "closed" ELSE t.chan[h]
  BY DEF Transports
<1>4. channel \in Gens
  BY DEF None, Gens, Transports
<1>5. channel = IF t.channel = g THEN None ELSE t.channel
  OBVIOUS
<1> HIDE DEF chan, channel
<1>6. s \in Transports
  BY <1>1, <1>2, <1>4, Zenon DEF Transports
<1> QED
  BY <1>1, <1>3, <1>5, <1>6 DEF Transports, SameDemand

LEMMA SettledFields ==
  ASSUME NEW t \in Transports, NEW g \in Gens, NEW s, s = Settled(t, g)
  PROVE  /\ s \in Transports
         /\ s.settled = t.settled \cup {g} /\ s.deadline = t.deadline \ {g}
         /\ s.gen = t.gen /\ s.current = t.current /\ s.promise = t.promise /\ s.ready = t.ready
         /\ s.channel = t.channel /\ s.chan = t.chan
         /\ s.stage = t.stage /\ SameDemand(s, t)
<1> DEFINE settled == t.settled \cup {g}
           deadline == t.deadline \ {g}
<1>1. s = [t EXCEPT !.settled = settled, !.deadline = deadline]
  BY DEF Settled
<1>2. settled \in SUBSET Gens /\ deadline \in SUBSET Gens
  BY DEF Transports
<1>3. settled = t.settled \cup {g} /\ deadline = t.deadline \ {g}
  OBVIOUS
<1> HIDE DEF settled, deadline
<1>4. s \in Transports
  BY <1>1, <1>2, Zenon DEF Transports
<1> QED
  BY <1>1, <1>3, <1>4 DEF Transports, SameDemand

-----------------------------------------------------------------------------
(* Transports that differ in their demand.                                 *)

\* What runs and what is published depends on the connection alone.
LEMMA DemandGood ==
  ASSUME NEW t, Good(t), NEW s \in Transports, SameConnection(s, t),
         s.disconnected => ~s.retryTimer /\ ~s.demand,
         s.retryTimer => s.demand
  PROVE  Good(s) /\ RunningOf(s) = RunningOf(t)
<1>1. RunningOf(s) = RunningOf(t)
  BY DEF RunningOf, SameConnection
<1>2. OneAttempt(s) /\ PastOnly(s) /\ Opening(s) /\ s.channel \in {None, s.gen}
  BY <1>1 DEF Good, OneAttempt, PastOnly, Opening, SameConnection, Owns
<1>3. Quiet(s)
  BY <1>1 DEF Good, Quiet, SameConnection
<1> QED
  BY <1>1, <1>2, <1>3 DEF Good

\* Only the attempt that owns the client runs.
LEMMA OwnerRuns ==
  ASSUME MaxGen \in Nat, NEW t, Good(t)
  PROVE  /\ t.gen \in Nat /\ t.gen <= MaxGen /\ t.gen \in Gens
         /\ \A g \in RunningOf(t) : /\ g = t.gen /\ g = t.current /\ g = t.promise /\ ~t.disconnected
                                    /\ t.deadline = {g}
         /\ RunningOf(t) = {} => t.promise = None /\ t.deadline = {}
         /\ \A g \in Gens : g <= t.gen /\ g # None /\ g \notin t.settled => g \in RunningOf(t)
<1>1. t.gen \in Nat /\ t.gen <= MaxGen /\ t.gen \in Gens
  BY DEF Good, Transports, Gens
<1>2. \A g \in RunningOf(t) : g = t.gen /\ g = t.current /\ g = t.promise /\ ~t.disconnected
  BY DEF Good, OneAttempt, Owns
<1>3. \A g \in RunningOf(t) : t.deadline = {g}
  BY <1>2 DEF Good, OneAttempt
<1>4. \A g \in Gens : g <= t.gen /\ g # None /\ g \notin t.settled => g \in RunningOf(t)
  BY <1>1 DEF RunningOf, Gens, None
<1> QED
  BY <1>1, <1>2, <1>3, <1>4 DEF Good, OneAttempt

-----------------------------------------------------------------------------
(* Disconnect.                                                             *)

LEMMA DisconnectedGood ==
  ASSUME MaxGen \in Nat, NEW t, Good(t), NEW s, s = Disconnected(t)
  PROVE  Good(s) /\ s.disconnected /\ s.gen = t.gen /\ s.holders = t.holders
<1> DEFINE g == t.current
           c1 == Settled(t, g)
           c2 == CloseResources(c1, g)
           cancelled == IF g # None /\ g \notin t.settled THEN c2 ELSE t
           r == ResetPeer(cancelled)
<1>0. /\ t \in Transports /\ g \in Gens /\ None \in Gens
      /\ g # None => g = t.gen
  BY DEF Good, OneAttempt, Transports, None, Gens
<1>1. s = [r EXCEPT !.disconnected = TRUE, !.current = None,
             !.retryTimer = FALSE, !.demand = FALSE, !.promise = None]
  BY DEF Disconnected
<1>2. c1 = Settled(t, g) /\ c2 = CloseResources(c1, g) /\ r = ResetPeer(cancelled)
      /\ cancelled = IF g # None /\ g \notin t.settled THEN c2 ELSE t
  OBVIOUS
<1> HIDE DEF c1, c2, cancelled, r
<1>3. /\ c1 \in Transports
      /\ c1.settled = t.settled \cup {g} /\ c1.deadline = t.deadline \ {g}
      /\ c1.gen = t.gen /\ c1.stage = t.stage /\ SameDemand(c1, t)
      /\ c1.chan = t.chan /\ c1.channel = t.channel
  BY <1>0, <1>2, SettledFields
<1>4. /\ c2 \in Transports
      /\ c2.settled = t.settled \cup {g} /\ c2.deadline = t.deadline \ {g}
      /\ c2.gen = t.gen /\ c2.stage = t.stage /\ SameDemand(c2, t)
      /\ c2.channel \in {None, t.channel}
      /\ \A h \in Gens : t.chan[h] = "absent" => c2.chan[h] = "absent"
  <2>1. /\ c2 \in Transports
        /\ c2.channel = IF c1.channel = g THEN None ELSE c1.channel
        /\ c2.settled = c1.settled /\ c2.deadline = c1.deadline
        /\ c2.gen = c1.gen /\ c2.stage = c1.stage /\ SameDemand(c2, c1)
        /\ \A h \in Gens : h # g \/ c1.chan[g] = "absent" => c2.chan[h] = c1.chan[h]
    <3>1. c1 \in Transports /\ g \in Gens /\ c2 = CloseResources(c1, g)
      BY <1>0, <1>2, <1>3
    <3> HIDE DEF g
    <3> QED
      BY <3>1, CloseFields
  <2> HIDE DEF g
  <2> QED
    BY <1>3, <2>1 DEF SameDemand
<1>5. /\ cancelled \in Transports
      /\ cancelled.settled = t.settled \cup (IF g # None THEN {g} ELSE {})
      /\ cancelled.deadline = t.deadline \ (IF g # None /\ g \notin t.settled THEN {g} ELSE {})
      /\ cancelled.gen = t.gen /\ cancelled.stage = t.stage /\ SameDemand(cancelled, t)
      /\ cancelled.channel \in {None, t.channel}
      /\ \A h \in Gens : t.chan[h] = "absent" => cancelled.chan[h] = "absent"
  <2> HIDE DEF g
  <2> QED BY <1>0, <1>2, <1>4 DEF SameDemand
<1>6. /\ r \in Transports /\ r.channel = None /\ r.ready = FALSE
      /\ r.settled = cancelled.settled /\ r.deadline = cancelled.deadline
      /\ r.gen = cancelled.gen /\ r.stage = cancelled.stage /\ SameDemand(r, cancelled)
      /\ \A h \in Gens : h # cancelled.channel \/ h = None => r.chan[h] = cancelled.chan[h]
  <2> HIDE DEF g
  <2>1. cancelled \in Transports /\ r = ResetPeer(cancelled)
    BY <1>2, <1>5
  <2> QED
    BY <2>1, ResetFields
<1>7. s \in Transports
  BY <1>0, <1>1, <1>6, Zenon DEF Transports
<1>8. /\ s.gen = r.gen /\ s.current = None /\ s.promise = None /\ s.channel = None /\ s.ready = FALSE
      /\ s.disconnected = TRUE /\ s.retryTimer = FALSE /\ s.demand = FALSE /\ s.settled = r.settled
      /\ s.deadline = r.deadline /\ s.stage = r.stage /\ s.chan = r.chan /\ s.holders = r.holders
  BY <1>1, <1>6 DEF Transports
<1>9. RunningOf(s) = {} /\ s.deadline = {}
  <2>1. \A h \in RunningOf(t) : h = g /\ g \notin t.settled /\ g # None
    BY <1>0, OwnerRuns DEF RunningOf, None
  <2>2. t.deadline \subseteq RunningOf(t)
    BY DEF Good, OneAttempt
  <2> HIDE DEF g
  <2>3. s.gen = t.gen /\ s.settled = t.settled \cup (IF g # None THEN {g} ELSE {})
        /\ s.deadline = t.deadline \ (IF g # None /\ g \notin t.settled THEN {g} ELSE {})
    BY <1>5, <1>6, <1>8
  <2> QED
    BY <2>1, <2>2, <2>3 DEF RunningOf
<1>10. PastOnly(s)
  <2>1. \A h \in Gens \ {None} : h > s.gen => s.chan[h] = "absent" /\ s.stage[h] = "none"
    BY <1>0, <1>5, <1>6, <1>8, OwnerRuns DEF Good, PastOnly, Gens
  <2>2. \A h \in Gens \ {None} : h > s.gen => h \notin s.settled
    BY <1>0, <1>5, <1>6, <1>8, OwnerRuns DEF Good, PastOnly, Gens
  <2> QED
    BY <2>1, <2>2 DEF PastOnly
<1>11. OneAttempt(s) /\ Opening(s) /\ Quiet(s)
  BY <1>8, <1>9 DEF OneAttempt, Opening, Quiet
<1> QED
  BY <1>5, <1>6, <1>7, <1>8, <1>10, <1>11 DEF Good, SameDemand

-----------------------------------------------------------------------------
(* Connect, and the callbacks that may call it.                            *)

\* startAttempt when nothing runs: one attempt of a new generation, or a disconnect.
LEMMA StartGood ==
  ASSUME MaxGen \in Nat, NEW t, Good(t), RunningOf(t) = {}, ~t.disconnected, t.gen # MaxGen,
         NEW s \in StartAttempt(t)
  PROVE  /\ Good(s) /\ s.holders = t.holders /\ s.gen = t.gen + 1
         /\ \/ s.disconnected
            \/ RunningOf(s) # {} /\ s.demand = t.demand
<1> DEFINE g == t.gen + 1
           r == ResetPeer(t)
           started == [r EXCEPT !.gen = g, !.current = g, !.promise = g, !.peerFailed = FALSE,
                                !.deadline = @ \cup {g}]
           opened == [started EXCEPT !.stage[g] = "preparing"]
<1>1. s = opened \/ s = Disconnected(started)
  BY DEF StartAttempt
<1>2. /\ t \in Transports /\ g \in Gens /\ g # None /\ t.gen \in Nat /\ t.gen < g
      /\ t.deadline = {} /\ t.promise = None
  BY OwnerRuns DEF Good, Gens, None
<1>3. /\ g \notin t.settled /\ t.stage[g] = "none"
      /\ \A h \in Gens \ {None} : h > g => h \notin t.settled /\ t.stage[h] = "none" /\ t.chan[h] = "absent"
  BY <1>2 DEF Good, PastOnly, Gens
<1>4. r \in Transports /\ r = ResetPeer(t)
  BY <1>2, ResetFields
<1>5. /\ r.channel = None /\ r.gen = t.gen /\ r.settled = t.settled /\ r.deadline = {} /\ r.stage = t.stage
      /\ SameDemand(r, t) /\ r.ready = FALSE
  <2> HIDE DEF r, g
  <2>1. t \in Transports /\ r = ResetPeer(t) /\ t.deadline = {}
    BY <1>2, <1>4
  <2> QED
    BY <2>1, ResetFields
<1>6. \A h \in Gens : h # t.channel \/ h = None => r.chan[h] = t.chan[h]
  <2> HIDE DEF r, g
  <2>1. t \in Transports /\ r = ResetPeer(t) /\ t.deadline = {}
    BY <1>2, <1>4
  <2> QED
    BY <2>1, ResetFields
<1>7. \A h \in Gens : t.gen < h => r.chan[h] = t.chan[h]
  BY <1>2, <1>6 DEF Good, None
<1> HIDE DEF r
<1>8. started \in Transports
  <2>1. r.deadline \cup {g} \in SUBSET Gens
    BY <1>2, <1>5
  <2>2. FALSE \in BOOLEAN
    OBVIOUS
  <2> HIDE DEF g
  <2> QED
    BY <1>2, <1>4, <2>1, <2>2, Zenon DEF Transports
<1>9. /\ started.gen = g /\ started.current = g /\ started.promise = g /\ started.deadline = {g}
      /\ started.channel = None /\ started.settled = t.settled /\ started.stage = t.stage
      /\ started.chan = r.chan /\ SameDemand(started, t) /\ started.ready = FALSE
  BY <1>4, <1>5 DEF Transports, SameDemand
<1> HIDE DEF started
<1>10. opened \in Transports
  <2>1. [started.stage EXCEPT ![g] = "preparing"] \in [Gens -> {"none", "preparing", "negotiating", "greeting"}]
    BY <1>2, <1>8 DEF Transports
  <2> QED
    BY <1>8, <2>1, Zenon DEF Transports
<1>11. /\ opened.gen = g /\ opened.current = g /\ opened.promise = g /\ opened.deadline = {g}
       /\ opened.channel = None /\ opened.settled = t.settled
       /\ opened.stage = [t.stage EXCEPT ![g] = "preparing"]
       /\ opened.chan = r.chan /\ SameDemand(opened, t) /\ opened.ready = FALSE
  BY <1>8, <1>9 DEF Transports, SameDemand
<1> HIDE DEF opened
<1>12. \A x \in {started, opened} : RunningOf(x) = {g} /\ Good(x)
  <2> TAKE x \in {started, opened}
  <2>1. /\ x \in Transports /\ x.gen = g /\ x.current = g /\ x.promise = g /\ x.deadline = {g}
        /\ x.channel = None /\ x.settled = t.settled /\ x.chan = r.chan /\ SameDemand(x, t)
        /\ x.ready = FALSE
    BY <1>8, <1>9, <1>10, <1>11
  <2>2. /\ x.stage[g] \in {"none", "preparing"}
        /\ \A h \in Gens : h # g => x.stage[h] = t.stage[h]
    BY <1>2, <1>3, <1>9, <1>11 DEF Transports
  <2>3. RunningOf(x) = {g}
    <3>1. \A h \in 1 .. g : h \notin t.settled <=> h = g
      BY <1>2, <1>3 DEF RunningOf
    <3>2. g \in 1 .. g
      BY <1>2 DEF None
    <3> HIDE DEF g
    <3> QED
      BY <2>1, <3>1, <3>2 DEF RunningOf
  <2> HIDE DEF g
  <2>4. OneAttempt(x)
    BY <1>2, <2>1, <2>3 DEF OneAttempt, Owns, SameDemand
  <2>5. PastOnly(x)
    BY <1>2, <1>3, <1>7, <2>1, <2>2 DEF PastOnly, Gens
  <2>6. Opening(x) /\ Quiet(x) /\ (x.retryTimer => x.demand)
    BY <2>1, <2>2, <2>3 DEF Opening, Quiet, SameDemand, Good
  <2> QED
    BY <2>1, <2>3, <2>4, <2>5, <2>6 DEF Good
<1> HIDE DEF g
<1>13. CASE s = opened
  BY <1>11, <1>12, <1>13 DEF SameDemand, g
<1>14. CASE s = Disconnected(started)
  BY <1>9, <1>12, <1>14, DisconnectedGood DEF SameDemand, g
<1> QED
  BY <1>1, <1>13, <1>14

\* connect leaves the transport as it is when a channel is live or an attempt runs.
LEMMA ConnectGood ==
  ASSUME MaxGen \in Nat, NEW t, Good(t), NEW s \in Connect(t)
  PROVE  /\ Good(s) /\ s.holders = t.holders
         /\ \/ s = t /\ (t.disconnected \/ Published(t) \/ RunningOf(t) # {} \/ t.gen = MaxGen)
            \/ s.gen = t.gen + 1 /\ s.disconnected
            \/ s.gen = t.gen + 1 /\ RunningOf(s) # {} /\ s.demand = t.demand
<1>1. CASE t.disconnected \/ Usable(t) \/ t.promise # None \/ t.gen = MaxGen
  <2>1. s = t
    BY <1>1 DEF Connect
  <2>2. Usable(t) => Published(t)
    BY DEF Usable, Published
  <2>3. t.promise # None => RunningOf(t) # {}
    BY OwnerRuns
  <2> QED
    BY <1>1, <2>1, <2>2, <2>3
<1>2. CASE ~(t.disconnected \/ Usable(t) \/ t.promise # None \/ t.gen = MaxGen)
  <2> DEFINE u == [t EXCEPT !.retryTimer = FALSE]
  <2>1. s \in StartAttempt(u)
    BY <1>2 DEF Connect
  <2>2. t \in Transports
    BY DEF Good
  <2>3. u \in Transports
    BY <2>2, Zenon DEF Transports
  <2>4. SameConnection(u, t) /\ u.retryTimer = FALSE /\ u.demand = t.demand /\ u.holders = t.holders
    BY <2>2 DEF Transports, SameConnection
  <2> HIDE DEF u
  <2>5. u.disconnected => ~u.retryTimer /\ ~u.demand
    BY <1>2, <2>4 DEF SameConnection
  <2>6. Good(u) /\ RunningOf(u) = RunningOf(t)
    BY <2>3, <2>4, <2>5, DemandGood
  <2>7. RunningOf(t) = {}
    BY <1>2, OwnerRuns DEF RunningOf, None
  <2>8. RunningOf(u) = {} /\ ~u.disconnected /\ u.gen # MaxGen /\ u.gen = t.gen
    BY <1>2, <2>4, <2>6, <2>7 DEF SameConnection
  <2> QED
    BY <2>1, <2>4, <2>6, <2>8, StartGood
<1> QED
  BY <1>1, <1>2

LEMMA CallbackGood ==
  ASSUME MaxGen \in Nat, NEW t, Good(t), NEW s \in Callback(t)
  PROVE  /\ Good(s) /\ s.holders = t.holders
         /\ \/ s = t
            \/ s.gen \in {t.gen, t.gen + 1} /\ s.disconnected
            \/ s.gen = t.gen + 1 /\ RunningOf(s) # {} /\ s.demand = t.demand
<1>1. CASE s = Disconnected(t)
  BY <1>1, DisconnectedGood
<1>2. CASE s \in Connect(t)
  BY <1>2, ConnectGood
<1> QED
  BY <1>1, <1>2 DEF Callback

\* A demand whose retry is scheduled is served.
LEMMA ScheduleRetryGood ==
  ASSUME MaxGen \in Nat, NEW t, Good(t), t.demand, ~t.disconnected, NEW s \in ScheduleRetry(t)
  PROVE  /\ Good(s) /\ s.holders = t.holders
         /\ s.disconnected \/ (s.demand /\ ServedIn(s))
<1>1. CASE t.retryTimer
  BY <1>1 DEF ScheduleRetry, ServedIn
<1>2. CASE ~t.retryTimer
  <2> DEFINE u == [t EXCEPT !.retries = @ + 1, !.retryTimer = TRUE]
  <2>1. s \in Callback(u)
    BY <1>2 DEF ScheduleRetry
  <2>2. t \in Transports
    BY DEF Good
  <2>3. t.retries + 1 \in Nat /\ TRUE \in BOOLEAN
    BY <2>2 DEF Transports
  <2>4. u \in Transports
    BY <2>2, <2>3, Zenon DEF Transports
  <2>5. SameConnection(u, t) /\ u.retryTimer = TRUE /\ u.demand = t.demand /\ u.holders = t.holders
    BY <2>2 DEF Transports, SameConnection
  <2> HIDE DEF u
  <2>6. u.disconnected => ~u.retryTimer /\ ~u.demand
    BY <2>5 DEF SameConnection
  <2>7. Good(u)
    BY <2>4, <2>5, <2>6, DemandGood
  <2>8. /\ Good(s) /\ s.holders = u.holders
        /\ s = u \/ s.disconnected \/ (RunningOf(s) # {} /\ s.demand = u.demand)
    BY <2>1, <2>7, CallbackGood
  <2> QED
    BY <2>5, <2>8 DEF ServedIn
<1> QED
  BY <1>1, <1>2

-----------------------------------------------------------------------------
(* Failures and losses.                                                    *)

\* The transport, or the transport after the deadline of g fired.
IsOrTimesOut(t, u, g) == t = [u EXCEPT !.deadline = @ \ {g}] \/ t = u

\* What failAttempt does with an attempt that owns the client, before the demand.
FreedBy(t, g) ==
  CloseResources(ResetPeer([Settled(t, g) EXCEPT !.current = None,
                                                 !.promise = IF @ = g THEN None ELSE @]), g)

\* The attempt that owned the client is freed: nothing runs.
LEMMA FreedGood ==
  ASSUME MaxGen \in Nat, NEW u, Good(u), NEW g \in RunningOf(u),
         NEW t \in Transports, IsOrTimesOut(t, u, g),
         NEW c, c = FreedBy(t, g)
  PROVE  Good(c) /\ c.gen = u.gen /\ RunningOf(c) = {} /\ SameDemand(c, u)
<1> DEFINE f0 == Settled(t, g)
           freed == [f0 EXCEPT !.current = None, !.promise = IF @ = g THEN None ELSE @]
           r == ResetPeer(freed)
<1>1. /\ g = u.gen /\ g = u.promise /\ u.deadline = {g} /\ ~u.disconnected
      /\ u.gen \in Nat /\ g \in Gens /\ g # None /\ None \in Gens
  BY OwnerRuns DEF RunningOf, None, Gens
<1>2. /\ t.gen = u.gen /\ t.promise = u.promise /\ t.channel = u.channel /\ t.settled = u.settled
      /\ t.deadline \ {g} = {} /\ t.stage = u.stage /\ t.chan = u.chan /\ SameDemand(t, u)
  <2>1. u \in Transports
    BY DEF Good
  <2>2. t = u => t.deadline \ {g} = {}
    BY <1>1
  <2>3. t # u => t.deadline = u.deadline \ {g}
    BY <2>1 DEF IsOrTimesOut, Transports
  <2>4. t.deadline \ {g} = {}
    BY <1>1, <2>2, <2>3
  <2>5. /\ t.gen = u.gen /\ t.promise = u.promise /\ t.channel = u.channel /\ t.settled = u.settled
        /\ t.stage = u.stage /\ t.chan = u.chan
    BY <2>1 DEF IsOrTimesOut, Transports
  <2>6. SameDemand(t, u)
    BY <2>1 DEF IsOrTimesOut, Transports, SameDemand
  <2> QED
    BY <2>4, <2>5, <2>6
<1>3. f0 = Settled(t, g) /\ r = ResetPeer(freed) /\ c = CloseResources(r, g)
  BY DEF FreedBy
<1> HIDE DEF f0
<1>4. /\ f0 \in Transports /\ f0.settled = t.settled \cup {g} /\ f0.deadline = t.deadline \ {g}
      /\ f0.gen = t.gen /\ f0.promise = t.promise /\ f0.stage = t.stage /\ SameDemand(f0, t)
      /\ f0.chan = t.chan /\ f0.channel = t.channel
  BY <1>1, <1>3, SettledFields
<1>5. /\ freed.settled = u.settled \cup {g} /\ freed.deadline = {}
      /\ freed.gen = u.gen /\ freed.current = None /\ freed.promise = None /\ freed.stage = u.stage
      /\ SameDemand(freed, u) /\ freed.chan = u.chan /\ freed.channel = u.channel
  BY <1>1, <1>2, <1>4 DEF Transports, SameDemand
<1>6. freed \in Transports
  <2>1. (IF f0.promise = g THEN None ELSE f0.promise) = None
    BY <1>1, <1>2, <1>4
  <2>2. freed = [f0 EXCEPT !.current = None, !.promise = None]
    BY <2>1
  <2> QED
    BY <1>1, <1>4, <2>2, ZenonT(40) DEF Transports
<1> HIDE DEF freed
<1>7. r \in Transports /\ r = ResetPeer(freed)
  BY <1>6, ResetFields
<1> HIDE DEF r
<1>8. /\ r.channel = None /\ r.ready = FALSE /\ r.settled = freed.settled /\ r.deadline = freed.deadline
      /\ r.gen = freed.gen /\ r.current = freed.current /\ r.promise = freed.promise
      /\ r.stage = freed.stage /\ SameDemand(r, freed)
      /\ \A h \in Gens : h # freed.channel \/ h = None => r.chan[h] = freed.chan[h]
  BY <1>6, <1>7, ResetFields
<1>9. /\ c \in Transports /\ c.channel = IF r.channel = g THEN None ELSE r.channel
      /\ c.settled = r.settled /\ c.deadline = r.deadline /\ c.gen = r.gen /\ c.current = r.current
      /\ c.promise = r.promise /\ c.stage = r.stage /\ c.ready = r.ready /\ SameDemand(c, r)
      /\ \A h \in Gens : h # g \/ r.chan[g] = "absent" => c.chan[h] = r.chan[h]
  <2>1. r \in Transports /\ g \in Gens /\ c = CloseResources(r, g)
    BY <1>1, <1>3, <1>7
  <2> QED
    BY <2>1, CloseFields
<1>10. /\ c \in Transports /\ c.channel = None /\ c.ready = FALSE /\ c.current = None /\ c.promise = None
       /\ c.settled = u.settled \cup {g} /\ c.deadline = {} /\ c.gen = u.gen /\ c.stage = u.stage
       /\ SameDemand(c, u)
  BY <1>1, <1>5, <1>8, <1>9 DEF SameDemand
<1>11. \A h \in Gens : h > u.gen => c.chan[h] = u.chan[h]
  BY <1>1, <1>5, <1>8, <1>9 DEF Good, None, Gens
<1>12. RunningOf(c) = {}
  <2>1. \A h \in 1 .. u.gen : h \in u.settled \/ h = g
    BY <1>1, OwnerRuns DEF RunningOf
  <2> QED
    BY <1>10, <2>1 DEF RunningOf
<1>13. PastOnly(c)
  BY <1>1, <1>10, <1>11 DEF PastOnly, Good, Gens
<1>14. OneAttempt(c) /\ Opening(c) /\ Quiet(c) /\ (c.retryTimer => c.demand)
  BY <1>1, <1>10, <1>12 DEF OneAttempt, Opening, Quiet, SameDemand, Good
<1> QED
  BY <1>10, <1>12, <1>13, <1>14 DEF Good

\* failAttempt: an attempt that is settled fails no more; the owner's failure leaves the
\* demand it was told of served.
LEMMA FailGood ==
  ASSUME MaxGen \in Nat, NEW u, Good(u), NEW g \in Gens \ {None}, g <= u.gen,
         NEW t, IsOrTimesOut(t, u, g),
         NEW demand \in BOOLEAN, NEW s \in FailAttempt(t, g, demand)
  PROVE  /\ Good(s) /\ s.holders = u.holders
         /\ \/ s = u /\ g \notin RunningOf(u)
            \/ s.disconnected
            \/ demand /\ s.demand /\ ServedIn(s)
            \/ ~demand /\ s.demand = u.demand /\ g \in RunningOf(u)
<1>1. u \in Transports
  BY DEF Good
<1>2. t \in Transports
  <2>1. u.deadline \ {g} \in SUBSET Gens
    BY <1>1 DEF Transports
  <2> QED
    BY <1>1, <2>1, Zenon DEF IsOrTimesOut, Transports
<1>3. t.gen = u.gen /\ t.current = u.current /\ t.settled = u.settled /\ t.disconnected = u.disconnected
  BY <1>1 DEF IsOrTimesOut, Transports
<1>4. CASE g \in u.settled
  <2>1. g \notin RunningOf(u) /\ s = t
    BY <1>3, <1>4 DEF RunningOf, FailAttempt
  <2>2. u.deadline \ {g} = u.deadline
    BY <2>1 DEF Good, OneAttempt
  <2>3. t = u
    BY <1>1, <2>2 DEF IsOrTimesOut, Transports
  <2> QED
    BY <2>1, <2>3
<1>5. CASE g \notin u.settled
  <2>1. g \in RunningOf(u)
    BY <1>5, OwnerRuns
  <2>2. Owns(t, g) /\ g \notin t.settled
    BY <1>3, <1>5, <2>1, OwnerRuns DEF Owns
  <2> DEFINE c == FreedBy(t, g)
  <2>3. s \in AfterFailure(c, demand)
    BY <2>2 DEF FailAttempt, FreedBy
  <2>4. Good(c) /\ c.gen = u.gen /\ RunningOf(c) = {} /\ SameDemand(c, u)
    <3>1. t \in Transports /\ g \in RunningOf(u)
          /\ c = FreedBy(t, g)
      BY <1>2, <2>1
    <3> HIDE DEF c
    <3> QED
      BY <3>1, FreedGood
  <2> HIDE DEF c
  <2>5. CASE ~(demand /\ ~c.disconnected)
    BY <2>1, <2>3, <2>4, <2>5 DEF AfterFailure, SameDemand
  <2>6. CASE demand /\ ~c.disconnected
    <3> DEFINE d == [c EXCEPT !.demand = TRUE]
    <3>1. s \in ScheduleRetry(d)
      BY <2>3, <2>6 DEF AfterFailure
    <3>2. c \in Transports /\ TRUE \in BOOLEAN
      BY <2>4 DEF Good
    <3>3. d \in Transports
      BY <3>2, Zenon DEF Transports
    <3>4. SameConnection(d, c) /\ d.demand /\ d.holders = c.holders /\ ~d.disconnected
      BY <2>6, <3>2 DEF Transports, SameConnection
    <3> HIDE DEF d
    <3>5. Good(d)
      BY <2>4, <3>3, <3>4, DemandGood
    <3>6. /\ Good(s) /\ s.holders = d.holders
          /\ s.disconnected \/ (s.demand /\ ServedIn(s))
      BY <3>1, <3>4, <3>5, ScheduleRetryGood
    <3> QED
      BY <2>4, <2>6, <3>4, <3>6 DEF SameDemand
  <2> QED
    BY <2>5, <2>6
<1> QED
  BY <1>4, <1>5

\* A published peer without an attempt is dropped.
LEMMA ResetGood ==
  ASSUME MaxGen \in Nat, NEW t, Good(t), t.current \notin RunningOf(t)
  PROVE  LET r == ResetPeer(t)
         IN Good(r) /\ r.gen = t.gen /\ SameDemand(r, t)
<1> DEFINE r == ResetPeer(t)
<1>1. t \in Transports /\ r = ResetPeer(t)
  BY DEF Good
<1> HIDE DEF r
<1>2. /\ r \in Transports /\ r.channel = None /\ r.ready = FALSE
      /\ r.settled = t.settled /\ r.deadline = t.deadline /\ r.gen = t.gen
      /\ r.current = t.current /\ r.promise = t.promise
      /\ r.stage = t.stage /\ SameDemand(r, t)
      /\ \A h \in Gens : h # t.channel \/ h = None => r.chan[h] = t.chan[h]
  BY <1>1, ResetFields
<1>3. RunningOf(r) = RunningOf(t)
  BY <1>2 DEF RunningOf
<1>4. OneAttempt(r) /\ Quiet(r) /\ (r.retryTimer => r.demand)
  BY <1>2, <1>3 DEF Good, OneAttempt, Owns, Quiet, SameDemand
<1>5. PastOnly(r)
  BY <1>2, OwnerRuns DEF Good, PastOnly, Gens, None
<1>6. Opening(r)
  BY <1>2, <1>3 DEF Good, Opening
<1> QED
  BY <1>1, <1>2, <1>4, <1>5, <1>6 DEF Good

\* A loss captures the demand before the listeners detach themselves, and serves it.
LEMMA LoseGood ==
  ASSUME MaxGen \in Nat, NEW t, Good(t), NEW s \in Lose(t, t.gen)
  PROVE  /\ Good(s) /\ Kept(s)
         /\ t.demand => s.demand \/ s.disconnected
<1> DEFINE own == OwnDemand(t)
           q == [CaptureDemand(t) EXCEPT !.holders = @ \ {"terminal"}]
<1>1. PICK w \in Callback(q) : s \in HandleTransportClosed(w, own, t.gen)
  BY DEF Lose
<1>2. t \in Transports
  BY DEF Good
<1>3. /\ q \in Transports /\ SameConnection(q, t) /\ q.retryTimer = t.retryTimer
      /\ q.demand = (t.demand \/ (HasReconnectDemand(t) /\ ~t.disconnected))
      /\ q.holders \subseteq t.holders
  <2> DEFINE demand == t.demand \/ (HasReconnectDemand(t) /\ ~t.disconnected)
             holders == t.holders \ {"terminal"}
  <2>1. q = [t EXCEPT !.demand = demand, !.holders = holders]
    BY <1>2 DEF CaptureDemand, Transports
  <2>2. demand \in BOOLEAN /\ holders \in SUBSET Holders
    BY <1>2 DEF HasReconnectDemand, Transports
  <2>3. holders \subseteq t.holders /\ demand = (t.demand \/ (HasReconnectDemand(t) /\ ~t.disconnected))
    OBVIOUS
  <2> HIDE DEF q, demand, holders
  <2>4. q \in Transports
    BY <1>2, <2>1, <2>2, Zenon DEF Transports
  <2> QED
    BY <1>2, <2>1, <2>2, <2>3, <2>4 DEF Transports, SameConnection
<1>4. own \in BOOLEAN /\ own = (t.demand \/ t.holders # {})
  BY <1>2 DEF OwnDemand, HasReconnectDemand, Transports
<1> HIDE DEF q, own
<1>5. Good(q)
  BY <1>2, <1>3, DemandGood DEF Good, Quiet, SameConnection
<1>6. /\ Good(w) /\ w.holders \subseteq t.holders
      /\ \/ w = q
         \/ w.gen \in {t.gen, t.gen + 1} /\ w.disconnected
         \/ w.gen = t.gen + 1 /\ RunningOf(w) # {} /\ w.demand = q.demand
      /\ t.demand => w.demand \/ w.disconnected
  <2>1. /\ Good(w) /\ w.holders = q.holders
        /\ \/ w = q
           \/ w.gen \in {q.gen, q.gen + 1} /\ w.disconnected
           \/ w.gen = q.gen + 1 /\ RunningOf(w) # {} /\ w.demand = q.demand
    BY <1>5, CallbackGood
  <2>2. q.gen = t.gen /\ (t.demand => q.demand)
    BY <1>3 DEF SameConnection
  <2> QED
    BY <1>3, <2>1, <2>2
<1>7. w \in Transports /\ w.demand \in BOOLEAN
  BY <1>6 DEF Good, Transports
<1>8. CASE t.gen # w.gen
  <2>1. s = w
    BY <1>1, <1>8 DEF HandleTransportClosed
  <2> QED
    BY <1>3, <1>6, <1>8, <2>1 DEF Kept, ServedIn, SameConnection
<1>9. CASE t.gen = w.gen /\ w.current # None /\ w.current \notin w.settled
  <2>1. s \in FailAttempt(w, w.current, own \/ w.demand)
    BY <1>1, <1>9 DEF HandleTransportClosed
  <2>2. (own \/ w.demand) \in BOOLEAN
    BY <1>4, <1>7
  <2>3. w.current \in Gens \ {None} /\ w.current <= w.gen
    BY <1>6, <1>7, <1>9, OwnerRuns DEF Good, OneAttempt, Transports
  <2>4. w.current \in RunningOf(w)
    BY <1>6, <1>9, <2>3, OwnerRuns
  <2>5. /\ Good(s) /\ s.holders = w.holders
        /\ \/ s.disconnected
           \/ s.demand /\ ServedIn(s)
           \/ ~(own \/ w.demand) /\ s.demand = w.demand
    <3>1. Good(w)
      BY <1>6
    <3> DEFINE g == w.current
               demand == own \/ w.demand
    <3>2. g \in Gens \ {None} /\ g <= w.gen /\ demand \in BOOLEAN /\ s \in FailAttempt(w, g, demand)
      BY <2>1, <2>2, <2>3
    <3>3. g \in RunningOf(w)
      BY <2>4
    <3> HIDE DEF g, demand
    <3>4. /\ Good(s) /\ s.holders = w.holders
          /\ \/ s.disconnected
             \/ demand /\ s.demand /\ ServedIn(s)
             \/ ~demand /\ s.demand = w.demand
      <4>1. IsOrTimesOut(w, w, g)
        BY DEF IsOrTimesOut
      <4> QED
        BY <3>1, <3>2, <3>3, <4>1, FailGood
    <3> QED
      BY <3>4 DEF demand
  <2>6. Kept(s)
    BY <1>4, <1>6, <2>5 DEF Kept, Demands
  <2> QED
    BY <1>4, <2>5, <2>6
<1>10. CASE t.gen = w.gen /\ (w.current = None \/ w.current \in w.settled)
  <2> DEFINE r == ResetPeer(w)
  <2>1. s = Recover(r, own)
    BY <1>1, <1>10 DEF HandleTransportClosed
  <2>2. w.current \notin RunningOf(w)
    BY <1>10 DEF RunningOf, None
  <2>3. Good(r) /\ r.gen = w.gen /\ SameDemand(r, w)
    BY <1>6, <2>2, ResetGood
  <2> HIDE DEF r
  <2>4. CASE ~r.disconnected /\ (own \/ r.demand)
    <3>1. s = [r EXCEPT !.demand = TRUE, !.recovering = TRUE]
      BY <2>1, <2>4 DEF Recover
    <3>2. r \in Transports /\ TRUE \in BOOLEAN
      BY <2>3 DEF Good
    <3>3. s \in Transports
      BY <3>1, <3>2, Zenon DEF Transports
    <3>4. SameConnection(s, r) /\ s.demand /\ s.recovering /\ ~s.disconnected
      BY <2>4, <3>1, <3>2 DEF Transports, SameConnection
    <3>5. Good(s)
      BY <2>3, <3>3, <3>4, DemandGood
    <3> QED
      BY <3>4, <3>5 DEF Kept, ServedIn
  <2>5. CASE ~(~r.disconnected /\ (own \/ r.demand))
    <3>1. s = r
      BY <2>1, <2>5 DEF Recover
    <3> QED
      BY <1>4, <1>6, <2>3, <2>5, <3>1 DEF Kept, Demands, SameDemand
  <2> QED
    BY <2>4, <2>5
<1>11. t.gen # w.gen \/ (t.gen = w.gen /\ (w.current = None \/ w.current \in w.settled))
       \/ (t.gen = w.gen /\ w.current # None /\ w.current \notin w.settled)
  OBVIOUS
<1> QED
  BY <1>8, <1>9, <1>10, <1>11

-----------------------------------------------------------------------------
(* The demand over a step.                                                 *)

\* What a step to s leaves of the demand of t.
Sticks(t, s) == t.demand /\ ~s.demand => s.disconnected \/ s.ready

LEMMA CallbackKept ==
  ASSUME MaxGen \in Nat, NEW t, Good(t), Kept(t), NEW s \in Callback(t)
  PROVE  Good(s) /\ Kept(s) /\ Sticks(t, s)
BY CallbackGood DEF Kept, ServedIn, Sticks

LEMMA FailKept ==
  ASSUME MaxGen \in Nat, NEW u, Good(u), Kept(u), NEW g \in Gens \ {None}, g <= u.gen,
         NEW t, IsOrTimesOut(t, u, g),
         NEW own, own = OwnDemand(u), NEW s \in FailAttempt(t, g, own)
  PROVE  Good(s) /\ Kept(s) /\ Sticks(u, s)
<1>1. own \in BOOLEAN /\ own = (u.demand \/ u.holders # {})
  BY DEF OwnDemand, HasReconnectDemand, Good, Transports
<1>2. /\ Good(s) /\ s.holders = u.holders
      /\ \/ s = u
         \/ s.disconnected
         \/ own /\ s.demand /\ ServedIn(s)
         \/ ~own /\ s.demand = u.demand
  <2>1. own \in BOOLEAN
    BY <1>1
  <2> QED
    BY <2>1, FailGood
<1> QED
  BY <1>1, <1>2 DEF Kept, Demands, Sticks

AtStage(t, g, to) == [t EXCEPT !.stage[g] = to]

\* A change of a stage or of a channel's state.
LEMMA StageGood ==
  ASSUME MaxGen \in Nat, NEW t, Good(t), Kept(t), NEW g \in Gens \ {None}, NEW to, g <= t.gen,
         \/ to = "none"
         \/ to = "greeting" /\ t.stage[g] = "negotiating",
         NEW s, s = AtStage(t, g, to)
  PROVE  /\ Good(s) /\ Kept(s) /\ SameDemand(s, t) /\ RunningOf(s) = RunningOf(t) /\ s.gen = t.gen
         /\ s.current = t.current /\ s.channel = t.channel /\ s.chan = t.chan /\ s.promise = t.promise
         /\ s.stage[g] = to
<1>1. t \in Transports /\ s = [t EXCEPT !.stage[g] = to]
  BY DEF Good, AtStage
<1>2. [t.stage EXCEPT ![g] = to] \in [Gens -> {"none", "preparing", "negotiating", "greeting"}]
  BY <1>1 DEF Transports
<1>3. s \in Transports
  BY <1>1, <1>2, Zenon DEF Transports
<1>4. /\ SameDemand(s, t) /\ s.gen = t.gen /\ s.current = t.current /\ s.channel = t.channel
      /\ s.chan = t.chan /\ s.promise = t.promise /\ s.settled = t.settled /\ s.ready = t.ready
      /\ s.deadline = t.deadline
  BY <1>1 DEF Transports, SameDemand
<1>5. \A h \in Gens : s.stage[h] = IF h = g THEN to ELSE t.stage[h]
  BY <1>1 DEF Transports
<1>6. RunningOf(s) = RunningOf(t)
  BY <1>4 DEF RunningOf
<1>7. OneAttempt(s) /\ Quiet(s) /\ (s.retryTimer => s.demand) /\ s.channel \in {None, s.gen}
  BY <1>4, <1>6 DEF Good, OneAttempt, Owns, Quiet, SameDemand
<1>8. PastOnly(s)
  BY <1>4, <1>5, OwnerRuns DEF Good, PastOnly, Gens
<1>9. Opening(s)
  <2>1. t.current \in Gens
    BY <1>1 DEF Transports
  <2> QED
    BY <1>4, <1>5, <1>6, <2>1 DEF Good, Opening
<1>10. Kept(s)
  BY <1>4, <1>6 DEF Kept, ServedIn, Published, Demands, SameDemand
<1> QED
  BY <1>3, <1>4, <1>5, <1>6, <1>7, <1>8, <1>9, <1>10 DEF Good

LEMMA ChanGood ==
  ASSUME MaxGen \in Nat, NEW t, Good(t), NEW g \in Gens \ {None}, t.chan[g] # "absent",
         NEW to \in {"open", "closing", "closed"}, NEW s, s = [t EXCEPT !.chan[g] = to]
  PROVE  /\ Good(s) /\ SameDemand(s, t) /\ s.gen = t.gen /\ s.channel = t.channel
         /\ Kept(t) /\ t.channel # g => Kept(s)
         /\ Kept(t) /\ to # "closed" => Kept(s)
<1>1. t \in Transports
  BY DEF Good
<1>2. [t.chan EXCEPT ![g] = to] \in [Gens -> {"absent", "connecting", "open", "closing", "closed"}]
  BY <1>1 DEF Transports
<1>3. s \in Transports
  BY <1>1, <1>2, Zenon DEF Transports
<1>4. /\ SameDemand(s, t) /\ s.gen = t.gen /\ s.current = t.current /\ s.channel = t.channel
      /\ s.stage = t.stage /\ s.promise = t.promise /\ s.settled = t.settled /\ s.ready = t.ready
      /\ s.deadline = t.deadline
  BY <1>1 DEF Transports, SameDemand
<1>5. \A h \in Gens : s.chan[h] = IF h = g THEN to ELSE t.chan[h]
  BY <1>1 DEF Transports
<1>6. RunningOf(s) = RunningOf(t)
  BY <1>4 DEF RunningOf
<1>7. OneAttempt(s) /\ Quiet(s) /\ (s.retryTimer => s.demand) /\ s.channel \in {None, s.gen}
  BY <1>4, <1>6 DEF Good, OneAttempt, Owns, Quiet, SameDemand
<1>8. PastOnly(s)
  BY <1>4, <1>5, OwnerRuns DEF Good, PastOnly, Gens
<1>0. t.channel \in Gens
  BY <1>1 DEF Transports
<1>9. Opening(s)
  BY <1>0, <1>4, <1>5, <1>6 DEF Good, Opening
<1>10. (Kept(t) /\ t.channel # g => Kept(s)) /\ (Kept(t) /\ to # "closed" => Kept(s))
  BY <1>0, <1>4, <1>5, <1>6 DEF Kept, ServedIn, Published, Demands, SameDemand
<1> QED
  BY <1>3, <1>4, <1>5, <1>6, <1>7, <1>8, <1>9, <1>10 DEF Good

-----------------------------------------------------------------------------
(* The steps.                                                              *)

StepGood(t, s) == Good(s) /\ Kept(s) /\ Sticks(t, s)

LEMMA InitGood == ASSUME MaxGen \in Nat PROVE Init => IInv
<1> SUFFICES ASSUME Init PROVE IInv
  OBVIOUS
<1>1. \A g \in Gens : transport.stage[g] = "none" /\ transport.chan[g] = "absent"
  BY DEF Init
<1>2. /\ transport.gen = 0 /\ transport.current = None /\ transport.promise = None
      /\ transport.channel = None /\ transport.settled = {} /\ transport.deadline = {}
      /\ ~transport.disconnected /\ ~transport.retryTimer /\ ~transport.demand
      /\ transport.holders = {}
  BY DEF Init
<1>3. RunningOf(transport) = {}
  BY <1>2 DEF RunningOf
<1>4. transport \in Transports
  <2>1. 0 \in Gens /\ None \in Gens /\ 0 \in Nat /\ FALSE \in BOOLEAN /\ {} \in SUBSET Holders /\ {} \in SUBSET Gens
    BY DEF None, Gens
  <2>2. /\ [g \in Gens |-> "none"] \in [Gens -> {"none", "preparing", "negotiating", "greeting"}]
        /\ [g \in Gens |-> "absent"] \in [Gens -> {"absent", "connecting", "open", "closing", "closed"}]
    OBVIOUS
  <2> QED
    BY <2>1, <2>2, Zenon DEF Init, Transports
<1> QED
  BY <1>1, <1>2, <1>3, <1>4 DEF IInv, Good, OneAttempt, PastOnly, Opening, Quiet, Kept, Demands, None

\* An attempt that is in open is of a generation that was.
LEMMA StagePast ==
  ASSUME MaxGen \in Nat, NEW t, Good(t), NEW g \in Gens \ {None},
         t.stage[g] # "none" \/ t.chan[g] # "absent" \/ g \in t.deadline
  PROVE  g <= t.gen
<1>1. g \in Nat /\ t.gen \in Nat
  BY OwnerRuns DEF Gens
<1>2. g \in t.deadline => g \in RunningOf(t)
  BY DEF Good, OneAttempt
<1> QED
  BY <1>1, <1>2 DEF Good, PastOnly, RunningOf

\* open throws, or finds that it lost ownership.
LEMMA OpenEnds ==
  ASSUME MaxGen \in Nat, NEW t, Good(t), Kept(t), NEW g \in Gens \ {None}, t.stage[g] # "none",
         NEW s \in FailAttempt([t EXCEPT !.stage[g] = "none"], g, OwnDemand(t))
  PROVE  StepGood(t, s)
<1> DEFINE u == [t EXCEPT !.stage[g] = "none"]
           own == OwnDemand(t)
<1>1. g <= t.gen
  BY StagePast
<1>3. s \in FailAttempt(u, g, own) /\ u = AtStage(t, g, "none")
  BY DEF AtStage
<1> HIDE DEF u
<1>2. Good(u) /\ Kept(u) /\ SameDemand(u, t) /\ u.gen = t.gen
  BY <1>1, <1>3, StageGood
<1>4. own = OwnDemand(u)
  BY <1>2 DEF OwnDemand, HasReconnectDemand, SameDemand
<1> HIDE DEF own
<1>5. Good(s) /\ Kept(s) /\ Sticks(u, s)
  <2>1. IsOrTimesOut(u, u, g)
    BY DEF IsOrTimesOut
  <2> QED
    BY <1>1, <1>2, <1>3, <1>4, <2>1, FailKept
<1> QED
  BY <1>2, <1>5 DEF StepGood, Sticks, SameDemand

LEMMA PublishGood ==
  ASSUME MaxGen \in Nat, IInv, NEW g \in Gens \ {None}, Publish(g)
  PROVE  StepGood(transport, transport')
<1> DEFINE t == transport
           s == transport'
<1>1. t.stage[g] = "preparing" /\ Good(t) /\ Kept(t) /\ t \in Transports
  BY DEF Publish, IInv, Good
<1>2. CASE Owns(t, g)
  <2>1. s = [t EXCEPT !.stage[g] = "negotiating", !.channel = g, !.chan[g] = "connecting"]
    BY <1>2 DEF Publish, OwnsAfterAwait
  <2> HIDE DEF t, s
  <2>2. t.current = g /\ g = t.gen /\ ~t.disconnected /\ g # None /\ g \in Gens
    BY <1>2 DEF Owns
  <2>3. g \in RunningOf(t)
    BY <1>1, <2>2 DEF Good, Opening
  <2>4. /\ [t.stage EXCEPT ![g] = "negotiating"] \in [Gens -> {"none", "preparing", "negotiating", "greeting"}]
        /\ [t.chan EXCEPT ![g] = "connecting"] \in [Gens -> {"absent", "connecting", "open", "closing", "closed"}]
    BY <1>1 DEF Transports
  <2>5. s \in Transports
    BY <1>1, <2>1, <2>2, <2>4, Zenon DEF Transports
  <2>6. /\ SameDemand(s, t) /\ s.gen = t.gen /\ s.current = t.current /\ s.channel = g
        /\ s.promise = t.promise /\ s.settled = t.settled /\ s.ready = t.ready /\ s.deadline = t.deadline
    BY <1>1, <2>1 DEF Transports, SameDemand
  <2>7. /\ s.stage[g] = "negotiating" /\ s.chan[g] = "connecting"
        /\ \A h \in Gens : h # g => s.stage[h] = t.stage[h] /\ s.chan[h] = t.chan[h]
    BY <1>1, <2>1 DEF Transports
  <2>8. RunningOf(s) = RunningOf(t)
    BY <2>6 DEF RunningOf
  <2>9. OneAttempt(s) /\ Quiet(s) /\ (s.retryTimer => s.demand) /\ s.channel \in {None, s.gen}
    BY <1>1, <2>2, <2>6, <2>8 DEF Good, OneAttempt, Owns, Quiet, SameDemand
  <2>10. PastOnly(s)
    <3>1. g \in Int /\ t.gen \in Int
      BY <1>1 DEF Gens, Transports
    <3> QED
      BY <1>1, <2>2, <2>6, <2>7, <3>1 DEF Good, PastOnly
  <2>11. Opening(s)
    BY <2>2, <2>3, <2>6, <2>7, <2>8 DEF Opening
  <2>12. Kept(s) /\ Sticks(t, s)
    BY <2>2, <2>6, <2>7 DEF Kept, ServedIn, Published, Sticks, SameDemand
  <2>13. StepGood(t, s)
    BY <2>5, <2>9, <2>10, <2>11, <2>12 DEF Good, StepGood
  <2> QED
    BY <2>13 DEF t, s
<1>3. CASE ~Owns(t, g)
  <2>1. s \in FailAttempt([t EXCEPT !.stage[g] = "none"], g, OwnDemand(t))
    BY <1>3 DEF Publish, OwnsAfterAwait
  <2> HIDE DEF t, s
  <2>2. StepGood(t, s)
    BY <1>1, <2>1, OpenEnds
  <2> QED
    BY <2>2 DEF t, s
<1> QED
  BY <1>2, <1>3

LEMMA HelloAckedGood ==
  ASSUME MaxGen \in Nat, IInv, NEW g \in Gens \ {None}, HelloAcked(g)
  PROVE  StepGood(transport, transport')
<1> DEFINE t == transport
           x == transport'
           a == AtStage(t, g, "none")
<1> SUFFICES StepGood(t, x)
  OBVIOUS
<1>1. /\ t.stage[g] = "greeting" /\ t.chan[g] = "open" /\ Owns(t, g)
      /\ Good(t) /\ Kept(t) /\ t \in Transports /\ g \in Gens
  BY DEF HelloAcked, IInv, Good
<1>2. PICK s \in Callback(a) :
        IF ~Owns(s, g)
        THEN x \in FailAttempt(s, g, OwnDemand(s))
        ELSE \E u \in Callback([s EXCEPT !.ready = TRUE]) :
               x \in IF Owns(u, g) THEN {Complete(u, g)} ELSE FailAttempt(u, g, OwnDemand(u))
  BY DEF HelloAcked, AtStage
<1>3. /\ g = t.gen /\ g = t.current /\ ~t.disconnected /\ g \in RunningOf(t) /\ t.channel = g
      /\ t.promise = g /\ g # None /\ g \in Nat
  BY <1>1, OwnerRuns DEF Good, Opening, Owns
<1>4. /\ Good(a) /\ Kept(a) /\ SameDemand(a, t) /\ RunningOf(a) = RunningOf(t) /\ a.gen = t.gen
      /\ a.current = t.current /\ a.channel = t.channel /\ a.chan = t.chan /\ a.stage[g] = "none"
      /\ a.promise = t.promise
  <2>1. g <= t.gen /\ a = AtStage(t, g, "none")
    BY <1>3
  <2> HIDE DEF a, t
  <2> QED
    BY <1>1, <2>1, StageGood
<1> HIDE DEF a, t, x
<1>5. Good(s) /\ Kept(s) /\ Sticks(t, s)
  BY <1>4, CallbackKept DEF Sticks, SameDemand
<1>6. /\ s.gen \in {g, g + 1} /\ (Owns(s, g) => s = a)
      /\ s = a \/ s.disconnected \/ s.demand = a.demand
  BY <1>3, <1>4, CallbackGood DEF Owns
<1>7. \A v : Good(v) /\ Kept(v) /\ v.gen \in {g, g + 1} /\ x \in FailAttempt(v, g, OwnDemand(v))
               => Good(x) /\ Kept(x) /\ Sticks(v, x)
  <2> SUFFICES ASSUME NEW v, Good(v), Kept(v), v.gen \in {g, g + 1}, x \in FailAttempt(v, g, OwnDemand(v))
               PROVE  Good(x) /\ Kept(x) /\ Sticks(v, x)
    OBVIOUS
  <2> DEFINE own == OwnDemand(v)
  <2>1. own = OwnDemand(v) /\ x \in FailAttempt(v, g, own) /\ g <= v.gen /\ IsOrTimesOut(v, v, g)
    BY <1>3 DEF IsOrTimesOut
  <2> HIDE DEF own
  <2> QED
    BY <2>1, FailKept
<1>8. CASE ~Owns(s, g)
  <2>1. Good(x) /\ Kept(x) /\ Sticks(s, x)
    BY <1>2, <1>5, <1>6, <1>7, <1>8
  <2>2. s.disconnected => x.disconnected
    <3>1. CASE s.disconnected
      <4>1. g \notin RunningOf(s)
        BY <1>5, <3>1, OwnerRuns
      <4>2. g \in s.settled
        BY <1>3, <1>5, <1>6, <4>1, OwnerRuns
      <4>3. x = s
        BY <1>2, <1>8, <4>2 DEF FailAttempt
      <4> QED
        BY <3>1, <4>3
    <3> QED
      BY <3>1
  <2> QED
    BY <1>4, <1>6, <2>1, <2>2 DEF StepGood, Sticks, SameDemand
<1>9. CASE Owns(s, g)
  <2> DEFINE b == [a EXCEPT !.ready = TRUE]
  <2>1. PICK u \in Callback(b) :
          x \in IF Owns(u, g) THEN {Complete(u, g)} ELSE FailAttempt(u, g, OwnDemand(u))
    BY <1>2, <1>6, <1>9
  <2>2. a \in Transports /\ TRUE \in BOOLEAN
    BY <1>4 DEF Good
  <2>3. b \in Transports
    BY <2>2, Zenon DEF Transports
  <2>4. /\ SameDemand(b, a) /\ b.gen = a.gen /\ b.current = a.current /\ b.channel = a.channel
        /\ b.promise = a.promise /\ b.settled = a.settled /\ b.ready = TRUE
        /\ b.deadline = a.deadline /\ b.stage = a.stage /\ b.chan = a.chan
    BY <2>2 DEF Transports, SameDemand
  <2> HIDE DEF b
  <2>5. RunningOf(b) = RunningOf(a)
    BY <2>4 DEF RunningOf
  <2>6. Good(b)
    BY <1>3, <1>4, <2>3, <2>4, <2>5 DEF Good, OneAttempt, Owns, PastOnly, Opening, Quiet, SameDemand
  <2>7. Kept(b)
    BY <1>4, <2>4, <2>5 DEF Kept, ServedIn, Published, Demands, SameDemand
  <2>8. Good(u) /\ Kept(u)
    BY <2>6, <2>7, CallbackKept
  <2>9. /\ u.gen \in {g, g + 1} /\ (Owns(u, g) => u = b)
        /\ u = b \/ u.disconnected \/ u.demand = b.demand
    <3>1. \/ u = b
          \/ u.gen \in {b.gen, b.gen + 1} /\ u.disconnected
          \/ u.gen = b.gen + 1 /\ u.demand = b.demand
      BY <2>6, CallbackGood
    <3>2. b.gen = g /\ g \in Nat
      BY <1>3, <1>4, <2>4
    <3> QED
      BY <3>1, <3>2 DEF Owns
  <2>10. CASE ~Owns(u, g)
    <3>1. x \in FailAttempt(u, g, OwnDemand(u))
      BY <2>1, <2>10
    <3>2. Good(x) /\ Kept(x) /\ Sticks(u, x)
      BY <1>7, <2>8, <2>9, <3>1
    <3>3. u.disconnected => x.disconnected
      <4> SUFFICES ASSUME u.disconnected PROVE x.disconnected
        OBVIOUS
      <4>1. g \notin RunningOf(u)
        BY <2>8, OwnerRuns
      <4>2. g \in u.settled
        BY <1>3, <2>8, <2>9, <4>1, OwnerRuns
      <4>3. x = u
        BY <3>1, <4>2 DEF FailAttempt
      <4> QED
        BY <4>3
    <3>4. Owns(b, g)
      BY <1>3, <1>4, <2>4 DEF Owns, SameDemand
    <3> QED
      BY <1>4, <2>4, <2>9, <2>10, <3>2, <3>3, <3>4 DEF StepGood, Sticks, SameDemand
  <2>11. CASE Owns(u, g)
    <3>1. x = Complete(b, g)
      BY <2>1, <2>9, <2>11
    <3> DEFINE f == Settled(b, g)
    <3>2. f = Settled(b, g) /\ x = [f EXCEPT !.promise = IF @ = g THEN None ELSE @,
                               !.retries = 0, !.demand = FALSE, !.retryTimer = FALSE]
      BY <3>1 DEF Complete
    <3> HIDE DEF f
    <3>3. /\ f \in Transports /\ f.settled = b.settled \cup {g} /\ f.deadline = b.deadline \ {g}
          /\ f.gen = b.gen /\ f.current = b.current /\ f.promise = b.promise /\ f.ready = b.ready
          /\ SameDemand(f, b) /\ f.channel = b.channel /\ f.chan = b.chan /\ f.stage = b.stage
      BY <1>1, <2>3, <3>2, SettledFields
    <3>4. f.promise = g
      BY <1>3, <1>4, <2>4, <3>3
    <3>5. None \in Gens /\ 0 \in Nat /\ FALSE \in BOOLEAN
      BY DEF None, Gens
    <3>6. x = [f EXCEPT !.promise = None, !.retries = 0, !.demand = FALSE, !.retryTimer = FALSE]
      BY <3>2, <3>4
    <3>7. x \in Transports
      BY <3>3, <3>5, <3>6, Zenon DEF Transports
    <3>8. /\ x.settled = b.settled \cup {g} /\ x.deadline = b.deadline \ {g} /\ x.promise = None
          /\ x.gen = g /\ x.current = g /\ x.ready = TRUE /\ x.channel = g /\ x.chan = t.chan
          /\ x.stage = a.stage /\ x.demand = FALSE /\ x.retryTimer = FALSE /\ ~x.disconnected
      <4>1. /\ x.settled = f.settled /\ x.deadline = f.deadline /\ x.promise = None
            /\ x.gen = f.gen /\ x.current = f.current /\ x.ready = f.ready /\ x.channel = f.channel
            /\ x.chan = f.chan /\ x.stage = f.stage /\ x.demand = FALSE /\ x.retryTimer = FALSE
            /\ x.disconnected = f.disconnected
        BY <3>3, <3>6 DEF Transports
      <4>2. ~f.disconnected
        BY <1>3, <1>4, <2>4, <3>3 DEF SameDemand
      <4>3. f.gen = g /\ f.current = g /\ f.channel = g /\ f.chan = t.chan /\ f.stage = a.stage
        BY <1>3, <1>4, <2>4, <3>3
      <4> QED
        BY <2>4, <3>3, <4>1, <4>2, <4>3
    <3>9. RunningOf(x) = {} /\ x.deadline = {}
      <4>1. b.deadline \subseteq {g} /\ \A h \in 1 .. g : h \in b.settled \cup {g}
        BY <1>3, <1>4, <2>4, <2>5, <2>6, OwnerRuns DEF RunningOf
      <4> QED
        BY <3>8, <4>1 DEF RunningOf
    <3>10. OneAttempt(x) /\ Quiet(x)
      BY <3>8, <3>9 DEF OneAttempt, Quiet
    <3>11. PastOnly(x)
      <4>1. \A h \in Gens \ {None} : h > g =>
              h \notin b.settled /\ h # g /\ b.stage[h] = "none" /\ b.chan[h] = "absent"
        BY <1>3, <1>4, <2>4, <2>6 DEF Good, PastOnly, Gens
      <4> QED
        BY <1>4, <2>4, <3>8, <4>1 DEF PastOnly
    <3>12. Opening(x)
      BY <1>1, <1>4, <3>8 DEF Opening
    <3>13. Kept(x) /\ Sticks(t, x)
      BY <1>1, <1>3, <3>8 DEF Kept, ServedIn, Published, Sticks
    <3> QED
      BY <3>7, <3>8, <3>10, <3>11, <3>12, <3>13 DEF Good, StepGood
  <2> QED
    BY <2>10, <2>11
<1> QED
  BY <1>8, <1>9

\* The retry timer and the queued recovery connect, if nothing else serves the demand.
LEMMA ConnectKept ==
  ASSUME MaxGen \in Nat, NEW t, Good(t), t.gen # MaxGen \/ Published(t) \/ RunningOf(t) # {},
         NEW s \in Connect(t)
  PROVE  Good(s) /\ Kept(s) /\ (t.demand => s.demand \/ s.disconnected)
BY ConnectGood DEF Kept, ServedIn

LEMMA TimersGood ==
  ASSUME MaxGen \in Nat, IInv, RetryTimerFires \/ RecoverConnection
  PROVE  StepGood(transport, transport')
<1> DEFINE t == transport
           x == transport'
<1> SUFFICES StepGood(t, x)
  OBVIOUS
<1>1. /\ Good(t) /\ Kept(t) /\ t \in Transports /\ t.gen \in Nat /\ t.gen < MaxGen
  BY OwnerRuns DEF IInv, Good, RetryTimerFires, RecoverConnection
<1>2. \E u \in Transports :
        /\ SameConnection(u, t) /\ u.demand = t.demand /\ u.holders = t.holders
        /\ u.retryTimer => t.retryTimer
        /\ t.disconnected \/ ~t.demand => u.retryTimer = t.retryTimer
        /\ x \in IF u.disconnected \/ ~u.demand THEN {u} ELSE Connect(u)
  <2>1. CASE RetryTimerFires
    <3> DEFINE u == [t EXCEPT !.retryTimer = FALSE]
    <3>1. t.retryTimer /\ x \in IF u.disconnected \/ ~u.demand THEN {u} ELSE Connect(u)
      BY <2>1 DEF RetryTimerFires
    <3>2. FALSE \in BOOLEAN
      OBVIOUS
    <3> HIDE DEF t, x
    <3>3. u \in Transports
      BY <1>1, <3>2, Zenon DEF Transports
    <3>4. SameConnection(u, t) /\ u.demand = t.demand /\ u.holders = t.holders /\ ~u.retryTimer
      BY <1>1 DEF Transports, SameConnection
    <3>5. t.demand /\ ~t.disconnected
      BY <1>1, <3>1 DEF Good, Quiet
    <3> HIDE DEF u
    <3> QED
      BY <3>1, <3>3, <3>4, <3>5
  <2>2. CASE RecoverConnection
    <3> DEFINE u == [t EXCEPT !.recovering = FALSE]
    <3>1. x \in IF u.disconnected \/ ~u.demand THEN {u} ELSE Connect(u)
      BY <2>2 DEF RecoverConnection
    <3>2. FALSE \in BOOLEAN
      OBVIOUS
    <3> HIDE DEF t, x
    <3>3. u \in Transports
      BY <1>1, <3>2, Zenon DEF Transports
    <3>4. SameConnection(u, t) /\ u.demand = t.demand /\ u.holders = t.holders /\ u.retryTimer = t.retryTimer
      BY <1>1 DEF Transports, SameConnection
    <3> HIDE DEF u
    <3> QED
      BY <3>1, <3>3, <3>4
  <2> QED
    BY <2>1, <2>2
<1> HIDE DEF t, x
<1>3. PICK u \in Transports :
        /\ SameConnection(u, t) /\ u.demand = t.demand /\ u.holders = t.holders
        /\ u.retryTimer => t.retryTimer
        /\ t.disconnected \/ ~t.demand => u.retryTimer = t.retryTimer
        /\ x \in IF u.disconnected \/ ~u.demand THEN {u} ELSE Connect(u)
  BY <1>2
<1>4. Good(u) /\ RunningOf(u) = RunningOf(t)
  <2>1. (u.disconnected => ~u.retryTimer /\ ~u.demand) /\ (u.retryTimer => u.demand)
    BY <1>1, <1>3 DEF Good, Quiet, SameConnection
  <2> QED
    BY <1>1, <1>3, <2>1, DemandGood
<1>5. CASE u.disconnected \/ ~u.demand
  <2>1. x = u
    BY <1>3, <1>5
  <2> QED
    BY <1>1, <1>3, <1>4, <1>5, <2>1 DEF StepGood, Kept, ServedIn, Published, Demands, Sticks, SameConnection
<1>6. CASE ~(u.disconnected \/ ~u.demand)
  <2>1. x \in Connect(u) /\ u.gen # MaxGen
    BY <1>1, <1>3, <1>6 DEF SameConnection
  <2>2. Good(x) /\ Kept(x) /\ (u.demand => x.demand \/ x.disconnected)
    BY <1>4, <2>1, ConnectKept
  <2> QED
    BY <1>3, <2>2 DEF StepGood, Sticks
<1> QED
  BY <1>5, <1>6

\* The steps of the channel and its losses.
LEMMA ChannelGood ==
  ASSUME MaxGen \in Nat, IInv, NEW g \in Gens \ {None},
         \/ ChannelOpens(g) \/ ChannelStartsClosing(g) \/ ChannelCloses(g) \/ FailPeerGeneration(g)
  PROVE  StepGood(transport, transport')
<1> DEFINE t == transport
           x == transport'
<1> SUFFICES StepGood(t, x)
  OBVIOUS
<1>1. Good(t) /\ Kept(t) /\ t \in Transports
  BY DEF IInv, Good
<1>2. CASE ChannelOpens(g)
  <2> DEFINE u == [t EXCEPT !.chan[g] = "open"]
  <2>1. x \in Callback(u) /\ t.chan[g] # "absent"
    BY <1>2 DEF ChannelOpens
  <2> HIDE DEF t, x
  <2>2. Good(u) /\ Kept(u) /\ SameDemand(u, t)
    BY <1>1, <2>1, ChanGood
  <2> HIDE DEF u
  <2> QED
    BY <2>1, <2>2, CallbackKept DEF StepGood, Sticks, SameDemand
<1>3. CASE ChannelStartsClosing(g)
  <2>1. x = [t EXCEPT !.chan[g] = "closing"] /\ t.chan[g] # "absent"
    BY <1>3 DEF ChannelStartsClosing
  <2> HIDE DEF t, x
  <2> QED
    BY <1>1, <2>1, ChanGood DEF StepGood, Sticks, SameDemand
<1>4. CASE ChannelCloses(g)
  <2> DEFINE u == [t EXCEPT !.chan[g] = "closed"]
  <2>1. t.chan[g] # "absent" /\ IF IsCurrentPeer(t, g) THEN x \in Lose(u, g) ELSE x = u
    BY <1>4 DEF ChannelCloses
  <2> HIDE DEF t, x
  <2>2. Good(u) /\ SameDemand(u, t) /\ u.gen = t.gen /\ (t.channel # g => Kept(u))
    BY <1>1, <2>1, ChanGood
  <2> HIDE DEF u
  <2>3. CASE IsCurrentPeer(t, g)
    <3>1. x \in Lose(u, u.gen)
      BY <2>1, <2>2, <2>3 DEF IsCurrentPeer
    <3> QED
      BY <2>2, <3>1, LoseGood DEF StepGood, Sticks, SameDemand
  <2>4. CASE ~IsCurrentPeer(t, g)
    <3>1. t.channel # g
      BY <1>1, <2>4 DEF Good, IsCurrentPeer
    <3> QED
      BY <2>1, <2>2, <2>4, <3>1 DEF StepGood, Sticks, SameDemand
  <2> QED
    BY <2>3, <2>4
<1>5. CASE FailPeerGeneration(g)
  <2> DEFINE u == [t EXCEPT !.peerFailed = TRUE]
  <2>1. x \in Lose(u, t.gen) /\ TRUE \in BOOLEAN
    BY <1>5 DEF FailPeerGeneration
  <2> HIDE DEF t, x
  <2>2. u \in Transports
    BY <1>1, <2>1, Zenon DEF Transports
  <2>3. SameConnection(u, t) /\ SameDemand(u, t) /\ u.gen = t.gen
    BY <1>1 DEF Transports, SameConnection, SameDemand
  <2> HIDE DEF u
  <2>4. Good(u)
    BY <1>1, <2>2, <2>3, DemandGood DEF Good, Quiet, SameDemand
  <2> QED
    BY <2>1, <2>3, <2>4, LoseGood DEF StepGood, Sticks, SameDemand
<1> QED
  BY <1>2, <1>3, <1>4, <1>5

\* The other steps of an attempt.
LEMMA AttemptGood ==
  ASSUME MaxGen \in Nat, IInv, NEW g \in Gens \ {None},
         SendHello(g) \/ OpenFails(g) \/ AttemptTimesOut(g)
  PROVE  StepGood(transport, transport')
<1> DEFINE t == transport
           x == transport'
<1> SUFFICES StepGood(t, x)
  OBVIOUS
<1>1. Good(t) /\ Kept(t) /\ t \in Transports
  BY DEF IInv, Good
<1>2. CASE SendHello(g)
  <2>1. x = AtStage(t, g, "greeting") /\ t.stage[g] = "negotiating"
    BY <1>2 DEF SendHello, AtStage
  <2> HIDE DEF t, x
  <2>2. g <= t.gen
    BY <1>1, <2>1, StagePast
  <2> QED
    BY <1>1, <2>1, <2>2, StageGood DEF StepGood, Sticks, SameDemand
<1>3. CASE OpenFails(g)
  <2>1. t.stage[g] # "none" /\ x \in FailAttempt([t EXCEPT !.stage[g] = "none"], g, OwnDemand(t))
    BY <1>3 DEF OpenFails
  <2> HIDE DEF t, x
  <2> QED
    BY <1>1, <2>1, OpenEnds
<1>4. CASE AttemptTimesOut(g)
  <2> DEFINE u == [t EXCEPT !.deadline = @ \ {g}]
             own == OwnDemand(t)
  <2>1. g \in t.deadline /\ x \in FailAttempt(u, g, own) /\ IsOrTimesOut(u, t, g) /\ own = OwnDemand(t)
    BY <1>4 DEF AttemptTimesOut, IsOrTimesOut
  <2> HIDE DEF t, x, u, own
  <2>2. g <= t.gen
    BY <1>1, <2>1, StagePast
  <2> QED
    BY <1>1, <2>1, <2>2, FailKept DEF StepGood
<1> QED
  BY <1>2, <1>3, <1>4

\* The callers.
LEMMA CallersGood ==
  ASSUME MaxGen \in Nat, IInv,
         Request \/ Disconnect \/ \E h \in Holders : Subscribe(h) \/ Unsubscribe(h)
  PROVE  StepGood(transport, transport')
<1> DEFINE t == transport
           x == transport'
<1> SUFFICES StepGood(t, x)
  OBVIOUS
<1>1. Good(t) /\ Kept(t) /\ t \in Transports
  BY DEF IInv, Good
<1>2. CASE Request
  <2>1. x \in Callback(t)
    BY <1>2 DEF Request, Callback
  <2> HIDE DEF t, x
  <2> QED
    BY <1>1, <2>1, CallbackKept DEF StepGood
<1>3. CASE Disconnect
  <2>1. x \in Callback(t)
    BY <1>3 DEF Disconnect, Callback
  <2> HIDE DEF t, x
  <2> QED
    BY <1>1, <2>1, CallbackKept DEF StepGood
<1>4. ASSUME NEW h \in Holders, Subscribe(h) PROVE StepGood(t, x)
  <2> DEFINE u == [t EXCEPT !.holders = @ \cup {h}]
  <2>1. /\ x \in Connect(u) /\ ~t.disconnected
        /\ t.gen < MaxGen \/ Usable(t) \/ t.promise # None
    BY <1>4 DEF Subscribe
  <2> HIDE DEF t, x
  <2>2. t.holders \cup {h} \in SUBSET Holders
    BY <1>1 DEF Transports
  <2>3. u \in Transports
    BY <1>1, <2>2, Zenon DEF Transports
  <2>4. SameConnection(u, t) /\ u.demand = t.demand /\ u.retryTimer = t.retryTimer
    BY <1>1 DEF Transports, SameConnection
  <2> HIDE DEF u
  <2>5. Good(u) /\ RunningOf(u) = RunningOf(t)
    BY <1>1, <2>1, <2>3, <2>4, DemandGood DEF Good, SameConnection
  <2>6. u.gen # MaxGen \/ Published(u) \/ RunningOf(u) # {}
    BY <1>1, <2>1, <2>4, <2>5, OwnerRuns DEF Usable, Published, SameConnection
  <2> QED
    BY <2>1, <2>4, <2>5, <2>6, ConnectKept DEF StepGood, Sticks
<1>5. ASSUME NEW h \in Holders, Unsubscribe(h) PROVE StepGood(t, x)
  <2>1. x = [t EXCEPT !.holders = @ \ {h}]
    BY <1>5 DEF Unsubscribe
  <2> HIDE DEF t, x
  <2>2. t.holders \ {h} \in SUBSET Holders
    BY <1>1 DEF Transports
  <2>3. x \in Transports
    BY <1>1, <2>1, <2>2, Zenon DEF Transports
  <2>4. /\ SameConnection(x, t) /\ x.demand = t.demand /\ x.retryTimer = t.retryTimer
        /\ x.recovering = t.recovering /\ x.holders \subseteq t.holders
    BY <1>1, <2>1 DEF Transports, SameConnection
  <2>5. Good(x) /\ RunningOf(x) = RunningOf(t)
    BY <1>1, <2>3, <2>4, DemandGood DEF Good, Quiet, SameConnection
  <2> QED
    BY <1>1, <2>4, <2>5 DEF StepGood, Sticks, Kept, ServedIn, Published, Demands, SameConnection
<1> QED
  BY <1>2, <1>3, <1>4, <1>5

LEMMA StepPreserves ==
  ASSUME MaxGen \in Nat, IInv, [Next]_vars
  PROVE  StepGood(transport, transport')
<1>1. CASE UNCHANGED vars
  BY <1>1 DEF vars, IInv, StepGood, Sticks
<1>2. ASSUME NEW g \in Gens \ {None}, OpenAdvances(g) PROVE StepGood(transport, transport')
  BY <1>2, PublishGood, ChannelGood, AttemptGood, HelloAckedGood DEF OpenAdvances
<1>3. ASSUME NEW g \in Gens \ {None},
             OpenFails(g) \/ AttemptTimesOut(g) \/ ChannelStartsClosing(g) \/ ChannelCloses(g)
               \/ FailPeerGeneration(g)
      PROVE  StepGood(transport, transport')
  BY <1>3, ChannelGood, AttemptGood
<1>4. CASE RetryTimerFires \/ RecoverConnection
  BY <1>4, TimersGood
<1>5. CASE Request \/ Disconnect \/ \E h \in Holders : Subscribe(h) \/ Unsubscribe(h)
  BY <1>5, CallersGood
<1> QED
  BY <1>1, <1>2, <1>3, <1>4, <1>5 DEF Next

-----------------------------------------------------------------------------
(* The theorems.                                                           *)

\* startAttempt, failAttempt, handleTransportClosed, scheduleRetry: whatever order losses,
\* timers, callbacks and callers come in, the transport stays good and its demand kept.
THEOREM Inductive == ASSUME MaxGen \in Nat PROVE Spec => []IInv
<1>1. Init => IInv
  BY InitGood
<1>2. IInv /\ [Next]_vars => IInv'
  BY StepPreserves DEF StepGood, IInv
<1> QED
  BY <1>1, <1>2, PTL DEF Spec

\* Every field of the transport's connection keeps the shape the code gives it.
THEOREM TypeCorrect == ASSUME MaxGen \in Nat PROVE Spec => []TypeOK
<1>1. IInv => TypeOK
  BY DEF IInv, Good, TypeOK
<1> QED
  BY <1>1, Inductive, PTL

\* startAttempt, ownsAttempt: two attempts never run at once, and the one that runs owns
\* the client, is the one callers join and has its deadline armed.
THEOREM OneAttemptOwns == ASSUME MaxGen \in Nat PROVE Spec => []AttemptOwnsClient
<1>1. IInv => AttemptOwnsClient
  BY OwnerRuns DEF IInv, Good, OneAttempt, AttemptOwnsClient, Running, RunningOf
<1> QED
  BY <1>1, Inductive, PTL

\* captureReconnectDemand, failAttempt, scheduleRetry: a captured demand or a held entity
\* subscription always has a live channel, an attempt, a retry timer or a queued recovery.
THEOREM DemandServed == ASSUME MaxGen \in Nat PROVE Spec => []DemandIsServed
<1>1. IInv => DemandIsServed
  BY DEF IInv, Kept, Demands, ServedIn, Published, DemandIsServed, Served, Running, RunningOf
<1> QED
  BY <1>1, Inductive, PTL

\* publish: a channel is published only while its generation is the current one.
THEOREM PublishedCurrent == ASSUME MaxGen \in Nat PROVE Spec => []PublishedIsCurrent
<1>1. IInv => PublishedIsCurrent
  BY DEF IInv, Good, PublishedIsCurrent
<1> QED
  BY <1>1, Inductive, PTL

\* disconnect: nothing of the connection is left to act, whatever event arrives late.
THEOREM DisconnectIsFinal == ASSUME MaxGen \in Nat PROVE Spec => []QuietAfterDisconnect
<1>1. IInv => QuietAfterDisconnect
  BY DEF IInv, Good, Quiet, OneAttempt, QuietAfterDisconnect, Running, RunningOf
<1> QED
  BY <1>1, Inductive, PTL

\* resetPeerState, completeAttempt: no step drops a captured demand but a ready stream or
\* a disconnect.
THEOREM DemandSticks == ASSUME MaxGen \in Nat PROVE Spec => DemandIsSticky
<1>1. IInv /\ [Next]_vars
        => [transport.demand /\ ~transport'.demand => transport'.disconnected \/ transport'.ready]_vars
  BY StepPreserves DEF StepGood, Sticks
<1> QED
  BY <1>1, Inductive, PTL DEF Spec, DemandIsSticky

=============================================================================
