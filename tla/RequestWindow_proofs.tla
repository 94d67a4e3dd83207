------------------------ MODULE RequestWindow_proofs ------------------------
(***************************************************************************)
(* The request window for every number of callers, slots, waiters and peer *)
(* generations: slots are accounted for, the window and the line stay      *)
(* within their limits, nobody waits for a slot that nobody will hand on   *)
(* or for a peer that was lost, a caller settles once, and a response      *)
(* settles the caller whose request it answers.                            *)
(***************************************************************************)
EXTENDS RequestWindow, FiniteSetTheorems, TLAPS

\* Only a settled caller has an outcome.
SettledHasOutcome ==
  \A r \in Requests : outcome[r] # "none" => phase[r] = "settled"

\* The inductive invariant: the counters equal what the callers hold, and the
\* pending map holds exactly the callers that wait for an answer.
IInv ==
  /\ TypeOK
  /\ SlotAccounting
  /\ WindowBound
  /\ LineBound
  /\ PendingMatchesCallers
  /\ SettledHasOutcome

-----------------------------------------------------------------------------
(* Facts about finite sets and about the two small operators.              *)

\* Every set of callers is finite, with a natural cardinality.
LEMMA CallersFinite ==
  ASSUME NEW S \in SUBSET Requests
  PROVE  IsFiniteSet(S) /\ Cardinality(S) \in Nat
BY RequestsAssumption, FS_Subset, FS_CardinalityType

\* The smaller of two integers is one of them and bounded by both.
LEMMA SmallerOfBounds ==
  ASSUME NEW a \in Int, NEW b \in Int
  PROVE  /\ SmallerOf(a, b) \in Int
         /\ SmallerOf(a, b) <= a
         /\ SmallerOf(a, b) <= b
BY DEF SmallerOf

\* Taking a part away and adding a fresh part changes a set's size by theirs.
LEMMA SwapCardinality ==
  ASSUME NEW A \in SUBSET Requests, NEW R \in SUBSET A,
         NEW G \in SUBSET Requests, G \cap A = {}
  PROVE  Cardinality((A \ R) \cup G) = Cardinality(A) - Cardinality(R) + Cardinality(G)
<1>1. IsFiniteSet(A) /\ IsFiniteSet(R) /\ IsFiniteSet(G) /\ IsFiniteSet(A \ R)
  BY CallersFinite
<1>2. Cardinality(A \ R) = Cardinality(A) - Cardinality(A \cap R)
  BY <1>1, FS_Difference
<1>3. A \cap R = R
  OBVIOUS
<1>4. Cardinality((A \ R) \cup G)
        = Cardinality(A \ R) + Cardinality(G) - Cardinality((A \ R) \cap G)
  BY <1>1, FS_Union
<1>5. (A \ R) \cap G = {}
  OBVIOUS
<1>6. /\ Cardinality(A) \in Nat /\ Cardinality(R) \in Nat /\ Cardinality(G) \in Nat
      /\ Cardinality(A \ R) \in Nat
  BY <1>1, FS_CardinalityType
<1>7. Cardinality((A \ R) \cap G) = 0
  BY <1>5, FS_EmptySet
<1> QED
  BY <1>2, <1>3, <1>4, <1>6, <1>7

-----------------------------------------------------------------------------
(* Settlement with release of the slots, the step many actions share.      *)

\* Settling holders of slots keeps every part of the invariant that speaks of
\* phases, counters and the pending map, whichever generation is current.
LEMMA SettlesPreserves ==
  ASSUME IInv,
         NEW S \in SUBSET Requests, \A r \in S : phase[r] \in SlotPhases,
         NEW result \in Outcomes, NEW scope, NEW current \in Gens,
         Settles(S, result, scope, current),
         target' = target, rid' = rid
  PROVE  /\ phase' \in [Requests -> Phases]
         /\ outcome' \in [Requests -> Outcomes]
         /\ reserved' \in [Gens -> Nat]
         /\ DOMAIN pending' \subseteq Keys
         /\ \A k \in DOMAIN pending' : pending'[k] \in Requests
         /\ SlotAccounting'
         /\ WindowBound'
         /\ LineBound'
         /\ PendingMatchesCallers'
         /\ SettledHasOutcome'
         /\ \A r \in Requests : outcome[r] # "none" => outcome'[r] = outcome[r]
<1> DEFINE lineup == {r \in Waiting : target[r] = current}
           stale == IF S = {} THEN {} ELSE StaleWaiters(current)
           cancels == {r \in Waiting : target[r] \in scope}
<1>1. PICK granted \in SUBSET lineup :
        LET over == S \cup ((stale \cup cancels) \ granted)
        IN /\ Cardinality(granted) = GrantCount(S, current)
           /\ phase' = [r \in Requests |->
                          IF r \in granted THEN "granted"
                          ELSE IF r \in over THEN "settled" ELSE phase[r]]
           /\ outcome' = [r \in Requests |->
                            IF r \in S THEN result
                            ELSE IF r \in over THEN "failed" ELSE outcome[r]]
           /\ pending' = PendingWithout(S)
           /\ reserved' = [g \in Gens |->
                             reserved[g] - Released(S, g)
                               + (IF g = current THEN Cardinality(granted) ELSE 0)]
  BY Zenon DEF Settles
<1> DEFINE over == S \cup ((stale \cup cancels) \ granted)
           freed(g) == {r \in S : target[r] = g}
           kept(g) == IF g = current THEN granted ELSE {}
<1>2. granted \in SUBSET Requests /\ \A r \in granted : phase[r] = "waiting" /\ target[r] = current
  BY DEF Waiting
<1>3. over \in SUBSET Requests /\ \A r \in over \ S : phase[r] = "waiting"
  BY DEF Waiting, StaleWaiters
<1>4. phase \in [Requests -> Phases] /\ outcome \in [Requests -> Outcomes]
  BY DEF IInv, TypeOK
<1>5. phase' \in [Requests -> Phases] /\ outcome' \in [Requests -> Outcomes]
  BY <1>1, <1>4 DEF Phases, Outcomes
<1>6. \A g \in Gens : /\ Holders(g)' = (Holders(g) \ freed(g)) \cup kept(g)
                      /\ freed(g) \in SUBSET Holders(g)
                      /\ kept(g) \in SUBSET Requests
                      /\ kept(g) \cap Holders(g) = {}
  <2> TAKE g \in Gens
  <2>1. freed(g) \in SUBSET Holders(g)
    BY DEF Holders
  <2>2. kept(g) \in SUBSET Requests /\ kept(g) \cap Holders(g) = {}
    BY <1>2 DEF Holders, SlotPhases
  <2>3. \A r \in Requests : r \in Holders(g)' <=> r \in (Holders(g) \ freed(g)) \cup kept(g)
    BY <1>1, <1>2, <1>3, <1>4 DEF Holders, SlotPhases
  <2>4. Holders(g)' \in SUBSET Requests /\ Holders(g) \in SUBSET Requests
    BY DEF Holders
  <2> QED
    BY <2>1, <2>2, <2>3, <2>4
<1>7. \A g \in Gens : /\ Released(S, g) = Cardinality(freed(g))
                      /\ Released(S, g) \in Nat
                      /\ reserved[g] = Cardinality(Holders(g))
                      /\ reserved[g] \in Nat
                      /\ reserved[g] <= MaxOutstanding
  BY CallersFinite DEF Released, IInv, TypeOK, SlotAccounting, WindowBound
<1>8. \A g \in Gens : /\ Cardinality(Holders(g)') = reserved'[g]
                      /\ Cardinality(Holders(g)') \in Nat
  <2> TAKE g \in Gens
  <2>1. Cardinality((Holders(g) \ freed(g)) \cup kept(g))
          = Cardinality(Holders(g)) - Cardinality(freed(g)) + Cardinality(kept(g))
    BY <1>6, SwapCardinality DEF Holders
  <2>2. Cardinality(kept(g)) = IF g = current THEN Cardinality(granted) ELSE 0
    BY FS_EmptySet
  <2>3. Holders(g)' \in SUBSET Requests
    BY DEF Holders
  <2> QED
    BY <1>1, <1>6, <1>7, <2>1, <2>2, <2>3, CallersFinite
<1>9. \A g \in Gens : Cardinality(Holders(g)') <= MaxOutstanding
  <2> TAKE g \in Gens
  <2>1. CASE g # current
    <3>1. reserved'[g] = reserved[g] - Released(S, g) + 0
      BY <1>1, <2>1
    <3>2. /\ reserved[g] \in Nat /\ Released(S, g) \in Nat
          /\ reserved[g] <= MaxOutstanding
      BY <1>7
    <3>3. Cardinality(Holders(g)') = reserved'[g]
      BY <1>8
    <3> QED
      BY <3>1, <3>2, <3>3, LimitsAssumption
  <2>2. CASE g = current
    <3> DEFINE older == {r \in S : target[r] # current}
               free == SmallerOf(Cardinality(older), MaxOutstanding - reserved[current])
    <3>1. Cardinality(older) \in Int /\ Cardinality(lineup) \in Int
      BY CallersFinite DEF Waiting
    <3> HIDE DEF free, older, lineup
    <3>a. /\ reserved[current] \in Nat /\ Released(S, current) \in Nat
          /\ reserved[current] <= MaxOutstanding
      BY <1>7
    <3>2. MaxOutstanding - reserved[current] \in Int
      BY <3>a, LimitsAssumption
    <3>3. free \in Int /\ free <= MaxOutstanding - reserved[current]
      BY <3>1, <3>2, SmallerOfBounds DEF free
    <3>4. Released(S, current) + free \in Int
      BY <3>3, <3>a
    <3>5. GrantCount(S, current) = SmallerOf(Cardinality(lineup), Released(S, current) + free)
      BY Zenon DEF GrantCount, free, older, lineup
    <3>6. GrantCount(S, current) <= Released(S, current) + free
      BY <3>1, <3>4, <3>5, SmallerOfBounds
    <3>7. Cardinality(granted) \in Nat
      BY <1>2, CallersFinite
    <3>8. reserved'[current] = reserved[current] - Released(S, current) + Cardinality(granted)
      BY <1>1
    <3>9. reserved'[current] <= MaxOutstanding
      <4>1. Cardinality(granted) <= Released(S, current) + free
        BY <1>1, <3>6
      <4> QED
        BY <3>a, <3>3, <3>7, <3>8, <4>1, LimitsAssumption
    <3> QED
      BY <2>2, <3>9, <1>8
  <2> QED
    BY <2>1, <2>2
<1>10. reserved' \in [Gens -> Nat]
  <2>1. \A g \in Gens : reserved'[g] \in Nat
    BY <1>8
  <2> QED
    BY <1>1, <2>1
<1>11. LineBound'
  <2>1. Waiting' \in SUBSET Waiting /\ Waiting \in SUBSET Requests
    BY <1>1 DEF Waiting
  <2>2. Cardinality(Waiting') <= Cardinality(Waiting)
    BY <2>1, CallersFinite, FS_Subset
  <2>3. Cardinality(Waiting) <= MaxWaiting
    BY DEF IInv, LineBound
  <2> QED
    BY <2>1, <2>2, <2>3, CallersFinite, LimitsAssumption DEF LineBound
<1>12. /\ DOMAIN pending' = {k \in DOMAIN pending : pending[k] \notin S}
       /\ \A k \in DOMAIN pending' : pending'[k] = pending[k]
  BY <1>1 DEF PendingWithout
<1>13. /\ DOMAIN pending' \subseteq Keys
       /\ \A k \in DOMAIN pending' : pending'[k] \in Requests
  BY <1>12 DEF IInv, TypeOK
<1>14. PendingMatchesCallers'
  <2>1. ASSUME NEW r \in Requests, phase'[r] = "pending"
        PROVE  KeyOf(r)' \in DOMAIN pending' /\ pending'[KeyOf(r)'] = r
    <3>1. phase[r] = "pending" /\ r \notin S
      BY <1>1, <2>1
    <3>2. KeyOf(r)' = KeyOf(r)
      BY DEF KeyOf, PendingKey
    <3>3. KeyOf(r) \in DOMAIN pending /\ pending[KeyOf(r)] = r
      BY <3>1 DEF IInv, PendingMatchesCallers
    <3> QED
      BY <3>1, <3>2, <3>3, <1>12
  <2>2. ASSUME NEW k \in DOMAIN pending'
        PROVE  phase'[pending'[k]] = "pending"
    <3>1. k \in DOMAIN pending /\ pending[k] \notin S /\ pending'[k] = pending[k]
      BY <1>12
    <3>2. phase[pending[k]] = "pending" /\ pending[k] \in Requests
      BY <3>1 DEF IInv, PendingMatchesCallers, TypeOK
    <3>3. pending[k] \notin granted /\ pending[k] \notin over
      BY <3>1, <3>2, <1>2, <1>3
    <3> QED
      BY <3>1, <3>2, <3>3, <1>1
  <2> QED
    BY <2>1, <2>2 DEF PendingMatchesCallers
<1>15. \A r \in Requests : /\ outcome'[r] # "none" => phase'[r] = "settled"
                           /\ outcome[r] # "none" => outcome'[r] = outcome[r]
  <2> TAKE r \in Requests
  <2>1. outcome[r] # "none" => phase[r] = "settled"
    BY DEF IInv, SettledHasOutcome
  <2>2. r \in S => phase[r] \in SlotPhases
    OBVIOUS
  <2>3. r \in granted => ~(r \in S) /\ outcome[r] = "none"
    BY <1>2, <2>1, <2>2 DEF SlotPhases
  <2> QED
    BY <1>1, <1>2, <1>3, <2>1, <2>2, <2>3 DEF SlotPhases
<1> QED
  BY <1>5, <1>8, <1>9, <1>10, <1>11, <1>13, <1>14, <1>15
     DEF SlotAccounting, WindowBound, SettledHasOutcome

-----------------------------------------------------------------------------
(* The invariant is inductive.                                             *)

\* Nothing is reserved, waiting or pending before the first call.
LEMMA InitIInv == Init => IInv
<1> SUFFICES ASSUME Init PROVE IInv
  OBVIOUS
<1> USE DEF Init
<1>0. DOMAIN pending = {} /\ 0 \in Gens
  BY GenAssumption DEF Gens
<1>1. TypeOK
  <2>1. /\ phase \in [Requests -> Phases] /\ outcome \in [Requests -> Outcomes]
        /\ reserved \in [Gens -> Nat] /\ target \in [Requests -> Gens]
    BY <1>0 DEF Phases, Outcomes
  <2>2. /\ rid \in [Requests -> Nat] /\ ticket \in [Requests -> Nat]
        /\ nextTicket \in Nat /\ nextId \in Nat /\ gen \in Gens
    BY <1>0
  <2> QED
    BY <1>0, <2>1, <2>2 DEF TypeOK
<1>2. SlotAccounting /\ WindowBound
  <2>1. \A g \in Gens : Holders(g) = {}
    BY DEF Holders, SlotPhases
  <2>2. \A g \in Gens : Cardinality(Holders(g)) = 0 /\ reserved[g] = 0
    BY <2>1, FS_EmptySet
  <2> QED
    BY <2>2, LimitsAssumption DEF SlotAccounting, WindowBound
<1>3. LineBound
  <2>1. Waiting = {}
    BY DEF Waiting
  <2> QED
    BY <2>1, FS_EmptySet, LimitsAssumption DEF LineBound
<1>4. PendingMatchesCallers /\ SettledHasOutcome
  BY DEF PendingMatchesCallers, SettledHasOutcome
<1> QED
  BY <1>1, <1>2, <1>3, <1>4 DEF IInv

\* The phases outside the slot and the line: moving one caller between them
\* touches neither the counters nor the pending map.
LEMMA QuietMove ==
  ASSUME IInv, NEW r \in Requests, phase[r] \notin SlotPhases,
         phase' \in [Requests -> Phases], target' \in [Requests -> Gens],
         \A s \in Requests \ {r} : phase'[s] = phase[s] /\ target'[s] = target[s],
         phase'[r] \notin SlotPhases,
         rid' = rid, pending' = pending
  PROVE  /\ \A g \in Gens : Holders(g)' = Holders(g)
         /\ PendingMatchesCallers'
<1>1. \A g \in Gens : \A s \in Requests : s \in Holders(g)' <=> s \in Holders(g)
  BY DEF Holders, IInv, TypeOK
<1>2. \A g \in Gens : Holders(g)' = Holders(g)
  BY <1>1 DEF Holders
<1>3. \A s \in Requests : phase'[s] = "pending" => s # r
  BY DEF SlotPhases
<1>4. \A k \in DOMAIN pending : pending[k] \in Requests /\ pending[k] # r
  BY DEF IInv, TypeOK, PendingMatchesCallers, SlotPhases
<1>5. \A s \in Requests \ {r} : KeyOf(s)' = KeyOf(s)
  BY DEF KeyOf, PendingKey
<1>6. PendingMatchesCallers'
  BY <1>3, <1>4, <1>5 DEF IInv, PendingMatchesCallers
<1> QED
  BY <1>2, <1>6

\* A caller's outcome, once set, stays.
OutcomesStay == \A r \in Requests : outcome[r] # "none" => outcome'[r] = outcome[r]

\* The parts of the invariant follow when no caller enters or leaves a slot or
\* the line and the pending map stays.
LEMMA QuietStep ==
  ASSUME IInv, NEW r \in Requests, phase[r] \notin SlotPhases \cup {"waiting"},
         phase' \in [Requests -> Phases], target' \in [Requests -> Gens],
         outcome' \in [Requests -> Outcomes],
         \A s \in Requests \ {r} : /\ phase'[s] = phase[s] /\ target'[s] = target[s]
                                   /\ outcome'[s] = outcome[s],
         phase[r] # "settled",
         phase'[r] \notin SlotPhases \cup {"waiting"},
         outcome'[r] # "none" => phase'[r] = "settled",
         rid' = rid, pending' = pending, reserved' = reserved
  PROVE  /\ SlotAccounting' /\ WindowBound' /\ LineBound'
         /\ PendingMatchesCallers' /\ SettledHasOutcome' /\ OutcomesStay
<1>1. /\ \A g \in Gens : Holders(g)' = Holders(g)
      /\ PendingMatchesCallers'
  <2>1. phase'[r] \notin SlotPhases /\ phase[r] \notin SlotPhases
    OBVIOUS
  <2>2. \A s \in Requests \ {r} : phase'[s] = phase[s] /\ target'[s] = target[s]
    OBVIOUS
  <2> QED
    BY <2>1, <2>2, QuietMove
<1>2. SlotAccounting' /\ WindowBound'
  BY <1>1 DEF IInv, SlotAccounting, WindowBound
<1>3. Waiting' = Waiting
  <2>1. \A s \in Requests : s \in Waiting' <=> s \in Waiting
    BY DEF Waiting
  <2> QED
    BY <2>1 DEF Waiting
<1>4. LineBound'
  BY <1>3 DEF IInv, LineBound
<1>5. SettledHasOutcome' /\ OutcomesStay
  BY DEF IInv, SettledHasOutcome, OutcomesStay
<1> QED
  BY <1>1, <1>2, <1>4, <1>5

\* Nothing the invariant counts changes.
LEMMA Untouched ==
  ASSUME IInv, UNCHANGED <<phase, target, rid, reserved, pending, outcome>>
  PROVE  /\ SlotAccounting' /\ WindowBound' /\ LineBound'
         /\ PendingMatchesCallers' /\ SettledHasOutcome' /\ OutcomesStay
<1>1. \A g \in Gens : Holders(g)' = Holders(g)
  BY DEF Holders
<1>2. Waiting' = Waiting
  BY DEF Waiting
<1>3. \A r \in Requests : KeyOf(r)' = KeyOf(r)
  BY DEF KeyOf, PendingKey
<1> QED
  BY <1>1, <1>2, <1>3
     DEF IInv, SlotAccounting, WindowBound, LineBound, PendingMatchesCallers,
         SettledHasOutcome, OutcomesStay

\* connect() resolved: the caller gets a slot, a place in the line, or a refusal.
LEMMA ConnectedPreserves ==
  ASSUME IInv, NEW r \in Requests, Connected(r)
  PROVE  IInv' /\ OutcomesStay
<1>1. /\ phase[r] = "connecting" /\ outcome[r] = "none"
      /\ phase \in [Requests -> Phases] /\ target \in [Requests -> Gens]
      /\ outcome \in [Requests -> Outcomes] /\ reserved \in [Gens -> Nat]
      /\ ticket \in [Requests -> Nat] /\ nextTicket \in Nat /\ gen \in Gens
  BY DEF Connected, IInv, TypeOK, SettledHasOutcome
<1>2. /\ UNCHANGED <<peerVars, rid, nextId, pending, cancelled, wireVars>>
  BY DEF Connected
<1>3. CASE SettlesOutside(r, "failed") /\ UNCHANGED <<target, lineVars, reserved>>
  <2>1. /\ phase' \in [Requests -> Phases] /\ outcome' \in [Requests -> Outcomes]
        /\ phase'[r] = "settled"
        /\ \A s \in Requests \ {r} : phase'[s] = phase[s] /\ outcome'[s] = outcome[s]
    BY <1>1, <1>3 DEF SettlesOutside, Phases, Outcomes
  <2>2. TypeOK'
    BY <1>1, <1>2, <1>3, <2>1
       DEF IInv, TypeOK, peerVars, wireVars, lineVars
  <2>3. /\ SlotAccounting' /\ WindowBound' /\ LineBound'
        /\ PendingMatchesCallers' /\ SettledHasOutcome' /\ OutcomesStay
    BY <1>1, <1>2, <1>3, <2>1, QuietStep DEF SlotPhases
  <2> QED
    BY <2>2, <2>3 DEF IInv
<1>4. CASE /\ HasRoom(gen)
           /\ phase' = [phase EXCEPT ![r] = "granted"]
           /\ target' = [target EXCEPT ![r] = gen]
           /\ reserved' = [reserved EXCEPT ![gen] = @ + 1]
           /\ UNCHANGED <<lineVars, outcome>>
  <2>1. TypeOK'
    <3>1. /\ phase' \in [Requests -> Phases] /\ target' \in [Requests -> Gens]
          /\ reserved' \in [Gens -> Nat]
      BY <1>1, <1>4 DEF Phases
    <3> QED
      BY <1>2, <1>4, <3>1 DEF IInv, TypeOK, peerVars, wireVars, lineVars
  <2>2. r \notin Holders(gen) /\ Holders(gen)' = Holders(gen) \cup {r}
    <3>1. r \notin Holders(gen)
      BY <1>1 DEF Holders, SlotPhases
    <3>2. \A s \in Requests : s \in Holders(gen)' <=> s \in Holders(gen) \cup {r}
      BY <1>1, <1>2, <1>4 DEF Holders, SlotPhases, peerVars
    <3> QED
      BY <3>1, <3>2 DEF Holders
  <2>3. \A g \in Gens \ {gen} : Holders(g)' = Holders(g)
    <3>1. \A g \in Gens \ {gen} : \A s \in Requests : s \in Holders(g)' <=> s \in Holders(g)
      BY <1>1, <1>2, <1>4 DEF Holders, SlotPhases
    <3> QED
      BY <3>1 DEF Holders
  <2>4. /\ IsFiniteSet(Holders(gen)) /\ Cardinality(Holders(gen)) \in Nat
    BY CallersFinite DEF Holders
  <2>5. Cardinality(Holders(gen)') = Cardinality(Holders(gen)) + 1
    BY <2>2, <2>4, FS_AddElement
  <2>6. Cardinality(Holders(gen)) = reserved[gen] /\ reserved[gen] < MaxOutstanding
    BY <1>1, <1>4 DEF IInv, SlotAccounting, HasRoom
  <2>7. SlotAccounting' /\ WindowBound'
    <3>1. reserved'[gen] = reserved[gen] + 1
      BY <1>1, <1>4
    <3>2. \A g \in Gens \ {gen} : reserved'[g] = reserved[g]
      BY <1>1, <1>4
    <3>3. Cardinality(Holders(gen)') <= MaxOutstanding
      BY <2>4, <2>5, <2>6, LimitsAssumption
    <3>4. ASSUME NEW g \in Gens
          PROVE  reserved'[g] = Cardinality(Holders(g)') /\ Cardinality(Holders(g)') <= MaxOutstanding
      <4>1. CASE g = gen
        <5>1. gen' = gen
          BY <1>2 DEF peerVars
        <5>2. Holders(g)' = Holders(gen)'
          BY <4>1, <5>1 DEF Holders
        <5> QED
          BY <4>1, <5>2, <2>5, <2>6, <3>1, <3>3
      <4>2. CASE g # gen
        BY <4>2, <2>3, <3>2 DEF IInv, SlotAccounting, WindowBound
      <4> QED
        BY <4>1, <4>2
    <3> QED
      BY <3>4 DEF SlotAccounting, WindowBound
  <2>8. LineBound'
    <3>1. Waiting' = Waiting
      BY <1>1, <1>4 DEF Waiting
    <3> QED
      BY <3>1 DEF IInv, LineBound
  <2>9. PendingMatchesCallers'
    <3>1. \A s \in Requests : phase'[s] = "pending" => phase[s] = "pending" /\ s # r
      BY <1>1, <1>4
    <3>2. \A s \in Requests \ {r} : KeyOf(s)' = KeyOf(s)
      BY <1>1, <1>2, <1>4 DEF KeyOf, PendingKey
    <3>3. \A k \in DOMAIN pending : pending[k] \in Requests \ {r}
      BY <1>1 DEF IInv, TypeOK, PendingMatchesCallers
    <3> QED
      BY <1>1, <1>2, <1>4, <3>1, <3>2, <3>3 DEF IInv, PendingMatchesCallers
  <2>10. SettledHasOutcome' /\ OutcomesStay
    BY <1>1, <1>4 DEF IInv, SettledHasOutcome, OutcomesStay
  <2> QED
    BY <2>1, <2>7, <2>8, <2>9, <2>10 DEF IInv
<1>5. CASE /\ ~LineFull
           /\ phase' = [phase EXCEPT ![r] = "waiting"]
           /\ target' = [target EXCEPT ![r] = gen]
           /\ ticket' = [ticket EXCEPT ![r] = nextTicket]
           /\ nextTicket' = nextTicket + 1
           /\ UNCHANGED <<reserved, outcome>>
  <2>1. TypeOK'
    <3>1. /\ phase' \in [Requests -> Phases] /\ target' \in [Requests -> Gens]
          /\ ticket' \in [Requests -> Nat] /\ nextTicket' \in Nat
      BY <1>1, <1>5 DEF Phases
    <3> QED
      BY <1>2, <1>5, <3>1 DEF IInv, TypeOK, peerVars, wireVars
  <2>2. /\ \A g \in Gens : Holders(g)' = Holders(g)
        /\ PendingMatchesCallers'
    <3>1. phase'[r] \notin SlotPhases /\ phase[r] \notin SlotPhases
      BY <1>1, <1>5 DEF SlotPhases
    <3>2. \A s \in Requests \ {r} : phase'[s] = phase[s] /\ target'[s] = target[s]
      BY <1>1, <1>5
    <3>3. phase' \in [Requests -> Phases] /\ target' \in [Requests -> Gens]
      BY <1>1, <1>5 DEF Phases
    <3> QED
      BY <1>2, <3>1, <3>2, <3>3, QuietMove
  <2>3. SlotAccounting' /\ WindowBound'
    BY <1>5, <2>2 DEF IInv, SlotAccounting, WindowBound
  <2>4. LineBound'
    <3>1. Waiting' = Waiting \cup {r} /\ r \notin Waiting
      BY <1>1, <1>5 DEF Waiting
    <3>2. IsFiniteSet(Waiting) /\ Cardinality(Waiting) \in Nat
      BY CallersFinite DEF Waiting
    <3>3. Cardinality(Waiting') = Cardinality(Waiting) + 1
      BY <3>1, <3>2, FS_AddElement
    <3> QED
      BY <1>5, <3>2, <3>3, LimitsAssumption DEF LineBound, LineFull
  <2>5. SettledHasOutcome' /\ OutcomesStay
    BY <1>1, <1>5 DEF IInv, SettledHasOutcome, OutcomesStay
  <2> QED
    BY <2>1, <2>2, <2>3, <2>4, <2>5 DEF IInv
<1> QED
  BY <1>3, <1>4, <1>5 DEF Connected

\* A settlement with release is a whole step of the invariant when the rest of
\* the state it leaves is typed.
LEMMA SettlingStep ==
  ASSUME IInv,
         NEW S \in SUBSET Requests, \A r \in S : phase[r] \in SlotPhases,
         NEW result \in Outcomes, NEW scope, NEW current \in Gens,
         Settles(S, result, scope, current),
         UNCHANGED <<target, rid, lineVars, cancelled>>,
         gen' \in Gens, link' \in {"down", "connecting", "open", "closing"},
         disconnected' \in BOOLEAN, connected' \subseteq Gens, nextId' \in Nat,
         sent' \subseteq sent, arriving' \subseteq arriving
  PROVE  IInv' /\ OutcomesStay
<1>1. /\ phase' \in [Requests -> Phases]
      /\ outcome' \in [Requests -> Outcomes]
      /\ reserved' \in [Gens -> Nat]
      /\ DOMAIN pending' \subseteq Keys
      /\ \A k \in DOMAIN pending' : pending'[k] \in Requests
      /\ SlotAccounting'
      /\ WindowBound'
      /\ LineBound'
      /\ PendingMatchesCallers'
      /\ SettledHasOutcome'
      /\ OutcomesStay
  BY SettlesPreserves, Zenon DEF OutcomesStay
<1>2. /\ target' \in [Requests -> Gens] /\ rid' \in [Requests -> Nat]
      /\ ticket' \in [Requests -> Nat] /\ nextTicket' \in Nat
      /\ cancelled' \subseteq Requests
      /\ sent' \subseteq [key : Keys, req : Requests]
      /\ arriving' \subseteq [key : Keys, req : Requests]
  BY DEF IInv, TypeOK, lineVars
<1>3. TypeOK'
  BY <1>1, <1>2 DEF TypeOK
<1> QED
  BY <1>1, <1>3 DEF IInv

\* A caller with its slot takes an id, or gives the slot back.
LEMMA SlotArrivesPreserves ==
  ASSUME IInv, NEW r \in Requests, SlotArrives(r)
  PROVE  IInv' /\ OutcomesStay
<1>1. /\ phase[r] = "granted" /\ outcome[r] = "none"
      /\ phase \in [Requests -> Phases] /\ rid \in [Requests -> Nat]
      /\ nextId \in Nat /\ gen \in Gens
      /\ outcome \in [Requests -> Outcomes]
  BY DEF SlotArrives, IInv, TypeOK, SettledHasOutcome
<1>2. UNCHANGED <<peerVars, target, lineVars, cancelled, wireVars>>
  BY DEF SlotArrives
<1>3. CASE Settles({r}, "failed", {}, gen) /\ UNCHANGED <<rid, nextId>>
  <2>1. {r} \in SUBSET Requests /\ \A s \in {r} : phase[s] \in SlotPhases
    BY <1>1 DEF SlotPhases
  <2>2. /\ gen' \in Gens /\ link' \in {"down", "connecting", "open", "closing"}
        /\ disconnected' \in BOOLEAN /\ connected' \subseteq Gens /\ nextId' \in Nat
        /\ sent' \subseteq sent /\ arriving' \subseteq arriving
    BY <1>1, <1>2, <1>3 DEF IInv, TypeOK, peerVars, wireVars
  <2>3. "failed" \in Outcomes
    BY DEF Outcomes
  <2>4. UNCHANGED <<target, rid, lineVars, cancelled>>
    BY <1>2, <1>3
  <2> QED
    BY <1>1, <1>3, <2>1, <2>2, <2>3, <2>4, SettlingStep
<1>4. CASE /\ rid' = [rid EXCEPT ![r] = nextId]
           /\ nextId' = FollowingId
           /\ phase' = [phase EXCEPT ![r] = "encrypting"]
           /\ UNCHANGED <<reserved, pending, outcome>>
  <2>1. TypeOK'
    <3>1. /\ phase' \in [Requests -> Phases] /\ rid' \in [Requests -> Nat]
          /\ nextId' \in Nat
      BY <1>1, <1>4 DEF Phases, FollowingId
    <3> QED
      BY <1>2, <1>4, <3>1 DEF IInv, TypeOK, peerVars, wireVars, lineVars
  <2>2. SlotAccounting' /\ WindowBound' /\ LineBound'
    <3>1. ASSUME NEW g \in Gens PROVE Holders(g)' = Holders(g)
      <4>1. \A s \in Requests : s \in Holders(g)' <=> s \in Holders(g)
        BY <1>1, <1>2, <1>4 DEF Holders, SlotPhases
      <4> QED
        BY <4>1 DEF Holders
    <3>2. Waiting' = Waiting
      BY <1>1, <1>4 DEF Waiting
    <3> QED
      BY <1>4, <3>1, <3>2 DEF IInv, SlotAccounting, WindowBound, LineBound
  <2>3. PendingMatchesCallers'
    <3>1. \A s \in Requests : phase'[s] = "pending" => phase[s] = "pending" /\ s # r
      BY <1>1, <1>4
    <3>2. \A s \in Requests \ {r} : KeyOf(s)' = KeyOf(s)
      BY <1>1, <1>2, <1>4 DEF KeyOf, PendingKey
    <3>3. \A k \in DOMAIN pending : pending[k] \in Requests \ {r}
      BY <1>1 DEF IInv, TypeOK, PendingMatchesCallers
    <3> QED
      BY <1>1, <1>4, <3>1, <3>2, <3>3 DEF IInv, PendingMatchesCallers
  <2>4. SettledHasOutcome' /\ OutcomesStay
    BY <1>1, <1>4 DEF IInv, SettledHasOutcome, OutcomesStay
  <2> QED
    BY <2>1, <2>2, <2>3, <2>4 DEF IInv
<1> QED
  BY <1>3, <1>4 DEF SlotArrives

\* The written frame's caller enters the pending map under a key of its own.
LEMMA WritePreserves ==
  ASSUME IInv, NEW r \in Requests, Write(r)
  PROVE  IInv' /\ OutcomesStay
<1>1. /\ phase[r] = "encrypting" /\ outcome[r] = "none"
      /\ phase \in [Requests -> Phases] /\ outcome \in [Requests -> Outcomes]
      /\ KeyOf(r) \in Keys /\ KeyOf(r) \notin DOMAIN pending
      /\ phase' = [phase EXCEPT ![r] = "pending"]
      /\ sent' = sent \cup {[key |-> KeyOf(r), req |-> r]}
      /\ UNCHANGED <<peerVars, target, rid, lineVars, reserved, nextId, cancelled,
                     arriving, outcome>>
  BY DEF Write, MayWrite, IInv, TypeOK, SettledHasOutcome, KeyOf, PendingKey, Keys
<1>2. /\ DOMAIN pending' = DOMAIN pending \cup {KeyOf(r)}
      /\ pending'[KeyOf(r)] = r
      /\ \A k \in DOMAIN pending : pending'[k] = pending[k]
  BY <1>1 DEF Write
<1>3. TypeOK'
  <2>1. phase' \in [Requests -> Phases]
    BY <1>1 DEF Phases
  <2>2. DOMAIN pending' \subseteq Keys /\ \A k \in DOMAIN pending' : pending'[k] \in Requests
    BY <1>1, <1>2 DEF IInv, TypeOK
  <2>3. sent' \subseteq [key : Keys, req : Requests]
    BY <1>1 DEF IInv, TypeOK
  <2> QED
    BY <1>1, <2>1, <2>2, <2>3 DEF IInv, TypeOK, peerVars, lineVars
<1>4. SlotAccounting' /\ WindowBound' /\ LineBound'
  <2>1. ASSUME NEW g \in Gens PROVE Holders(g)' = Holders(g)
    <3>1. \A s \in Requests : s \in Holders(g)' <=> s \in Holders(g)
      BY <1>1 DEF Holders, SlotPhases
    <3> QED
      BY <3>1 DEF Holders
  <2>2. Waiting' = Waiting
    BY <1>1 DEF Waiting
  <2> QED
    BY <1>1, <2>1, <2>2 DEF IInv, SlotAccounting, WindowBound, LineBound
<1>5. PendingMatchesCallers'
  <2>1. \A s \in Requests : KeyOf(s)' = KeyOf(s)
    BY <1>1 DEF KeyOf, PendingKey
  <2>2. ASSUME NEW s \in Requests, phase'[s] = "pending"
        PROVE  KeyOf(s)' \in DOMAIN pending' /\ pending'[KeyOf(s)'] = s
    <3>1. CASE s = r
      BY <3>1, <1>2, <2>1
    <3>2. CASE s # r
      BY <3>2, <1>1, <1>2, <2>1, <2>2 DEF IInv, PendingMatchesCallers
    <3> QED
      BY <3>1, <3>2
  <2>3. ASSUME NEW k \in DOMAIN pending'
        PROVE  phase'[pending'[k]] = "pending"
    <3>1. CASE k = KeyOf(r)
      BY <3>1, <1>1, <1>2
    <3>2. CASE k # KeyOf(r)
      BY <3>2, <1>1, <1>2, <2>3 DEF IInv, TypeOK, PendingMatchesCallers
    <3> QED
      BY <3>1, <3>2
  <2> QED
    BY <2>2, <2>3 DEF PendingMatchesCallers
<1>6. SettledHasOutcome' /\ OutcomesStay
  BY <1>1 DEF IInv, SettledHasOutcome, OutcomesStay
<1> QED
  BY <1>3, <1>4, <1>5, <1>6 DEF IInv

\* Every step of the request path keeps the invariant and the settled outcomes.
LEMMA StepPreserves == IInv /\ [Next]_vars => IInv' /\ OutcomesStay
<1> SUFFICES ASSUME IInv, [Next]_vars PROVE IInv' /\ OutcomesStay
  OBVIOUS
<1>0. /\ gen \in Gens /\ link \in {"down", "connecting", "open", "closing"}
      /\ disconnected \in BOOLEAN /\ connected \subseteq Gens /\ nextId \in Nat
      /\ phase \in [Requests -> Phases] /\ target \in [Requests -> Gens]
      /\ outcome \in [Requests -> Outcomes]
  BY DEF IInv, TypeOK
<1>1. ASSUME NEW r \in Requests, Call(r) PROVE IInv' /\ OutcomesStay
  <2>1. /\ phase[r] = "idle" /\ outcome[r] = "none"
        /\ gen' \in Gens /\ link' \in {"down", "connecting", "open", "closing"}
        /\ nextId' \in Nat
    BY <1>0, <1>1, GenAssumption
       DEF Call, StartsPeer, IInv, SettledHasOutcome, Gens
  <2>2. /\ phase' \in [Requests -> Phases] /\ target' \in [Requests -> Gens]
        /\ outcome' \in [Requests -> Outcomes]
        /\ phase'[r] \in {"settled", "connecting"}
        /\ outcome'[r] # "none" => phase'[r] = "settled"
        /\ \A s \in Requests \ {r} : /\ phase'[s] = phase[s] /\ target'[s] = target[s]
                                     /\ outcome'[s] = outcome[s]
    <3>1. CASE SettlesOutside(r, "failed") /\ UNCHANGED target
      BY <1>0, <2>1, <3>1 DEF SettlesOutside, Phases, Outcomes
    <3>2. CASE /\ phase' = [phase EXCEPT ![r] = "connecting"]
               /\ target' = [target EXCEPT ![r] = gen]
               /\ UNCHANGED outcome
      BY <1>0, <2>1, <3>2 DEF Phases
    <3>3. CASE /\ gen' = gen + 1
               /\ phase' = [phase EXCEPT ![r] = "connecting"]
               /\ target' = [target EXCEPT ![r] = gen + 1]
               /\ UNCHANGED outcome
      BY <1>0, <2>1, <3>3 DEF Phases
    <3> QED
      BY <1>1, <3>1, <3>2, <3>3 DEF Call, StartsPeer
  <2>3. UNCHANGED <<disconnected, connected, rid, lineVars, reserved, pending, cancelled,
                    wireVars>>
    BY <1>1 DEF Call
  <2>4. TypeOK'
    BY <2>1, <2>2, <2>3 DEF IInv, TypeOK, lineVars, wireVars
  <2>5. /\ SlotAccounting' /\ WindowBound' /\ LineBound'
        /\ PendingMatchesCallers' /\ SettledHasOutcome' /\ OutcomesStay
    BY <2>1, <2>2, <2>3, QuietStep DEF SlotPhases
  <2> QED
    BY <2>4, <2>5 DEF IInv
<1>2. ASSUME NEW r \in Requests, ConnectRejects(r) PROVE IInv' /\ OutcomesStay
  <2>1. /\ phase[r] = "connecting"
        /\ UNCHANGED <<peerVars, target, rid, lineVars, reserved, nextId, pending, cancelled,
                       wireVars>>
    BY <1>2 DEF ConnectRejects
  <2>2. /\ phase' \in [Requests -> Phases] /\ outcome' \in [Requests -> Outcomes]
        /\ phase'[r] = "settled"
        /\ \A s \in Requests \ {r} : phase'[s] = phase[s] /\ outcome'[s] = outcome[s]
    BY <1>0, <1>2 DEF ConnectRejects, SettlesOutside, Phases, Outcomes
  <2>3. TypeOK'
    BY <2>1, <2>2 DEF IInv, TypeOK, peerVars, lineVars, wireVars
  <2>4. /\ SlotAccounting' /\ WindowBound' /\ LineBound'
        /\ PendingMatchesCallers' /\ SettledHasOutcome' /\ OutcomesStay
    BY <1>0, <2>1, <2>2, QuietStep DEF SlotPhases
  <2> QED
    BY <2>3, <2>4 DEF IInv
<1>3. ASSUME NEW r \in Requests, WriteFails(r) \/ TimesOut(r) PROVE IInv' /\ OutcomesStay
  <2>1. /\ Settles({r}, "failed", {}, gen) \/ Settles({r}, "timeout", {}, gen)
        /\ UNCHANGED <<peerVars, target, rid, lineVars, nextId, cancelled, wireVars>>
        /\ phase[r] \in SlotPhases
    BY <1>3 DEF WriteFails, TimesOut, SlotPhases
  <2>2. /\ gen' \in Gens /\ link' \in {"down", "connecting", "open", "closing"}
        /\ disconnected' \in BOOLEAN /\ connected' \subseteq Gens /\ nextId' \in Nat
        /\ sent' \subseteq sent /\ arriving' \subseteq arriving
    BY <1>0, <2>1 DEF peerVars, wireVars
  <2>3. "failed" \in Outcomes /\ "timeout" \in Outcomes
    BY DEF Outcomes
  <2>4. {r} \in SUBSET Requests /\ \A s \in {r} : phase[s] \in SlotPhases
    BY <2>1
  <2>5. UNCHANGED <<target, rid, lineVars, cancelled>>
    BY <2>1
  <2> QED
    BY <1>0, <2>1, <2>2, <2>3, <2>4, <2>5, SettlingStep
<1>4. ASSUME NEW f \in arriving, AnswerDecrypted(f) PROVE IInv' /\ OutcomesStay
  <2>1. /\ arriving' = arriving \ {f}
        /\ UNCHANGED <<peerVars, target, rid, lineVars, nextId, cancelled, sent>>
    BY <1>4 DEF AnswerDecrypted
  <2>2. CASE f.key \in DOMAIN pending /\ Settles({pending[f.key]}, "response", {}, gen)
    <3>1. /\ {pending[f.key]} \in SUBSET Requests
          /\ \A s \in {pending[f.key]} : phase[s] \in SlotPhases
      BY <2>2 DEF IInv, TypeOK, PendingMatchesCallers, SlotPhases
    <3>2. /\ gen' \in Gens /\ link' \in {"down", "connecting", "open", "closing"}
          /\ disconnected' \in BOOLEAN /\ connected' \subseteq Gens /\ nextId' \in Nat
          /\ sent' \subseteq sent /\ arriving' \subseteq arriving
      BY <1>0, <2>1 DEF peerVars
    <3>3. "response" \in Outcomes
      BY DEF Outcomes
    <3>4. UNCHANGED <<target, rid, lineVars, cancelled>>
      BY <2>1
    <3> QED
      BY <1>0, <2>2, <3>1, <3>2, <3>3, <3>4, SettlingStep
  <2>3. CASE UNCHANGED <<phase, outcome, pending, reserved>>
    <3>1. TypeOK'
      BY <2>1, <2>3 DEF IInv, TypeOK, peerVars, lineVars
    <3> QED
      BY <2>1, <2>3, <3>1, Untouched DEF IInv
  <2> QED
    BY <1>4, <2>2, <2>3 DEF AnswerDecrypted
<1>5. ASSUME PeerLost \/ Disconnect PROVE IInv' /\ OutcomesStay
  <2>1. /\ Settles(Pending, "failed", Gens, gen)
        /\ UNCHANGED <<gen, connected, target, rid, lineVars, nextId, cancelled, wireVars>>
        /\ link' = "down" /\ disconnected' \in BOOLEAN
    BY <1>0, <1>5 DEF PeerLost, Disconnect
  <2>2. Pending \in SUBSET Requests /\ \A s \in Pending : phase[s] \in SlotPhases
    BY DEF Pending, SlotPhases
  <2>3. sent' \subseteq sent /\ arriving' \subseteq arriving /\ "failed" \in Outcomes
    BY <2>1 DEF wireVars, Outcomes
  <2>4. UNCHANGED <<target, rid, lineVars, cancelled>>
    BY <2>1
  <2>5. /\ gen' \in Gens /\ link' \in {"down", "connecting", "open", "closing"}
        /\ connected' \subseteq Gens /\ nextId' \in Nat
    BY <1>0, <2>1
  <2> QED
    BY <1>0, <2>1, <2>2, <2>3, <2>4, <2>5, SettlingStep
<1>6. ASSUME PeerLostAndReplaced PROVE IInv' /\ OutcomesStay
  <2> DEFINE lost == {r \in Pending : target[r] = gen}
  <2>1. /\ Settles(lost, "failed", {gen}, gen + 1)
        /\ UNCHANGED <<disconnected, connected, target, rid, lineVars, cancelled, wireVars>>
        /\ gen + 1 \in Gens /\ gen' = gen + 1 /\ link' = "connecting" /\ nextId' = 1
    BY <1>0, <1>6, GenAssumption DEF PeerLostAndReplaced, StartsPeer, Gens
  <2>2. lost \in SUBSET Requests /\ \A s \in lost : phase[s] \in SlotPhases
    BY DEF Pending, SlotPhases
  <2>3. sent' \subseteq sent /\ arriving' \subseteq arriving /\ "failed" \in Outcomes
    BY <2>1 DEF wireVars, Outcomes
  <2>4. UNCHANGED <<target, rid, lineVars, cancelled>>
    BY <2>1
  <2>5. /\ gen' \in Gens /\ link' \in {"down", "connecting", "open", "closing"}
        /\ disconnected' \in BOOLEAN /\ connected' \subseteq Gens /\ nextId' \in Nat
    BY <1>0, <2>1
  <2> HIDE DEF lost
  <2> QED
    BY <2>1, <2>2, <2>3, <2>4, <2>5, SettlingStep
<1>7. ASSUME \/ \E r \in Requests : Cancel(r)
             \/ \E f \in sent : AnswerArrives(f)
             \/ StartAttempt \/ AttemptCompletes \/ ChannelStartsClosing
             \/ UNCHANGED vars
      PROVE  IInv' /\ OutcomesStay
  <2>1. UNCHANGED <<phase, target, rid, reserved, pending, outcome>>
    BY <1>7 DEF Cancel, AnswerArrives, StartAttempt, AttemptCompletes,
                ChannelStartsClosing, vars
  <2>2. gen' \in Gens /\ nextId' \in Nat /\ connected' \subseteq Gens
    <3>1. CASE StartAttempt
      BY <1>0, <3>1, GenAssumption DEF StartAttempt, StartsPeer, Gens
    <3>2. CASE AttemptCompletes
      BY <1>0, <3>2 DEF AttemptCompletes
    <3> QED
      BY <1>0, <1>7, <3>1, <3>2
         DEF Cancel, AnswerArrives, ChannelStartsClosing, vars, peerVars
  <2>3. link' \in {"down", "connecting", "open", "closing"} /\ disconnected' \in BOOLEAN
    BY <1>0, <1>7
       DEF Cancel, AnswerArrives, StartAttempt, AttemptCompletes, StartsPeer,
           ChannelStartsClosing, vars, peerVars
  <2>4. /\ cancelled' \subseteq Requests
        /\ sent' \subseteq [key : Keys, req : Requests]
        /\ arriving' \subseteq [key : Keys, req : Requests]
        /\ ticket' = ticket /\ nextTicket' = nextTicket
    BY <1>7
       DEF IInv, TypeOK, Cancel, AnswerArrives, StartAttempt, AttemptCompletes,
           ChannelStartsClosing, vars, wireVars, lineVars
  <2>5. TypeOK'
    BY <2>1, <2>2, <2>3, <2>4 DEF IInv, TypeOK
  <2> QED
    BY <2>1, <2>5, Untouched DEF IInv
<1> QED
  BY <1>1, <1>2, <1>3, <1>4, <1>5, <1>6, <1>7, ConnectedPreserves, SlotArrivesPreserves,
     WritePreserves
     DEF Next, Continues

-----------------------------------------------------------------------------
(* The theorems.                                                           *)

\* The inductive invariant holds in every reachable state.
THEOREM Inductive == Spec => []IInv
  BY InitIInv, StepPreserves, PTL DEF Spec

\* The state of the request path keeps its types; no slot counter goes below zero.
THEOREM TypeCorrect == Spec => []TypeOK
<1>1. IInv => TypeOK
  BY DEF IInv
<1> QED
  BY <1>1, Inductive, PTL

\* For any number of callers and any order of grants, timeouts, cancellations
\* and losses, each generation's slot count is the number of its holders.
THEOREM SlotsAccounted == Spec => []SlotAccounting
<1>1. IInv => SlotAccounting
  BY DEF IInv
<1> QED
  BY <1>1, Inductive, PTL

\* No generation ever has more outstanding requests than its window, callers
\* that are still encrypting included.
THEOREM WindowHolds == Spec => []WindowBound
<1>1. IInv => WindowBound
  BY DEF IInv
<1> QED
  BY <1>1, Inductive, PTL

\* The pending map and the suspended callers agree in every reachable state.
THEOREM PendingAgrees == Spec => []PendingMatchesCallers
<1>1. IInv => PendingMatchesCallers
  BY DEF IInv
<1> QED
  BY <1>1, Inductive, PTL

\* A caller's promise settles once.
THEOREM CallersSettleOnce == Spec => SettlesOnce
<1>1. IInv /\ [Next]_vars
        => [\A r \in Requests : outcome[r] # "none" => outcome'[r] = outcome[r]]_vars
  BY StepPreserves DEF OutcomesStay
<1> QED
  BY <1>1, Inductive, PTL DEF Spec, SettlesOnce

-----------------------------------------------------------------------------
(* Waiters.                                                                *)

Holding == {r \in Requests : phase[r] \in SlotPhases}

\* The slots of all generations together fill a window while anybody waits.  NoLostWakeup
\* alone is not inductive: the holders of an older generation may release all their slots in
\* one step, and what they are worth to the waiters is their number.
FullWhileWaiting == Waiting # {} => Cardinality(Holding) >= MaxOutstanding

\* One release grants one slot, unless the current window is full already.
LEMMA SettlesKeepsFull ==
  ASSUME IInv, FullWhileWaiting,
         NEW S \in SUBSET Requests, \A r \in S : phase[r] \in SlotPhases,
         NEW result \in Outcomes, NEW scope, NEW current \in Gens,
         Settles(S, result, scope, current), target' = target, rid' = rid
  PROVE  FullWhileWaiting'
<1> DEFINE lineup == {r \in Waiting : target[r] = current}
           stale == IF S = {} THEN {} ELSE StaleWaiters(current)
           cancels == {r \in Waiting : target[r] \in scope}
           older == {r \in S : target[r] # current}
           newer == {r \in S : target[r] = current}
           free == SmallerOf(Cardinality(older), MaxOutstanding - reserved[current])
<1>1. PICK granted \in SUBSET lineup :
        LET over == S \cup ((stale \cup cancels) \ granted)
        IN /\ Cardinality(granted) = GrantCount(S, current)
           /\ phase' = [r \in Requests |->
                          IF r \in granted THEN "granted"
                          ELSE IF r \in over THEN "settled" ELSE phase[r]]
  BY Zenon DEF Settles
<1>2. /\ lineup \in SUBSET Requests /\ older \in SUBSET Requests /\ newer \in SUBSET Requests
      /\ granted \in SUBSET Requests /\ Holding \in SUBSET Requests
      /\ Waiting \in SUBSET Requests /\ S \in SUBSET Holding /\ granted \cap Holding = {}
  BY DEF Waiting, Holding, SlotPhases
<1>3. phase \in [Requests -> Phases]
  BY DEF IInv, TypeOK
<1>4. Holding' = (Holding \ S) \cup granted
  <2>1. \A r \in Requests : phase'[r] \in SlotPhases <=> r \in (Holding \ S) \cup granted
    BY <1>1, <1>2, <1>3 DEF Holding, SlotPhases, Waiting, StaleWaiters
  <2> QED
    BY <1>2, <2>1 DEF Holding
<1>5. Waiting' \in SUBSET Waiting /\ (S # {} => Waiting' \in SUBSET (lineup \ granted))
  <2>1. \A r \in Requests : phase'[r] = "waiting" => phase[r] = "waiting" /\ r \notin granted /\ r \notin stale
    BY <1>1
  <2> QED
    BY <2>1 DEF Waiting, StaleWaiters
<1>6. /\ Cardinality(S) \in Nat /\ Cardinality(granted) \in Nat /\ Cardinality(Holding) \in Nat
      /\ Cardinality(older) \in Nat /\ Cardinality(newer) \in Nat /\ Cardinality(lineup) \in Nat
      /\ Cardinality((Holding \ S) \cup granted) = Cardinality(Holding) - Cardinality(S) + Cardinality(granted)
  BY <1>2, CallersFinite, SwapCardinality
<1>7. Cardinality(S) = Cardinality(newer) + Cardinality(older)
  <2>1. IsFiniteSet(newer) /\ IsFiniteSet(older)
    BY <1>2, CallersFinite
  <2>2. newer \cup older = S /\ newer \cap older = {}
    OBVIOUS
  <2>3. Cardinality(newer \cup older) = Cardinality(newer) + Cardinality(older) - Cardinality(newer \cap older)
    BY <2>1, FS_Union
  <2>4. Cardinality(newer \cap older) = 0
    BY <2>2, FS_EmptySet
  <2> HIDE DEF newer, older
  <2>5. Cardinality(S) = Cardinality(newer) + Cardinality(older) - Cardinality(newer \cap older)
    BY <2>2, <2>3
  <2> QED
    BY <1>6, <2>4, <2>5
<1>8. Released(S, current) = Cardinality(newer)
  BY DEF Released
<1>9. /\ reserved[current] \in Nat /\ reserved[current] <= MaxOutstanding
      /\ reserved[current] = Cardinality(Holders(current))
  BY DEF IInv, TypeOK, SlotAccounting, WindowBound
<1>10. GrantCount(S, current) = SmallerOf(Cardinality(lineup), Cardinality(newer) + free)
  BY <1>8, Zenon DEF GrantCount
<1>11. CASE S = {}
  <2>1. Cardinality(S) = 0
    BY <1>11, FS_EmptySet
  <2>2. Cardinality(Holding') >= Cardinality(Holding)
    BY <1>4, <1>6, <2>1
  <2> QED
    BY <1>2, <1>4, <1>5, <1>6, <2>2, LimitsAssumption DEF FullWhileWaiting
<1>12. CASE S # {} /\ Waiting' # {}
  <2>1. granted # lineup /\ granted \in SUBSET lineup
    BY <1>5, <1>12
  <2>2. Cardinality(granted) < Cardinality(lineup)
    BY <1>2, <2>1, CallersFinite, FS_Subset
  <2>3. Cardinality(granted) = Cardinality(newer) + free
    <3>1. Cardinality(granted) = SmallerOf(Cardinality(lineup), Cardinality(newer) + free)
      BY <1>1, <1>10
    <3> HIDE DEF lineup, newer, free
    <3> QED
      BY <1>6, <2>2, <3>1 DEF SmallerOf
  <2>4. Cardinality(Holding) >= MaxOutstanding
    BY <1>5, <1>12 DEF FullWhileWaiting
  <2>5. CASE Cardinality(older) <= MaxOutstanding - reserved[current]
    <3>1. free = Cardinality(older)
      BY <2>5 DEF SmallerOf
    <3>2. Cardinality(Holding') = Cardinality(Holding)
      BY <1>4, <1>6, <1>7, <2>3, <3>1
    <3> QED
      BY <2>4, <3>2 DEF FullWhileWaiting
  <2>6. CASE ~(Cardinality(older) <= MaxOutstanding - reserved[current])
    <3>1. free = MaxOutstanding - reserved[current]
      BY <2>6 DEF SmallerOf
    <3>2. Cardinality(Holders(current) \ newer) = Cardinality(Holders(current)) - Cardinality(newer)
      <4>1. newer \in SUBSET Holders(current) /\ Holders(current) \in SUBSET Requests
        BY DEF Holders
      <4>2. Holders(current) \cap newer = newer
        BY <4>1
      <4> QED
        BY <1>2, <4>1, <4>2, CallersFinite, FS_Difference
    <3> DEFINE part == (Holders(current) \ newer) \cup granted
    <3>3. part \in SUBSET Holding' /\ Holding' \in SUBSET Requests /\ part \in SUBSET Requests
      BY <1>2, <1>4 DEF Holders, Holding
    <3>4. Cardinality(part) = Cardinality(Holders(current)) - Cardinality(newer) + Cardinality(granted)
      <4>1. newer \in SUBSET Holders(current) /\ Holders(current) \in SUBSET Requests
            /\ granted \cap Holders(current) = {}
        BY <1>2 DEF Holders, Holding
      <4> QED
        BY <1>2, <4>1, SwapCardinality
    <3>5. Cardinality(part) = MaxOutstanding
      BY <1>6, <1>9, <2>3, <3>1, <3>4, LimitsAssumption
    <3>6. Cardinality(part) <= Cardinality(Holding')
      BY <3>3, CallersFinite, FS_Subset
    <3>7. Cardinality(Holding') \in Nat
      BY <3>3, CallersFinite
    <3> QED
      BY <3>5, <3>6, <3>7, LimitsAssumption DEF FullWhileWaiting
  <2>7. reserved[current] \in Int /\ MaxOutstanding \in Int
    BY <1>9, LimitsAssumption
  <2> QED
    BY <1>6, <2>5, <2>6
<1> QED
  BY <1>11, <1>12 DEF FullWhileWaiting

\* A step that gives nobody's slot away and puts nobody in line.
LEMMA KeepsFull ==
  ASSUME IInv, FullWhileWaiting, Waiting' \in SUBSET Waiting, Holding \in SUBSET Holding'
  PROVE  FullWhileWaiting'
<1>1. Holding \in SUBSET Requests /\ Holding' \in SUBSET Requests
  BY DEF Holding
<1>2. Cardinality(Holding) <= Cardinality(Holding') /\ Cardinality(Holding) \in Nat /\ Cardinality(Holding') \in Nat
  BY <1>1, CallersFinite, FS_Subset
<1> QED
  BY <1>2, LimitsAssumption DEF FullWhileWaiting

\* What the steps with a settlement have in common.
SettlesSome(S, result) ==
  /\ S \in SUBSET Requests /\ \A r \in S : phase[r] \in SlotPhases
  /\ UNCHANGED <<target, rid>> /\ sent' = sent /\ arriving' \subseteq arriving
  /\ (gen' = gen /\ nextId' = nextId) \/ gen' = gen + 1
  /\ \E scope : \E current \in Gens : Settles(S, result, scope, current)
  /\ result = "response" =>
       \E f \in arriving \ arriving' : f.key \in DOMAIN pending /\ S = {pending[f.key]}

Settling == \E S, result : result \in Outcomes /\ SettlesSome(S, result)

\* The other steps move one caller, or none.
Moving(r) ==
  /\ \A s \in Requests \ {r} : phase'[s] = phase[s] /\ target'[s] = target[s] /\ rid'[s] = rid[s]
  /\ sent' = sent /\ arriving' = arriving /\ pending' = pending
  /\ (gen' = gen /\ nextId' = nextId) \/ gen' = gen + 1
  /\ outcome' = outcome \/ outcome' = [outcome EXCEPT ![r] = "failed"]
  /\ phase[r] \in {"idle", "connecting"}
  /\ phase'[r] \in {"connecting", "settled", "granted", "waiting"}
  /\ phase'[r] = "waiting" => Waiting # {} \/ ~HasRoom(gen)

Resting ==
  /\ UNCHANGED <<phase, target, rid, pending, outcome>>
  /\ sent' \subseteq sent /\ arriving' \subseteq sent \cup arriving
  /\ (gen' = gen /\ nextId' = nextId) \/ gen' = gen + 1

TakesId(r) ==
  /\ phase[r] = "granted" /\ target[r] = gen /\ rid' = [rid EXCEPT ![r] = nextId]
  /\ nextId' = nextId + 1 /\ phase' = [phase EXCEPT ![r] = "encrypting"]
  /\ UNCHANGED <<gen, target, pending, outcome, sent, arriving>>

LEMMA OneSettles ==
  ASSUME IInv, NEW r \in Requests, phase[r] \in SlotPhases, NEW result \in Outcomes \ {"response"},
         Settles({r}, result, {}, gen),
         UNCHANGED <<gen, target, rid, nextId, sent, arriving>>
  PROVE  Settling
<1>1. gen \in Gens /\ {r} \in SUBSET Requests /\ \A s \in {r} : phase[s] \in SlotPhases
  BY DEF IInv, TypeOK
<1>2. \E scope : \E current \in Gens : Settles({r}, result, scope, current)
  BY <1>1
<1>3. SettlesSome({r}, result)
  BY <1>1, <1>2 DEF SettlesSome
<1> QED
  BY <1>3 DEF Settling

\* Every step of the request path is one of these.
LEMMA StepKinds ==
  ASSUME IInv, [Next]_vars
  PROVE  \/ Settling \/ Resting
         \/ \E r \in Requests : Moving(r) \/ TakesId(r) \/ Write(r)
<1>0. /\ gen \in Gens /\ phase \in [Requests -> Phases] /\ target \in [Requests -> Gens]
      /\ rid \in [Requests -> Nat] /\ outcome \in [Requests -> Outcomes]
  BY DEF IInv, TypeOK
<1>1. ASSUME NEW r \in Requests, Call(r) \/ ConnectRejects(r) PROVE Moving(r)
  <2>1. /\ sent' = sent /\ arriving' = arriving /\ pending' = pending /\ rid' = rid
        /\ phase[r] \in {"idle", "connecting"}
        /\ (gen' = gen /\ nextId' = nextId) \/ gen' = gen + 1
    BY <1>1 DEF Call, ConnectRejects, StartsPeer, wireVars, peerVars
  <2>2. /\ phase' = [phase EXCEPT ![r] = "settled"] \/ phase' = [phase EXCEPT ![r] = "connecting"]
        /\ outcome' = outcome \/ outcome' = [outcome EXCEPT ![r] = "failed"]
        /\ target' = target \/ target' = [target EXCEPT ![r] = gen] \/ target' = [target EXCEPT ![r] = gen + 1]
    BY <1>1 DEF Call, ConnectRejects, SettlesOutside
  <2> QED
    BY <1>0, <2>1, <2>2 DEF Moving
<1>2. ASSUME NEW r \in Requests, Connected(r) PROVE Moving(r)
  <2>1. /\ sent' = sent /\ arriving' = arriving /\ pending' = pending /\ rid' = rid
        /\ phase[r] = "connecting" /\ gen' = gen /\ nextId' = nextId
    BY <1>2 DEF Connected, wireVars, peerVars
  <2>2. /\ \/ phase' = [phase EXCEPT ![r] = "settled"] \/ phase' = [phase EXCEPT ![r] = "granted"]
           \/ phase' = [phase EXCEPT ![r] = "waiting"] /\ (Waiting # {} \/ ~HasRoom(gen))
        /\ outcome' = outcome \/ outcome' = [outcome EXCEPT ![r] = "failed"]
        /\ target' = target \/ target' = [target EXCEPT ![r] = gen]
    BY <1>2 DEF Connected, SettlesOutside
  <2> QED
    BY <1>0, <2>1, <2>2 DEF Moving
<1>3. ASSUME NEW r \in Requests, SlotArrives(r) PROVE Settling \/ TakesId(r)
  <2>1. CASE r \in cancelled \/ ~OwnsSendTarget(r)
    <3>1. /\ Settles({r}, "failed", {}, gen) /\ phase[r] \in SlotPhases
          /\ UNCHANGED <<gen, target, rid, nextId, sent, arriving>>
      BY <1>3, <2>1 DEF SlotArrives, wireVars, peerVars, SlotPhases
    <3>2. "failed" \in Outcomes \ {"response"}
      BY DEF Outcomes
    <3> QED
      BY <3>1, <3>2, OneSettles
  <2>2. CASE ~(r \in cancelled \/ ~OwnsSendTarget(r))
    BY <1>3, <2>2 DEF SlotArrives, TakesId, OwnsSendTarget, FollowingId, wireVars, peerVars
  <2> QED
    BY <2>1, <2>2
<1>4. ASSUME NEW r \in Requests, WriteFails(r) \/ TimesOut(r) PROVE Settling
  <2>1. /\ Settles({r}, "failed", {}, gen) \/ Settles({r}, "timeout", {}, gen)
        /\ phase[r] \in SlotPhases /\ UNCHANGED <<gen, target, rid, nextId, sent, arriving>>
    BY <1>4 DEF WriteFails, TimesOut, wireVars, peerVars, SlotPhases
  <2>2. "failed" \in Outcomes \ {"response"} /\ "timeout" \in Outcomes \ {"response"}
    BY DEF Outcomes
  <2> QED
    BY <2>1, <2>2, OneSettles
<1>5. ASSUME NEW f \in arriving, AnswerDecrypted(f) PROVE Settling \/ Resting
  <2>1. /\ arriving' = arriving \ {f} /\ sent' = sent
        /\ UNCHANGED <<gen, target, rid, nextId>>
    BY <1>5 DEF AnswerDecrypted, peerVars
  <2>2. CASE f.key \in DOMAIN pending /\ Settles({pending[f.key]}, "response", {}, gen)
    <3>1. /\ {pending[f.key]} \in SUBSET Requests
          /\ \A s \in {pending[f.key]} : phase[s] \in SlotPhases
      BY <2>2 DEF IInv, TypeOK, PendingMatchesCallers, SlotPhases
    <3>2. \E scope : \E current \in Gens : Settles({pending[f.key]}, "response", scope, current)
      BY <1>0, <2>2
    <3>3. f \in arriving \ arriving'
      BY <2>1
    <3>4. SettlesSome({pending[f.key]}, "response") /\ "response" \in Outcomes
      BY <2>1, <2>2, <3>1, <3>2, <3>3 DEF SettlesSome, Outcomes
    <3> QED
      BY <3>4 DEF Settling
  <2>3. CASE UNCHANGED <<phase, outcome, pending, reserved>>
    BY <2>1, <2>3 DEF Resting
  <2> QED
    BY <1>5, <2>2, <2>3 DEF AnswerDecrypted
<1>6. ASSUME PeerLost \/ Disconnect PROVE Settling
  <2>1. /\ Settles(Pending, "failed", Gens, gen)
        /\ UNCHANGED <<gen, target, rid, nextId, sent, arriving>>
    BY <1>6 DEF PeerLost, Disconnect, wireVars
  <2>2. Pending \in SUBSET Requests /\ \A s \in Pending : phase[s] \in SlotPhases
    BY DEF Pending, SlotPhases
  <2>3. \E scope : \E current \in Gens : Settles(Pending, "failed", scope, current)
    BY <1>0, <2>1
  <2>4. SettlesSome(Pending, "failed") /\ "failed" \in Outcomes
    BY <2>1, <2>2, <2>3 DEF SettlesSome, Outcomes
  <2> QED
    BY <2>4 DEF Settling
<1>7. ASSUME PeerLostAndReplaced PROVE Settling
  <2> DEFINE lost == {r \in Pending : target[r] = gen}
  <2>1. /\ Settles(lost, "failed", {gen}, gen + 1) /\ UNCHANGED <<target, rid, sent, arriving>>
        /\ gen + 1 \in Gens /\ gen' = gen + 1
    BY <1>0, <1>7, GenAssumption DEF PeerLostAndReplaced, StartsPeer, Gens, wireVars
  <2>2. lost \in SUBSET Requests /\ \A s \in lost : phase[s] \in SlotPhases
    BY DEF Pending, SlotPhases
  <2> HIDE DEF lost
  <2>3. \E scope : \E current \in Gens : Settles(lost, "failed", scope, current)
    BY <2>1
  <2>4. SettlesSome(lost, "failed") /\ "failed" \in Outcomes
    BY <2>1, <2>2, <2>3 DEF SettlesSome, Outcomes
  <2> QED
    BY <2>4 DEF Settling
<1>8. ASSUME \/ \E r \in Requests : Cancel(r)
             \/ \E f \in sent : AnswerArrives(f)
             \/ StartAttempt \/ AttemptCompletes \/ ChannelStartsClosing
             \/ UNCHANGED vars
      PROVE  Resting
  BY <1>8 DEF Resting, Cancel, AnswerArrives, StartAttempt, StartsPeer, AttemptCompletes,
              ChannelStartsClosing, vars, peerVars, wireVars
<1> QED
  BY <1>1, <1>2, <1>3, <1>4, <1>5, <1>6, <1>7, <1>8 DEF Next, Continues

LEMMA StaysFull ==
  ASSUME IInv, FullWhileWaiting, [Next]_vars
  PROVE  FullWhileWaiting'
<1>0. phase \in [Requests -> Phases] /\ gen \in Gens
  BY DEF IInv, TypeOK
<1>1. CASE Settling
  <2>1. PICK S, result : result \in Outcomes /\ SettlesSome(S, result)
    BY <1>1 DEF Settling
  <2>2. PICK scope : \E current \in Gens : Settles(S, result, scope, current)
    BY <2>1 DEF SettlesSome
  <2>3. PICK current \in Gens : Settles(S, result, scope, current)
    BY <2>2
  <2> QED
    BY <2>1, <2>3, SettlesKeepsFull DEF SettlesSome
<1>2. CASE Resting
  <2>1. Waiting' = Waiting /\ Holding' = Holding
    BY <1>2 DEF Resting, Waiting, Holding
  <2> QED
    BY <2>1, KeepsFull
<1>3. ASSUME NEW r \in Requests, Moving(r) PROVE FullWhileWaiting'
  <2>1. Holding \in SUBSET Holding'
    BY <1>3 DEF Moving, Holding, SlotPhases
  <2>2. CASE phase'[r] # "waiting"
    <3>1. Waiting' \in SUBSET Waiting
      BY <1>3, <2>2 DEF Moving, Waiting
    <3> QED
      BY <2>1, <3>1, KeepsFull
  <2>3. CASE phase'[r] = "waiting"
    <3>1. Cardinality(Holding) >= MaxOutstanding
      <4>1. CASE Waiting # {}
        BY <4>1 DEF FullWhileWaiting
      <4>2. CASE ~HasRoom(gen)
        <5>1. Holders(gen) \in SUBSET Holding /\ Holding \in SUBSET Requests
              /\ Holders(gen) \in SUBSET Requests
          BY DEF Holders, Holding
        <5>2. /\ Cardinality(Holders(gen)) <= Cardinality(Holding)
              /\ Cardinality(Holders(gen)) \in Nat /\ Cardinality(Holding) \in Nat
          BY <5>1, CallersFinite, FS_Subset
        <5>3. reserved[gen] = Cardinality(Holders(gen))
          BY <1>0 DEF IInv, SlotAccounting
        <5> QED
          BY <4>2, <5>2, <5>3, LimitsAssumption DEF HasRoom
      <4> QED
        BY <1>3, <2>3, <4>1, <4>2 DEF Moving
    <3>2. Holding \in SUBSET Requests /\ Holding' \in SUBSET Requests
      BY DEF Holding
    <3>3. Cardinality(Holding) <= Cardinality(Holding') /\ Cardinality(Holding) \in Nat
          /\ Cardinality(Holding') \in Nat
      BY <2>1, <3>2, CallersFinite, FS_Subset
    <3> QED
      BY <3>1, <3>3, LimitsAssumption DEF FullWhileWaiting
  <2> QED
    BY <2>2, <2>3
<1>4. ASSUME NEW r \in Requests, TakesId(r) \/ Write(r) PROVE FullWhileWaiting'
  <2>1. \/ phase[r] = "granted" /\ phase' = [phase EXCEPT ![r] = "encrypting"]
        \/ phase[r] = "encrypting" /\ phase' = [phase EXCEPT ![r] = "pending"]
    BY <1>4 DEF TakesId, Write
  <2>2. Waiting' \in SUBSET Waiting /\ Holding \in SUBSET Holding'
    BY <1>0, <2>1 DEF Waiting, Holding, SlotPhases
  <2> QED
    BY <2>2, KeepsFull
<1> QED
  BY <1>1, <1>2, <1>3, <1>4, StepKinds

\* grantWaitingSlot, for any number of callers and any order of releases, losses and
\* replacements: a waiter's window is full, or slots of an older generation are still
\* held, and the release of one hands a slot on.
THEOREM NobodyWaitsInVain == Spec => []NoLostWakeup
<1>1. Init => FullWhileWaiting
  <2>1. Init => Waiting = {}
    BY DEF Init, Waiting
  <2> QED
    BY <2>1 DEF FullWhileWaiting
<1>2. IInv /\ FullWhileWaiting /\ [Next]_vars => FullWhileWaiting'
  BY StaysFull
<1>3. IInv /\ FullWhileWaiting => NoLostWakeup
  <2> SUFFICES ASSUME IInv, FullWhileWaiting, NEW r \in Waiting,
                      ~(reserved[target[r]] >= MaxOutstanding)
               PROVE  \E g \in Gens : g # target[r] /\ reserved[g] > 0
    BY DEF NoLostWakeup
  <2>1. target[r] \in Gens /\ r \in Requests /\ target \in [Requests -> Gens]
    BY DEF IInv, TypeOK, Waiting
  <2>2. Cardinality(Holding) >= MaxOutstanding /\ reserved[target[r]] = Cardinality(Holders(target[r]))
    BY <2>1 DEF FullWhileWaiting, IInv, SlotAccounting
  <2>3. Holders(target[r]) # Holding
    BY <2>2
  <2>4. PICK s \in Holding : s \notin Holders(target[r])
    BY <2>3 DEF Holders, Holding
  <2>5. target[s] \in Gens /\ target[s] # target[r] /\ s \in Holders(target[s])
    BY <2>1, <2>4 DEF Holders, Holding
  <2>6. Holders(target[s]) \in SUBSET Requests
    BY DEF Holders
  <2>7. IsFiniteSet(Holders(target[s])) /\ Cardinality(Holders(target[s])) \in Nat
    BY <2>6, CallersFinite
  <2>8. Cardinality(Holders(target[s])) # 0
    BY <2>5, <2>7, FS_EmptySet
  <2>9. reserved[target[s]] > 0
    BY <2>5, <2>7, <2>8 DEF IInv, SlotAccounting
  <2> QED
    BY <2>5, <2>9
<1> QED
  BY <1>1, <1>2, <1>3, Inductive, PTL DEF Spec

-----------------------------------------------------------------------------
(* Answers.                                                                *)

\* The requests that carry an id, and the frames between their write and their settlement.
Numbered(r) == phase[r] \in {"encrypting", "pending"}
OnWire == sent \cup arriving

\* A key names one request and one frame of it: ids start again with a generation, and
\* grow within it.
Keyed ==
  /\ \A r \in Requests : Numbered(r) => target[r] <= gen /\ (target[r] = gen => rid[r] < nextId)
  /\ \A r, s \in Requests : Numbered(r) /\ Numbered(s) /\ KeyOf(r) = KeyOf(s) => r = s
  /\ \A f \in OnWire : f.key[1] <= gen /\ (f.key[1] = gen => f.key[2] < nextId)
  /\ \A r \in Requests : phase[r] = "encrypting" => \A f \in OnWire : f.key # KeyOf(r)
  /\ \A f \in OnWire : f.key \in DOMAIN pending => pending[f.key] = f.req

LEMMA WireTypes ==
  ASSUME IInv
  PROVE  /\ \A f \in OnWire : f.key \in Keys /\ f.key[1] \in Gens /\ f.key[1] \in Int
                              /\ f.key[2] \in Nat /\ f.req \in Requests
         /\ \A r \in Requests : /\ target[r] \in Int /\ target[r] \in Gens /\ rid[r] \in Nat
                                /\ KeyOf(r)[1] = target[r] /\ KeyOf(r)[2] = rid[r] /\ KeyOf(r) \in Keys
         /\ gen \in Int /\ nextId \in Nat /\ gen \in Gens
<1>1. \A k \in Keys : k[1] \in Gens /\ k[1] \in Int /\ k[2] \in Nat
  BY DEF Keys, Gens
<1>2. \A f \in OnWire : f.key \in Keys /\ f.req \in Requests
  BY DEF IInv, TypeOK, OnWire
<1>3. \A r \in Requests : target[r] \in Int /\ target[r] \in Gens /\ rid[r] \in Nat
  BY DEF IInv, TypeOK, Gens
<1>4. \A r \in Requests : KeyOf(r)[1] = target[r] /\ KeyOf(r)[2] = rid[r] /\ KeyOf(r) \in Keys
  BY <1>3 DEF KeyOf, PendingKey, Keys
<1>5. gen \in Int /\ nextId \in Nat /\ gen \in Gens
  BY DEF IInv, TypeOK, Gens
<1> QED
  BY <1>1, <1>2, <1>3, <1>4, <1>5

\* A step that numbers nobody and writes nothing.
LEMMA ShrinksKeyed ==
  ASSUME IInv, Keyed,
         \A r \in Requests : phase'[r] \in {"encrypting", "pending"} =>
           phase[r] = phase'[r] /\ target'[r] = target[r] /\ rid'[r] = rid[r],
         sent' \cup arriving' \subseteq OnWire,
         \A k \in DOMAIN pending' : k \in DOMAIN pending /\ pending'[k] = pending[k],
         (gen' = gen /\ nextId' = nextId) \/ gen' = gen + 1
  PROVE  Keyed'
<1>1. /\ \A f \in OnWire : f.key[1] \in Int /\ f.key[2] \in Nat
      /\ \A r \in Requests : target[r] \in Int /\ rid[r] \in Nat
      /\ gen \in Int /\ nextId \in Nat
  BY WireTypes
<1>2. \A r \in Requests : Numbered(r)' => Numbered(r) /\ KeyOf(r)' = KeyOf(r)
  BY DEF Numbered, KeyOf, PendingKey
<1>3. \A r \in Requests : Numbered(r)' => target'[r] <= gen' /\ (target'[r] = gen' => rid'[r] < nextId')
  <2> TAKE r \in Requests
  <2>1. Numbered(r)' => target'[r] <= gen /\ (target'[r] = gen => rid'[r] < nextId) /\ target'[r] \in Int
    BY <1>1, <1>2 DEF Keyed, Numbered
  <2> QED
    BY <1>1, <2>1
<1>4. \A r, s \in Requests : Numbered(r)' /\ Numbered(s)' /\ KeyOf(r)' = KeyOf(s)' => r = s
  BY <1>2 DEF Keyed
<1>5. OnWire' \subseteq OnWire
  BY DEF OnWire
<1>6. \A f \in OnWire' : f.key[1] <= gen' /\ (f.key[1] = gen' => f.key[2] < nextId')
  <2> TAKE f \in OnWire'
  <2>1. f.key[1] <= gen /\ (f.key[1] = gen => f.key[2] < nextId) /\ f.key[1] \in Int
    BY <1>1, <1>5 DEF Keyed
  <2> QED
    BY <1>1, <2>1
<1>7. \A r \in Requests : phase'[r] = "encrypting" => \A f \in OnWire' : f.key # KeyOf(r)'
  BY <1>2, <1>5 DEF Keyed, Numbered
<1>8. \A f \in OnWire' : f.key \in DOMAIN pending' => pending'[f.key] = f.req
  BY <1>5 DEF Keyed
<1> QED
  BY <1>3, <1>4, <1>6, <1>7, <1>8 DEF Keyed

\* A settlement takes numbers and entries away.
LEMMA SettlesTakesAway ==
  ASSUME IInv, NEW S \in SUBSET Requests, NEW result, NEW scope, NEW current,
         Settles(S, result, scope, current)
  PROVE  /\ \A r \in Requests : phase'[r] \in {"encrypting", "pending"} => phase[r] = phase'[r]
         /\ \A k \in DOMAIN pending' : k \in DOMAIN pending /\ pending'[k] = pending[k]
         /\ \A r \in Requests \ S : outcome'[r] \in {outcome[r], "failed"}
         /\ \A r \in S : outcome'[r] = result
<1> DEFINE lineup == {r \in Waiting : target[r] = current}
           stale == IF S = {} THEN {} ELSE StaleWaiters(current)
           cancels == {r \in Waiting : target[r] \in scope}
<1>1. PICK granted \in SUBSET lineup :
        LET over == S \cup ((stale \cup cancels) \ granted)
        IN /\ phase' = [r \in Requests |->
                          IF r \in granted THEN "granted"
                          ELSE IF r \in over THEN "settled" ELSE phase[r]]
           /\ outcome' = [r \in Requests |->
                            IF r \in S THEN result
                            ELSE IF r \in over THEN "failed" ELSE outcome[r]]
           /\ pending' = PendingWithout(S)
  BY Zenon DEF Settles
<1> DEFINE over == S \cup ((stale \cup cancels) \ granted)
<1> HIDE DEF over, lineup
<1>2. \A r \in Requests : phase'[r] = IF r \in granted THEN "granted"
                                      ELSE IF r \in over THEN "settled" ELSE phase[r]
  BY <1>1 DEF over
<1>3. \A r \in Requests : outcome'[r] = IF r \in S THEN result
                                        ELSE IF r \in over THEN "failed" ELSE outcome[r]
  BY <1>1 DEF over
<1>4. \A k \in DOMAIN pending' : k \in DOMAIN pending /\ pending'[k] = pending[k]
  BY <1>1 DEF PendingWithout
<1> QED
  BY <1>2, <1>3, <1>4

LEMMA StaysKeyed ==
  ASSUME IInv, Keyed, [Next]_vars
  PROVE  Keyed'
<1>0. phase \in [Requests -> Phases] /\ rid \in [Requests -> Nat]
  BY DEF IInv, TypeOK
<1>t. /\ \A f \in OnWire : f.key \in Keys /\ f.key[1] \in Int /\ f.key[2] \in Nat /\ f.req \in Requests
      /\ \A r \in Requests : /\ target[r] \in Int /\ rid[r] \in Nat
                             /\ KeyOf(r)[1] = target[r] /\ KeyOf(r)[2] = rid[r]
      /\ gen \in Int /\ nextId \in Nat
  BY WireTypes
<1>1. CASE Settling
  <2>1. PICK S, result : result \in Outcomes /\ SettlesSome(S, result)
    BY <1>1 DEF Settling
  <2>2. PICK scope : \E current \in Gens : Settles(S, result, scope, current)
    BY <2>1 DEF SettlesSome
  <2>3. PICK current \in Gens : Settles(S, result, scope, current)
    BY <2>2
  <2>4. /\ \A r \in Requests : phase'[r] \in {"encrypting", "pending"} => phase[r] = phase'[r]
        /\ \A k \in DOMAIN pending' : k \in DOMAIN pending /\ pending'[k] = pending[k]
    BY <2>1, <2>3, SettlesTakesAway DEF SettlesSome
  <2>5. /\ sent' \cup arriving' \subseteq OnWire /\ target' = target /\ rid' = rid
        /\ (gen' = gen /\ nextId' = nextId) \/ gen' = gen + 1
    BY <2>1 DEF SettlesSome, OnWire
  <2>6. \A r \in Requests : phase'[r] \in {"encrypting", "pending"} =>
          phase[r] = phase'[r] /\ target'[r] = target[r] /\ rid'[r] = rid[r]
    BY <2>4, <2>5
  <2> QED
    BY <2>4, <2>5, <2>6, ShrinksKeyed
<1>2. CASE Resting
  BY <1>2, ShrinksKeyed DEF Resting, OnWire
<1>3. ASSUME NEW r \in Requests, Moving(r) PROVE Keyed'
  <2>1. \A s \in Requests : phase'[s] \in {"encrypting", "pending"} =>
          phase[s] = phase'[s] /\ target'[s] = target[s] /\ rid'[s] = rid[s]
    BY <1>3 DEF Moving
  <2> QED
    BY <1>3, <2>1, ShrinksKeyed DEF Moving, OnWire
<1>4. ASSUME NEW r \in Requests, TakesId(r) PROVE Keyed'
  <2>1. /\ target[r] = gen /\ nextId' = nextId + 1 /\ gen' = gen
        /\ UNCHANGED <<target, pending, sent, arriving>>
        /\ phase'[r] = "encrypting" /\ rid'[r] = nextId
        /\ \A s \in Requests \ {r} : phase'[s] = phase[s] /\ rid'[s] = rid[s]
    BY <1>0, <1>4 DEF TakesId
  <2>2. OnWire' = OnWire
    BY <2>1 DEF OnWire
  <2>3. /\ \A s \in Requests \ {r} : (Numbered(s)' <=> Numbered(s)) /\ KeyOf(s)' = KeyOf(s)
        /\ KeyOf(r)' = PendingKey(gen, nextId)
    BY <2>1 DEF Numbered, KeyOf, PendingKey
  <2>4. \A s \in Requests : Numbered(s)' => target'[s] <= gen' /\ (target'[s] = gen' => rid'[s] < nextId')
    <3> TAKE s \in Requests
    <3>1. CASE s = r
      BY <1>t, <2>1, <3>1
    <3>2. CASE s # r
      <4>1. Numbered(s)' => target[s] <= gen /\ (target[s] = gen => rid[s] < nextId)
        BY <2>3, <3>2 DEF Keyed
      <4> QED
        BY <1>t, <2>1, <3>2, <4>1
    <3> QED
      BY <3>1, <3>2
  <2>5. \A s \in Requests : Numbered(s) => KeyOf(s) # PendingKey(gen, nextId)
    <3> TAKE s \in Requests
    <3>1. Numbered(s) => target[s] <= gen /\ (target[s] = gen => rid[s] < nextId)
      BY DEF Keyed
    <3>2. PendingKey(gen, nextId)[1] = gen /\ PendingKey(gen, nextId)[2] = nextId
      BY DEF PendingKey
    <3> QED
      BY <1>t, <3>1, <3>2
  <2>6. \A s, u \in Requests : Numbered(s)' /\ Numbered(u)' /\ KeyOf(s)' = KeyOf(u)' => s = u
    BY <2>3, <2>5 DEF Keyed
  <2>7. \A f \in OnWire' : f.key[1] <= gen' /\ (f.key[1] = gen' => f.key[2] < nextId')
    <3> TAKE f \in OnWire'
    <3>1. f.key[1] <= gen /\ (f.key[1] = gen => f.key[2] < nextId) /\ f.key[2] \in Nat
      BY <1>t, <2>2 DEF Keyed
    <3> QED
      BY <1>t, <2>1, <3>1
  <2>8. \A f \in OnWire : f.key # PendingKey(gen, nextId)
    <3> TAKE f \in OnWire
    <3>1. f.key[1] = gen => f.key[2] < nextId
      BY DEF Keyed
    <3>2. PendingKey(gen, nextId)[1] = gen /\ PendingKey(gen, nextId)[2] = nextId
      BY DEF PendingKey
    <3> QED
      BY <1>t, <3>1, <3>2
  <2>9. \A s \in Requests : phase'[s] = "encrypting" => \A f \in OnWire' : f.key # KeyOf(s)'
    BY <2>1, <2>2, <2>3, <2>8 DEF Keyed
  <2>10. \A f \in OnWire' : f.key \in DOMAIN pending' => pending'[f.key] = f.req
    BY <2>1, <2>2 DEF Keyed
  <2> QED
    BY <2>4, <2>6, <2>7, <2>9, <2>10 DEF Keyed
<1>5. ASSUME NEW r \in Requests, Write(r) PROVE Keyed'
  <2> DEFINE w == [key |-> KeyOf(r), req |-> r]
  <2>1. /\ phase[r] = "encrypting" /\ phase' = [phase EXCEPT ![r] = "pending"]
        /\ UNCHANGED <<gen, target, rid, nextId, arriving>>
        /\ sent' = sent \cup {w} /\ KeyOf(r) \notin DOMAIN pending /\ target[r] = gen
        /\ pending' = [k \in DOMAIN pending \cup {KeyOf(r)} |-> IF k = KeyOf(r) THEN r ELSE pending[k]]
    BY <1>5 DEF Write, MayWrite, OwnsSendTarget, peerVars
  <2>2. OnWire' = OnWire \cup {w} /\ w.key = KeyOf(r) /\ w.req = r
    BY <2>1 DEF OnWire
  <2> HIDE DEF w
  <2>3. \A s \in Requests : (Numbered(s)' <=> Numbered(s)) /\ KeyOf(s)' = KeyOf(s)
                            /\ (phase'[s] = "encrypting" => phase[s] = "encrypting" /\ s # r)
    BY <1>0, <2>1 DEF Numbered, KeyOf, PendingKey
  <2>4. /\ DOMAIN pending' = DOMAIN pending \cup {KeyOf(r)} /\ pending'[KeyOf(r)] = r
        /\ \A k \in DOMAIN pending : pending'[k] = pending[k]
    BY <2>1
  <2>5. \A s \in Requests : Numbered(s)' => target'[s] <= gen' /\ (target'[s] = gen' => rid'[s] < nextId')
    BY <2>1, <2>3 DEF Keyed
  <2>6. \A s, u \in Requests : Numbered(s)' /\ Numbered(u)' /\ KeyOf(s)' = KeyOf(u)' => s = u
    BY <2>3 DEF Keyed
  <2>7. \A f \in OnWire' : f.key[1] <= gen' /\ (f.key[1] = gen' => f.key[2] < nextId')
    <3>1. target[r] <= gen /\ (target[r] = gen => rid[r] < nextId)
      BY <2>1 DEF Keyed, Numbered
    <3>2. w.key[1] <= gen /\ (w.key[1] = gen => w.key[2] < nextId)
      BY <1>t, <2>2, <3>1
    <3> QED
      BY <2>1, <2>2, <3>2 DEF Keyed
  <2>8. \A s \in Requests : phase'[s] = "encrypting" => \A f \in OnWire' : f.key # KeyOf(s)'
    <3>1. \A s \in Requests : phase[s] = "encrypting" /\ s # r => KeyOf(s) # KeyOf(r)
      BY <2>1 DEF Keyed, Numbered
    <3> QED
      BY <2>2, <2>3, <3>1 DEF Keyed
  <2>9. \A f \in OnWire' : f.key \in DOMAIN pending' => pending'[f.key] = f.req
    <3>1. \A f \in OnWire : f.key # KeyOf(r)
      BY <2>1 DEF Keyed
    <3> QED
      BY <2>2, <2>4, <3>1 DEF Keyed
  <2> QED
    BY <2>5, <2>6, <2>7, <2>8, <2>9 DEF Keyed
<1> QED
  BY <1>1, <1>2, <1>3, <1>4, <1>5, StepKinds

LEMMA StartsKeyed == Init => Keyed
<1> SUFFICES ASSUME Init PROVE Keyed
  OBVIOUS
<1>1. OnWire = {} /\ \A r \in Requests : phase[r] = "idle"
  BY DEF Init, OnWire
<1> QED
  BY <1>1 DEF Keyed, Numbered

\* handleMessage settles by key, and a key leads from an answer to the request that was
\* answered: over any number of peers and ids, no late answer is another request's.
THEOREM AnswersTheirRequests == Spec => AnswersItsRequest
<1>1. Keyed /\ IInv /\ [Next]_vars =>
        [\A r \in Requests : outcome[r] = "none" /\ outcome'[r] = "response"
           => \E f \in arriving \ arriving' : f.req = r]_vars
  <2> SUFFICES ASSUME Keyed, IInv, [Next]_vars, NEW r \in Requests,
                      outcome[r] = "none", outcome'[r] = "response"
               PROVE  \E f \in arriving \ arriving' : f.req = r
    OBVIOUS
  <2>0. outcome \in [Requests -> Outcomes]
    BY DEF IInv, TypeOK
  <2>1. CASE Settling
    <3>1. PICK S, result : result \in Outcomes /\ SettlesSome(S, result)
      BY <2>1 DEF Settling
    <3>2. PICK scope : \E current \in Gens : Settles(S, result, scope, current)
      BY <3>1 DEF SettlesSome
    <3>3. PICK current \in Gens : Settles(S, result, scope, current)
      BY <3>2
    <3>4. /\ \A s \in Requests \ S : outcome'[s] \in {outcome[s], "failed"}
          /\ \A s \in S : outcome'[s] = result
      BY <3>1, <3>3, SettlesTakesAway DEF SettlesSome
    <3>5. r \in S /\ result = "response"
      BY <3>4
    <3>6. PICK f \in arriving \ arriving' : f.key \in DOMAIN pending /\ S = {pending[f.key]}
      BY <3>1, <3>5 DEF SettlesSome
    <3>7. f \in OnWire /\ r = pending[f.key]
      BY <3>5, <3>6 DEF OnWire
    <3>8. f.req = r
      BY <3>6, <3>7 DEF Keyed
    <3> QED
      BY <3>6, <3>8
  <2>2. CASE ~Settling
    <3>1. Resting \/ \E s \in Requests : Moving(s) \/ TakesId(s) \/ Write(s)
      BY <2>2, StepKinds
    <3>2. outcome' = outcome \/ \E s \in Requests : outcome' = [outcome EXCEPT ![s] = "failed"]
      BY <3>1 DEF Resting, Moving, TakesId, Write
    <3> QED
      BY <2>0, <3>2
  <2> QED
    BY <2>1, <2>2
<1>2. Keyed /\ IInv /\ [Next]_vars => Keyed'
  BY StaysKeyed
<1> QED
  BY <1>1, <1>2, StartsKeyed, Inductive, PTL DEF Spec, AnswersItsRequest

-----------------------------------------------------------------------------
(* Who waits for the current peer.                                         *)

\* The callers that wait: in line for a slot or for an answer.
Awaits(r) == phase[r] \in {"waiting", "pending"}
Answerable(r) ==
  /\ link \in {"open", "closing"}
  /\ phase[r] = "pending" => \E f \in OnWire : f.req = r /\ f.key = KeyOf(r)

\* A caller that waits is bound to the current peer, which can answer it, or to an older
\* one.  The second half is what a new generation needs: nobody waits for it yet.
AwaitsCurrent ==
  \A r \in Requests : Awaits(r) =>
    /\ target[r] <= gen
    /\ target[r] = gen => Answerable(r)

\* What a settlement leaves waiting waited before, and is neither settled nor cancelled.
LEMMA SettlesLeaves ==
  ASSUME IInv, NEW S \in SUBSET Requests, NEW result, NEW scope, NEW current,
         Settles(S, result, scope, current)
  PROVE  \A r \in Requests : phase'[r] \in {"waiting", "pending"} =>
           /\ phase'[r] = phase[r] /\ r \notin S
           /\ phase[r] = "waiting" => target[r] \notin scope
<1> DEFINE lineup == {r \in Waiting : target[r] = current}
           stale == IF S = {} THEN {} ELSE StaleWaiters(current)
           cancels == {r \in Waiting : target[r] \in scope}
<1>1. PICK granted \in SUBSET lineup :
        LET over == S \cup ((stale \cup cancels) \ granted)
        IN phase' = [r \in Requests |->
                       IF r \in granted THEN "granted"
                       ELSE IF r \in over THEN "settled" ELSE phase[r]]
  BY Zenon DEF Settles
<1> DEFINE over == S \cup ((stale \cup cancels) \ granted)
<1>2. \A r \in Requests : phase'[r] = IF r \in granted THEN "granted"
                                      ELSE IF r \in over THEN "settled" ELSE phase[r]
  BY <1>1
<1>3. \A r \in Requests : phase[r] = "waiting" /\ target[r] \in scope => r \in granted \/ r \in over
  BY DEF Waiting
<1> HIDE DEF over, lineup
<1>4. \A r \in S : r \in over
  BY DEF over
<1> QED
  BY <1>2, <1>3, <1>4

\* A step by which nobody starts to wait, no peer is lost and no frame a waiting caller
\* needs goes.
LEMMA NobodyStartsToWait ==
  ASSUME IInv, AwaitsCurrent,
         gen' = gen, link \in {"open", "closing"} => link' \in {"open", "closing"},
         \A r \in Requests : phase'[r] \in {"waiting", "pending"} =>
           phase'[r] = phase[r] /\ target'[r] = target[r] /\ rid'[r] = rid[r],
         \A r \in Requests : phase'[r] = "pending" =>
           \A f \in OnWire : f.key = KeyOf(r) /\ target[r] = gen => f \in sent' \cup arriving'
  PROVE  AwaitsCurrent'
<1> SUFFICES ASSUME NEW r \in Requests, phase'[r] \in {"waiting", "pending"}
             PROVE  target'[r] <= gen' /\ (target'[r] = gen' => Answerable(r)')
  BY DEF AwaitsCurrent, Awaits
<1>1. /\ phase'[r] = phase[r] /\ target'[r] = target[r] /\ KeyOf(r)' = KeyOf(r)
      /\ target[r] <= gen /\ (target[r] = gen => Answerable(r))
  BY DEF AwaitsCurrent, Awaits, KeyOf, PendingKey
<1> SUFFICES ASSUME target[r] = gen PROVE Answerable(r)'
  BY <1>1
<1>2. ASSUME phase'[r] = "pending" PROVE \E f \in sent' \cup arriving' : f.req = r /\ f.key = KeyOf(r)
  <2>1. PICK f \in OnWire : f.req = r /\ f.key = KeyOf(r)
    BY <1>1, <1>2 DEF Answerable
  <2> QED
    BY <1>2, <2>1
<1> QED
  BY <1>1, <1>2 DEF Answerable, OnWire

\* A new generation: nobody who waits is bound to it.
LEMMA NobodyAwaitsTheNew ==
  ASSUME IInv, AwaitsCurrent, gen' = gen + 1,
         \A r \in Requests : phase'[r] \in {"waiting", "pending"} => phase'[r] = phase[r] /\ target'[r] = target[r]
  PROVE  AwaitsCurrent'
<1> SUFFICES ASSUME NEW r \in Requests, phase'[r] \in {"waiting", "pending"}
             PROVE  target'[r] <= gen' /\ target'[r] # gen'
  BY DEF AwaitsCurrent, Awaits
<1>1. target'[r] = target[r] /\ target[r] <= gen /\ target[r] \in Int /\ gen \in Int
  BY WireTypes DEF AwaitsCurrent, Awaits
<1> QED
  BY <1>1

\* One holder gives its slot back.
LEMMA OneLeaves ==
  ASSUME IInv, AwaitsCurrent, NEW r \in Requests, NEW result, Settles({r}, result, {}, gen),
         UNCHANGED <<gen, link, target, rid, sent, arriving>>
  PROVE  AwaitsCurrent'
<1>1. \A s \in Requests : phase'[s] \in {"waiting", "pending"} => phase'[s] = phase[s]
  <2>1. {r} \in SUBSET Requests
    OBVIOUS
  <2> QED
    BY <2>1, SettlesLeaves
<1> QED
  BY <1>1, NobodyStartsToWait DEF OnWire

\* One caller moves to a phase in which it waits for no slot and no answer.
LEMMA OneGoesOn ==
  ASSUME IInv, AwaitsCurrent, NEW r \in Requests, NEW p \in {"settled", "connecting", "granted", "encrypting"},
         phase' = [phase EXCEPT ![r] = p],
         \A s \in Requests \ {r} : target'[s] = target[s] /\ rid'[s] = rid[s],
         UNCHANGED <<gen, link, sent, arriving>>
  PROVE  AwaitsCurrent'
<1>1. \A s \in Requests : phase'[s] \in {"waiting", "pending"} => s # r /\ phase'[s] = phase[s]
  BY DEF IInv, TypeOK
<1> QED
  BY <1>1, NobodyStartsToWait DEF OnWire

LEMMA CallAwaits == ASSUME IInv, AwaitsCurrent, NEW r \in Requests, Call(r) PROVE AwaitsCurrent'
<1>0. phase \in [Requests -> Phases] /\ target \in [Requests -> Gens]
  BY DEF IInv, TypeOK
<1>1. /\ rid' = rid /\ sent' = sent /\ arriving' = arriving
      /\ phase' = [phase EXCEPT ![r] = "settled"] \/ phase' = [phase EXCEPT ![r] = "connecting"]
      /\ target' = target \/ target' = [target EXCEPT ![r] = gen] \/ target' = [target EXCEPT ![r] = gen + 1]
      /\ (gen' = gen /\ link' = link) \/ gen' = gen + 1
  BY DEF Call, SettlesOutside, StartsPeer, wireVars
<1>2. \A s \in Requests \ {r} : target'[s] = target[s] /\ rid'[s] = rid[s]
  BY <1>0, <1>1
<1>3. CASE gen' = gen /\ link' = link
  BY <1>1, <1>2, <1>3, OneGoesOn
<1>4. CASE gen' = gen + 1
  <2>1. \A s \in Requests : phase'[s] \in {"waiting", "pending"} => s # r /\ phase'[s] = phase[s]
    BY <1>0, <1>1
  <2> QED
    BY <1>2, <1>4, <2>1, NobodyAwaitsTheNew
<1> QED
  BY <1>1, <1>3, <1>4

\* A caller gets in line on an open channel, for the peer of that channel.
LEMMA ConnectedAwaits == ASSUME IInv, AwaitsCurrent, NEW r \in Requests, Connected(r) PROVE AwaitsCurrent'
<1>0. phase \in [Requests -> Phases] /\ target \in [Requests -> Gens]
  BY DEF IInv, TypeOK
<1>1. /\ UNCHANGED <<gen, link, rid, sent, arriving>>
      /\ target' = target \/ target' = [target EXCEPT ![r] = gen]
  BY DEF Connected, SettlesOutside, peerVars, wireVars
<1>2. \/ phase' = [phase EXCEPT ![r] = "settled"] \/ phase' = [phase EXCEPT ![r] = "granted"]
      \/ phase' = [phase EXCEPT ![r] = "waiting"] /\ target' = [target EXCEPT ![r] = gen] /\ link = "open"
  BY DEF Connected, SettlesOutside
<1>3. \A s \in Requests \ {r} : target'[s] = target[s] /\ rid'[s] = rid[s]
  BY <1>0, <1>1
<1>4. CASE phase' = [phase EXCEPT ![r] = "settled"] \/ phase' = [phase EXCEPT ![r] = "granted"]
  BY <1>1, <1>3, <1>4, OneGoesOn
<1>5. CASE phase' = [phase EXCEPT ![r] = "waiting"] /\ target' = [target EXCEPT ![r] = gen] /\ link = "open"
  <2> SUFFICES ASSUME NEW s \in Requests, phase'[s] \in {"waiting", "pending"}
               PROVE  target'[s] <= gen' /\ (target'[s] = gen' => Answerable(s)')
    BY DEF AwaitsCurrent, Awaits
  <2>1. CASE s = r
    <3>1. phase'[r] = "waiting" /\ target'[r] = gen /\ gen \in Int /\ link' = "open"
      BY <1>0, <1>1, <1>5, WireTypes
    <3> QED
      BY <1>1, <2>1, <3>1 DEF Answerable
  <2>2. CASE s # r
    <3>1. phase'[s] = phase[s] /\ target'[s] = target[s] /\ KeyOf(s)' = KeyOf(s) /\ OnWire' = OnWire
      BY <1>0, <1>1, <1>3, <1>5, <2>2 DEF KeyOf, PendingKey, OnWire
    <3> QED
      BY <1>1, <3>1 DEF AwaitsCurrent, Awaits, Answerable
  <2> QED
    BY <2>1, <2>2
<1> QED
  BY <1>2, <1>4, <1>5

LEMMA SlotArrivesAwaits == ASSUME IInv, AwaitsCurrent, NEW r \in Requests, SlotArrives(r) PROVE AwaitsCurrent'
<1>1. UNCHANGED <<gen, link, target, sent, arriving>>
  BY DEF SlotArrives, peerVars, wireVars
<1>2. CASE Settles({r}, "failed", {}, gen) /\ UNCHANGED <<rid, nextId>>
  BY <1>1, <1>2, OneLeaves
<1>3. CASE rid' = [rid EXCEPT ![r] = nextId] /\ phase' = [phase EXCEPT ![r] = "encrypting"]
  <2>1. \A s \in Requests \ {r} : target'[s] = target[s] /\ rid'[s] = rid[s]
    BY <1>1, <1>3 DEF IInv, TypeOK
  <2> QED
    BY <1>1, <1>3, <2>1, OneGoesOn
<1> QED
  BY <1>2, <1>3 DEF SlotArrives

\* A caller starts to wait for an answer: its frame goes out with it, on an open channel.
LEMMA WriteAwaits == ASSUME IInv, AwaitsCurrent, NEW r \in Requests, Write(r) PROVE AwaitsCurrent'
<1> DEFINE w == [key |-> KeyOf(r), req |-> r]
<1>1. /\ phase' = [phase EXCEPT ![r] = "pending"] /\ sent' = sent \cup {w}
      /\ UNCHANGED <<gen, link, target, rid, arriving>>
      /\ target[r] = gen /\ link = "open"
  BY DEF Write, MayWrite, OwnsSendTarget, peerVars
<1>2. w.key = KeyOf(r) /\ w.req = r
  OBVIOUS
<1> HIDE DEF w
<1>3. OnWire' = OnWire \cup {w} /\ \A s \in Requests : KeyOf(s)' = KeyOf(s)
  BY <1>1 DEF OnWire, KeyOf, PendingKey
<1> SUFFICES ASSUME NEW s \in Requests, phase'[s] \in {"waiting", "pending"}
             PROVE  target'[s] <= gen' /\ (target'[s] = gen' => Answerable(s)')
  BY DEF AwaitsCurrent, Awaits
<1>4. CASE s = r
  BY <1>1, <1>2, <1>3, <1>4, WireTypes DEF Answerable
<1>5. CASE s # r
  <2>1. phase'[s] = phase[s]
    BY <1>1, <1>5 DEF IInv, TypeOK
  <2> QED
    BY <1>1, <1>3, <2>1 DEF AwaitsCurrent, Awaits, Answerable
<1> QED
  BY <1>4, <1>5

\* An answer that is taken settles the caller whose key it has; of another peer it is
\* no current caller's.
LEMMA AnswerAwaits == ASSUME IInv, AwaitsCurrent, NEW f \in arriving, AnswerDecrypted(f) PROVE AwaitsCurrent'
<1>1. UNCHANGED <<gen, link, target, rid, sent>> /\ arriving' = arriving \ {f}
  BY DEF AnswerDecrypted, peerVars
<1>2. \A r \in Requests : phase'[r] \in {"waiting", "pending"} =>
        phase'[r] = phase[r] /\ (phase[r] = "pending" /\ target[r] = gen => KeyOf(r) # f.key)
  <2>1. \A r \in Requests : phase[r] = "pending" => KeyOf(r) \in DOMAIN pending /\ pending[KeyOf(r)] = r
    BY DEF IInv, PendingMatchesCallers
  <2>2. CASE f.key[1] = gen /\ f.key \in DOMAIN pending
    <3>1. Settles({pending[f.key]}, "response", {}, gen) /\ {pending[f.key]} \in SUBSET Requests
      BY <2>2 DEF AnswerDecrypted, IInv, TypeOK
    <3>2. \A r \in Requests : phase'[r] \in {"waiting", "pending"} => phase'[r] = phase[r] /\ r # pending[f.key]
      BY <3>1, SettlesLeaves
    <3> QED
      BY <2>1, <3>2
  <2>3. CASE ~(f.key[1] = gen /\ f.key \in DOMAIN pending)
    <3>1. phase' = phase
      BY <2>3 DEF AnswerDecrypted
    <3>2. \A r \in Requests : KeyOf(r)[1] = target[r]
      BY WireTypes
    <3> QED
      BY <2>1, <2>3, <3>1, <3>2
  <2> QED
    BY <2>2, <2>3
<1>3. \A r \in Requests : phase'[r] = "pending" =>
        \A a \in OnWire : a.key = KeyOf(r) /\ target[r] = gen => a \in sent' \cup arriving'
  BY <1>1, <1>2 DEF OnWire
<1> QED
  BY <1>1, <1>2, <1>3, NobodyStartsToWait

\* The loss of the peer settles who waits for it, in line and in the map.
LEMMA LossAwaits == ASSUME IInv, AwaitsCurrent, PeerLost \/ Disconnect PROVE AwaitsCurrent'
<1>1. Settles(Pending, "failed", Gens, gen)
  BY DEF PeerLost, Disconnect
<1>2. Pending \in SUBSET Requests /\ \A r \in Requests : phase[r] = "pending" => r \in Pending
  BY DEF Pending
<1>3. \A r \in Requests : target[r] \in Gens
  BY WireTypes
<1>4. \A r \in Requests : phase'[r] \notin {"waiting", "pending"}
  BY <1>1, <1>2, <1>3, SettlesLeaves
<1> QED
  BY <1>4 DEF AwaitsCurrent, Awaits

LEMMA ReplacedAwaits == ASSUME IInv, AwaitsCurrent, PeerLostAndReplaced PROVE AwaitsCurrent'
<1> DEFINE lost == {r \in Pending : target[r] = gen}
<1>1. /\ gen' = gen + 1 /\ target' = target /\ Settles(lost, "failed", {gen}, gen + 1)
      /\ lost \in SUBSET Requests
  BY DEF PeerLostAndReplaced, StartsPeer, Pending
<1> HIDE DEF lost
<1>2. \A r \in Requests : phase'[r] \in {"waiting", "pending"} => phase'[r] = phase[r]
  BY <1>1, SettlesLeaves
<1> QED
  BY <1>1, <1>2, NobodyAwaitsTheNew

LEMMA StaysAnswerable ==
  ASSUME IInv, AwaitsCurrent, [Next]_vars
  PROVE  AwaitsCurrent'
<1>0. phase \in [Requests -> Phases]
  BY DEF IInv, TypeOK
<1>1. ASSUME NEW r \in Requests, ConnectRejects(r) PROVE AwaitsCurrent'
  BY <1>1, OneGoesOn DEF ConnectRejects, SettlesOutside, peerVars, wireVars
<1>2. ASSUME NEW r \in Requests, WriteFails(r) \/ TimesOut(r) PROVE AwaitsCurrent'
  <2>1. /\ Settles({r}, "failed", {}, gen) \/ Settles({r}, "timeout", {}, gen)
        /\ UNCHANGED <<gen, link, target, rid, sent, arriving>>
    BY <1>2 DEF WriteFails, TimesOut, peerVars, wireVars
  <2> QED
    BY <2>1, OneLeaves
<1>3. ASSUME \/ \E r \in Requests : Cancel(r)
             \/ \E f \in sent : AnswerArrives(f)
             \/ AttemptCompletes \/ ChannelStartsClosing \/ UNCHANGED vars
      PROVE  AwaitsCurrent'
  <2>1. UNCHANGED <<gen, phase, target, rid>>
    BY <1>3 DEF Cancel, AnswerArrives, AttemptCompletes, ChannelStartsClosing, vars, peerVars
  <2>2. link \in {"open", "closing"} => link' \in {"open", "closing"}
    BY <1>3 DEF Cancel, AnswerArrives, AttemptCompletes, ChannelStartsClosing, vars, peerVars
  <2>3. OnWire \subseteq sent' \cup arriving'
    BY <1>3 DEF Cancel, AnswerArrives, AttemptCompletes, ChannelStartsClosing, vars, wireVars, OnWire
  <2> QED
    BY <2>1, <2>2, <2>3, NobodyStartsToWait
<1>4. ASSUME StartAttempt PROVE AwaitsCurrent'
  BY <1>4, NobodyAwaitsTheNew DEF StartAttempt, StartsPeer
<1> QED
  BY <1>1, <1>2, <1>3, <1>4, CallAwaits, ConnectedAwaits, SlotArrivesAwaits, WriteAwaits,
     AnswerAwaits, LossAwaits, ReplacedAwaits DEF Next, Continues

\* request, sendEncrypted, handleMessage and the two loss paths, for any number of callers
\* and peers: nobody waits for a peer that was lost or for an answer that was used up.
THEOREM WaitersStayAnswerable == Spec => []CallersCanBeAnswered
<1>1. Init => AwaitsCurrent
  BY DEF Init, AwaitsCurrent, Awaits
<1>2. IInv /\ AwaitsCurrent /\ [Next]_vars => AwaitsCurrent'
  BY StaysAnswerable
<1>3. AwaitsCurrent => CallersCanBeAnswered
  BY DEF AwaitsCurrent, Awaits, Answerable, CallersCanBeAnswered, Waiting, Pending, OnWire
<1> QED
  BY <1>1, <1>2, <1>3, Inductive, PTL DEF Spec

=============================================================================
