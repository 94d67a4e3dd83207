---------------------------- MODULE RequestWindow ----------------------------
(***************************************************************************)
(* The host request path of WebrtcDaemonTransport (webrtcDaemonClient.ts): *)
(* request, the 32-slot window with its bounded line of waiters, the       *)
(* encrypted send, the pending map keyed by (generation, request id), and  *)
(* what a timeout, an answer, a lost peer or a disconnect does to it.      *)
(*                                                                         *)
(* The browser runs one task at a time; every await is a point where other *)
(* tasks run.  A request's phase is the await it is suspended at, and an   *)
(* action is the code between two awaits.  The peer itself is reduced to   *)
(* what the request path reads of it: its generation and whether its       *)
(* control channel is usable.                                              *)
(***************************************************************************)
EXTENDS Integers, FiniteSets

CONSTANTS
  Requests,        \* callers of request(), each calling once
  MaxOutstanding,  \* hostControlRequestLimits.maxOutstandingRequests
  MaxWaiting,      \* hostControlRequestLimits.maxWaitingRequests
  MaxGen           \* bound of the model: peer generations explored

ASSUME RequestsAssumption == IsFiniteSet(Requests)
ASSUME LimitsAssumption == MaxOutstanding \in Nat \ {0} /\ MaxWaiting \in Nat
ASSUME GenAssumption == MaxGen \in Nat

VARIABLES
  gen,          \* peerGeneration
  link,         \* "down" | "connecting" | "open" | "closing" control channel
  disconnected, \* disconnect() was called
  connected,    \* generations whose attempt completed (their connect promise resolved)
  phase,        \* the await each request is suspended at
  target,       \* the generation whose connect promise, slot or send target it holds
  rid,          \* its request id, 0 before it has one
  ticket,       \* its place in requestSlotWaiters (submission order)
  nextTicket,
  reserved,     \* reservedSlots: generation -> count
  nextId,       \* nextRequestId
  pending,      \* pendingRequests: key -> request
  cancelled,    \* requests whose isCancelled() is true
  sent,         \* request frames written and not answered yet
  arriving,     \* answers inside handleMessage's await of the decryption
  outcome       \* how the caller's promise settled

peerVars == <<gen, link, disconnected, connected>>
wireVars == <<sent, arriving>>
lineVars == <<ticket, nextTicket>>
vars == <<peerVars, phase, target, rid, lineVars, reserved, nextId, pending,
          cancelled, wireVars, outcome>>

Gens == 0 .. MaxGen
Keys == Gens \X Nat          \* (generation, request id)
Phases == {"idle", "connecting", "waiting", "granted", "encrypting", "pending",
           "settled"}
Outcomes == {"none", "response", "timeout", "failed"}

-----------------------------------------------------------------------------
SmallerOf(a, b) == IF a <= b THEN a ELSE b

\* pendingKey(generation, requestId)
PendingKey(g, id) == <<g, id>>
KeyOf(r) == PendingKey(target[r], rid[r])

Waiting == {r \in Requests : phase[r] = "waiting"}
Pending == {r \in Requests : phase[r] = "pending"}
SlotPhases == {"granted", "encrypting", "pending"}

\* Requests that hold one of generation g's slots.
Holders(g) == {r \in Requests : phase[r] \in SlotPhases /\ target[r] = g}

\* The two limits acquireRequestSlot checks before it reserves or enqueues.
HasRoomAtLimit(g) == reserved[g] <= MaxOutstanding   \* mutant: off by one
HasRoom(g) == reserved[g] < MaxOutstanding
LineFull == Cardinality(Waiting) >= MaxWaiting

\* nextRequestId++
SameId == nextId       \* mutant: the id is not advanced
FollowingId == nextId + 1

\* ownsSendTarget: the generation is current and its channel is the live open one.
OwnsSendTarget(r) == target[r] = gen /\ link = "open"

-----------------------------------------------------------------------------
Init ==
  /\ gen = 0
  /\ link = "down"
  /\ disconnected = FALSE
  /\ connected = {}
  /\ phase = [r \in Requests |-> "idle"]
  /\ target = [r \in Requests |-> 0]
  /\ rid = [r \in Requests |-> 0]
  /\ ticket = [r \in Requests |-> 0]
  /\ nextTicket = 1
  /\ reserved = [g \in Gens |-> 0]
  /\ nextId = 1
  /\ pending = [k \in {} |-> "none"]
  /\ cancelled = {}
  /\ sent = {}
  /\ arriving = {}
  /\ outcome = [r \in Requests |-> "none"]

-----------------------------------------------------------------------------
(* Slots.                                                                  *)

\* startAttempt as the request path sees it: a new generation, ids from 1,
\* and no usable channel until its Hello.
StartsPeer ==
  /\ gen < MaxGen
  /\ gen' = gen + 1
  /\ link' = "connecting"
  /\ nextId' = 1

\* A request that settles without holding a slot.
SettlesOutside(r, result) ==
  /\ phase' = [phase EXCEPT ![r] = "settled"]
  /\ outcome' = [outcome EXCEPT ![r] = result]

\* Waiters that the loop of grantWaitingSlot drops before it grants.
StaleWaitersKept(current) == {}   \* mutant: the loop stops at a stale head
StaleWaiters(current) == {r \in Waiting : target[r] # current}

\* The slots of generation g that the requests in S release.
ReleasedTwice(S, g) == 2 * Cardinality({r \in S : target[r] = g})   \* mutant
NeverReleased(S, g) == 0                                            \* mutant
Released(S, g) == Cardinality({r \in S : target[r] = g})

\* How many waiters of the current generation those releases let in: a release
\* of an older generation grants only into free room, one of the current
\* generation always finds room.  Older requests entered the pending map first
\* and release first.
NoGrants(S, current) == 0   \* mutant: the freed slot is handed to nobody
GrantCount(S, current) ==
  LET lineup == {r \in Waiting : target[r] = current}
      older == {r \in S : target[r] # current}
  IN SmallerOf(Cardinality(lineup),
               Released(S, current)
                 + SmallerOf(Cardinality(older), MaxOutstanding - reserved[current]))

\* pendingRequests without the settled entries.
PendingUnchanged(S) == pending   \* mutant: settlePending forgets the deletion
PendingWithout(S) == [k \in {j \in DOMAIN pending : pending[j] \notin S} |-> pending[k]]

\* The holders in S settle with result and release their slots; current is the
\* peer generation while they do.  The freed slots go to the first waiters, and
\* cancelRequestSlotWaiters cancels the waiters of the generations in scope.
Settles(S, result, scope, current) ==
  LET lineup == {r \in Waiting : target[r] = current}
      stale == IF S = {} THEN {} ELSE StaleWaiters(current)
      cancels == {r \in Waiting : target[r] \in scope}
  IN \E granted \in SUBSET lineup :
       LET over == S \cup ((stale \cup cancels) \ granted)
       IN /\ Cardinality(granted) = GrantCount(S, current)
          /\ \A r \in granted, s \in lineup \ granted : ticket[r] < ticket[s]
          /\ phase' = [r \in Requests |->
                         IF r \in granted THEN "granted"
                         ELSE IF r \in over THEN "settled" ELSE phase[r]]
          /\ outcome' = [r \in Requests |->
                           IF r \in S THEN result
                           ELSE IF r \in over THEN "failed" ELSE outcome[r]]
          /\ pending' = PendingWithout(S)
          /\ reserved' = [g \in Gens |->
                            reserved[g] - Released(S, g)
                              + (IF g = current THEN Cardinality(granted) ELSE 0)]

-----------------------------------------------------------------------------
(* request() and sendEncrypted, one action per stretch between awaits.     *)

\* request: connect() resolves at once on an open channel, joins a running
\* attempt, or starts one; a disconnected transport throws.
Call(r) ==
  /\ phase[r] = "idle"
  /\ \/ /\ disconnected
        /\ SettlesOutside(r, "failed")
        /\ UNCHANGED <<gen, link, target, nextId>>
     \/ /\ ~disconnected
        /\ link \in {"open", "connecting"}
        /\ phase' = [phase EXCEPT ![r] = "connecting"]
        /\ target' = [target EXCEPT ![r] = gen]
        /\ UNCHANGED <<gen, link, nextId, outcome>>
     \/ /\ ~disconnected
        /\ link \in {"down", "closing"}
        /\ StartsPeer
        /\ phase' = [phase EXCEPT ![r] = "connecting"]
        /\ target' = [target EXCEPT ![r] = gen + 1]
        /\ UNCHANGED outcome
  /\ UNCHANGED <<disconnected, connected, rid, lineVars, reserved, pending, cancelled,
                 wireVars>>

\* The awaited connect promise rejected.
ConnectRejects(r) ==
  /\ phase[r] = "connecting"
  /\ target[r] \notin connected
  /\ ~(link = "connecting" /\ target[r] = gen)
  /\ SettlesOutside(r, "failed")
  /\ UNCHANGED <<peerVars, target, rid, lineVars, reserved, nextId, pending, cancelled,
                 wireVars>>

\* connect() resolved: acquireRequestSlot for the generation that is current now.
Connected(r) ==
  /\ phase[r] = "connecting"
  /\ target[r] \in connected
  /\ IF link # "open" \/ r \in cancelled
     THEN /\ SettlesOutside(r, "failed")
          /\ UNCHANGED <<target, lineVars, reserved>>
     ELSE \/ /\ Waiting = {}
             /\ HasRoom(gen)
             /\ phase' = [phase EXCEPT ![r] = "granted"]
             /\ target' = [target EXCEPT ![r] = gen]
             /\ reserved' = [reserved EXCEPT ![gen] = @ + 1]
             /\ UNCHANGED <<lineVars, outcome>>
          \/ /\ Waiting # {} \/ ~HasRoom(gen)
             /\ IF LineFull
                THEN /\ SettlesOutside(r, "failed")
                     /\ UNCHANGED <<target, lineVars>>
                ELSE /\ phase' = [phase EXCEPT ![r] = "waiting"]
                     /\ target' = [target EXCEPT ![r] = gen]
                     /\ ticket' = [ticket EXCEPT ![r] = nextTicket]
                     /\ nextTicket' = nextTicket + 1
                     /\ UNCHANGED outcome
             /\ UNCHANGED reserved
  /\ UNCHANGED <<peerVars, rid, nextId, pending, cancelled, wireVars>>

\* The granted slot reaches its request: it takes an id and starts encrypting,
\* or gives the slot back if it was cancelled or its connection changed.
SlotArrives(r) ==
  /\ phase[r] = "granted"
  /\ IF r \in cancelled \/ ~OwnsSendTarget(r)
     THEN /\ Settles({r}, "failed", {}, gen)
          /\ UNCHANGED <<rid, nextId>>
     ELSE /\ rid' = [rid EXCEPT ![r] = nextId]
          /\ nextId' = FollowingId
          /\ phase' = [phase EXCEPT ![r] = "encrypting"]
          /\ UNCHANGED <<reserved, pending, outcome>>
  /\ UNCHANGED <<peerVars, target, lineVars, cancelled, wireVars>>

\* What must hold after the encryption for the frame to be written.
MayWrite(r) ==
  /\ r \notin cancelled
  /\ OwnsSendTarget(r)
  /\ KeyOf(r) \notin DOMAIN pending

\* The frame is written and the request waits under its key.
Write(r) ==
  /\ phase[r] = "encrypting"
  /\ MayWrite(r)
  /\ phase' = [phase EXCEPT ![r] = "pending"]
  /\ pending' = [k \in DOMAIN pending \cup {KeyOf(r)} |->
                   IF k = KeyOf(r) THEN r ELSE pending[k]]
  /\ sent' = sent \cup {[key |-> KeyOf(r), req |-> r]}
  /\ UNCHANGED <<peerVars, target, rid, lineVars, reserved, nextId, cancelled, arriving,
                 outcome>>

\* Nothing is written: a check after the encryption failed, the encryption
\* itself did, or channel.send threw.
WriteFails(r) ==
  /\ phase[r] = "encrypting"
  /\ Settles({r}, "failed", {}, gen)
  /\ UNCHANGED <<peerVars, target, rid, lineVars, nextId, cancelled, wireVars>>

\* The request timer: settlePending by identity.
TimesOut(r) ==
  /\ phase[r] = "pending"
  /\ KeyOf(r) \in DOMAIN pending
  /\ pending[KeyOf(r)] = r
  /\ Settles({r}, "timeout", {}, gen)
  /\ UNCHANGED <<peerVars, target, rid, lineVars, nextId, cancelled, wireVars>>

\* The caller abandons its request (streamTerminal's isCancelled).
Cancel(r) ==
  /\ phase[r] \in {"connecting", "waiting", "granted", "encrypting"}
  /\ r \notin cancelled
  /\ cancelled' = cancelled \cup {r}
  /\ UNCHANGED <<peerVars, phase, target, rid, lineVars, reserved, nextId, pending,
                 wireVars, outcome>>

-----------------------------------------------------------------------------
(* Answers.                                                                *)

\* The host's answer passes the message listener (isCurrentPeer) and is decrypted.
AnswerArrives(f) ==
  /\ f \in sent
  /\ link \in {"open", "closing"}
  /\ f.key[1] = gen
  /\ sent' = sent \ {f}
  /\ arriving' = arriving \cup {f}
  /\ UNCHANGED <<peerVars, phase, target, rid, lineVars, reserved, nextId, pending,
                 cancelled, outcome>>

\* handleMessage after the decryption: drop another generation's frame and an
\* unknown id, otherwise settle the request waiting under the key.
AnswerDecrypted(f) ==
  /\ f \in arriving
  /\ arriving' = arriving \ {f}
  /\ IF f.key[1] = gen /\ f.key \in DOMAIN pending
     THEN Settles({pending[f.key]}, "response", {}, gen)
     ELSE UNCHANGED <<phase, outcome, pending, reserved>>
  /\ UNCHANGED <<peerVars, target, rid, lineVars, nextId, cancelled, sent>>

-----------------------------------------------------------------------------
(* The peer.                                                               *)

\* The retry timer or the recovery microtask starts the next attempt.
StartAttempt ==
  /\ link = "down"
  /\ ~disconnected
  /\ StartsPeer
  /\ UNCHANGED <<disconnected, connected, phase, target, rid, lineVars, reserved,
                 pending, cancelled, wireVars, outcome>>

\* completeAttempt.
AttemptCompletes ==
  /\ link = "connecting"
  /\ link' = "open"
  /\ connected' = connected \cup {gen}
  /\ UNCHANGED <<gen, disconnected, phase, target, rid, lineVars, reserved, nextId,
                 pending, cancelled, wireVars, outcome>>

\* The channel leaves "open" before its close event is delivered.
ChannelStartsClosing ==
  /\ link = "open"
  /\ link' = "closing"
  /\ UNCHANGED <<gen, disconnected, connected, phase, target, rid, lineVars, reserved,
                 nextId, pending, cancelled, wireVars, outcome>>

PeerLostKeepsLine ==   \* mutant: the line of waiters is not cancelled
  /\ link \in {"connecting", "open", "closing"}
  /\ link' = "down"
  /\ Settles(Pending, "failed", {}, gen)
  /\ UNCHANGED <<gen, disconnected, connected, target, rid, lineVars, nextId, cancelled,
                 wireVars>>
\* failAttempt of the owning attempt, or handleTransportClosed of the current
\* generation: every pending request fails and every waiter is cancelled.
PeerLost ==
  /\ link \in {"connecting", "open", "closing"}
  /\ link' = "down"
  /\ Settles(Pending, "failed", Gens, gen)
  /\ UNCHANGED <<gen, disconnected, connected, target, rid, lineVars, nextId, cancelled,
                 wireVars>>

\* A lifecycle callback of the close event starts the next attempt before
\* handleTransportClosed runs, which then fails the lost generation only.
PeerLostAndReplaced ==
  /\ link \in {"open", "closing"}
  /\ StartsPeer
  /\ Settles({r \in Pending : target[r] = gen}, "failed", {gen}, gen + 1)
  /\ UNCHANGED <<disconnected, connected, target, rid, lineVars, cancelled, wireVars>>

Disconnect ==
  /\ ~disconnected
  /\ disconnected' = TRUE
  /\ link' = "down"
  /\ Settles(Pending, "failed", Gens, gen)
  /\ UNCHANGED <<gen, connected, target, rid, lineVars, nextId, cancelled, wireVars>>

-----------------------------------------------------------------------------
Continues(r) == ConnectRejects(r) \/ Connected(r) \/ SlotArrives(r)

Next ==
  \/ \E r \in Requests :
       Call(r) \/ Continues(r) \/ Write(r) \/ WriteFails(r) \/ TimesOut(r) \/ Cancel(r)
  \/ \E f \in sent : AnswerArrives(f)
  \/ \E f \in arriving : AnswerDecrypted(f)
  \/ StartAttempt \/ AttemptCompletes \/ ChannelStartsClosing
  \/ PeerLost \/ PeerLostAndReplaced \/ Disconnect

\* Promise continuations run, the encryption finishes, the request timer fires
\* unless it is cleared, and the attempt deadline ends every attempt.
Fairness ==
  /\ \A r \in Requests : /\ WF_vars(Continues(r))
                         /\ WF_vars(Write(r) \/ WriteFails(r))
                         /\ WF_vars(TimesOut(r))
  /\ WF_vars(link = "connecting" /\ (AttemptCompletes \/ PeerLost))

Spec == Init /\ [][Next]_vars
FairSpec == Spec /\ Fairness

-----------------------------------------------------------------------------
(* Properties.                                                             *)

\* Types of the request path's state.
TypeOK ==
  /\ gen \in Gens
  /\ link \in {"down", "connecting", "open", "closing"}
  /\ disconnected \in BOOLEAN
  /\ connected \subseteq Gens
  /\ phase \in [Requests -> Phases]
  /\ target \in [Requests -> Gens]
  /\ rid \in [Requests -> Nat]
  /\ ticket \in [Requests -> Nat]
  /\ nextTicket \in Nat
  /\ reserved \in [Gens -> Nat]
  /\ nextId \in Nat
  /\ DOMAIN pending \subseteq Keys
  /\ \A k \in DOMAIN pending : pending[k] \in Requests
  /\ cancelled \subseteq Requests
  /\ sent \subseteq [key : Keys, req : Requests]
  /\ arriving \subseteq [key : Keys, req : Requests]
  /\ outcome \in [Requests -> Outcomes]

\* Every reserved slot has a holder and every holder one reserved slot: no
\* order of grants, timeouts, cancellations and losses leaks a slot or frees
\* one twice (RequestSlot "released exactly once by whoever holds it").
SlotAccounting == \A g \in Gens : reserved[g] = Cardinality(Holders(g))

\* Concurrent callers that are still encrypting never push a generation past
\* its window (acquireRequestSlot).
WindowBound == \A g \in Gens : Cardinality(Holders(g)) <= MaxOutstanding

\* The line of waiters stays bounded.
LineBound == Cardinality(Waiting) <= MaxWaiting

\* The pending map and the suspended callers agree: a caller waits for an answer
\* exactly while its own key leads back to it.
PendingMatchesCallers ==
  /\ \A r \in Requests :
       phase[r] = "pending" => KeyOf(r) \in DOMAIN pending /\ pending[KeyOf(r)] = r
  /\ \A k \in DOMAIN pending : phase[pending[k]] = "pending"

\* No lost wakeup: a waiter of the current generation waits only behind a full
\* window, or behind slots of an older generation that will still be released
\* and grant it one (grantWaitingSlot hands out one slot per release).
NoLostWakeup ==
  \A r \in Waiting :
    \/ reserved[target[r]] >= MaxOutstanding
    \/ \E g \in Gens : g # target[r] /\ reserved[g] > 0

\* A caller's promise settles once: nothing that arrives later changes it.
SettlesOnce ==
  [][\A r \in Requests : outcome[r] # "none" => outcome'[r] = outcome[r]]_vars

\* A request resolves with an answer only when the answer to its own frame came
\* in, never with a late answer to a request that used the same id before.
AnswersItsRequest ==
  [][\A r \in Requests :
       outcome[r] = "none" /\ outcome'[r] = "response"
         => \E f \in arriving \ arriving' : f.req = r]_vars

\* A caller bound to the current peer never waits for what cannot come: while it is in
\* line or in the pending map that peer's channel was not lost, and an answer to its own
\* frame is still on the way.  Writes after the encryption, answers dropped or settled
\* after the decryption, losses and new peers run in between (request, sendEncrypted,
\* handleMessage, failAttempt, handleTransportClosed).
CallersCanBeAnswered ==
  \A r \in Waiting \cup Pending :
    target[r] = gen =>
      /\ link \in {"open", "closing"}
      /\ r \in Pending => \E f \in sent \cup arriving : f.req = r /\ f.key = KeyOf(r)

\* Every caller of request() is told an outcome, whatever happens to its peer.
EveryCallSettles ==
  \A r \in Requests : phase[r] # "idle" ~> outcome[r] # "none"

=============================================================================
