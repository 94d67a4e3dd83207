--------------------------- MODULE ControlAssembly ---------------------------
(***************************************************************************)
(* Inbound messages of the control channel of WebrtcDaemonTransport:       *)
(* admission, the promise chain that handles one chunk at a time, the      *)
(* assemblies, their shared retained budget, the ids of completed messages *)
(* and the reset of all of it with the peer.                               *)
(*                                                                         *)
(* Every peer has its own chain, and a chain outlives its peer: chunks     *)
(* already queued are handled whatever has become of the channel, and a    *)
(* decrypt may end after the peer was lost or replaced.                    *)
(*                                                                         *)
(* A message is an id and a number of chunks.  Retained bytes are counted  *)
(* in units: one for an assembly, one for a chunk, one for a completed id. *)
(***************************************************************************)
EXTENDS Integers, Sequences, FiniteSets, SequencesExt

CONSTANTS Short,           \* ids of messages of one chunk
          Long,            \* ids of messages of two chunks
          Closing,         \* those of them that carry Hub's close
          MaxAssemblies,   \* maximumConcurrentAssemblies
          MaxBytes,        \* maximumAggregateRetainedBytes, in units
          MaxCompleted,    \* maximumCompletedMessageIds
          MaxQueued,       \* maximumQueuedFrames
          MaxGen,          \* bound of the model: peer generations
          MaxSent          \* bound of the model: frames of one peer

VARIABLES transport,   \* the fields of the transport the handler uses
          queue,       \* frames on the chain of each peer
          opening,     \* the decrypt each chain waits for
          sent,        \* frames each peer's channel has received
          delivered    \* ids each chain has handed on, in order: a history

chains == <<queue, opening>>
vars == <<transport, queue, opening, sent, delivered>>

Gens == 1 .. MaxGen
Ids == Short \cup Long
Count(id) == IF id \in Long THEN 2 ELSE 1
Chunks == {c \in [id : Ids, index : {1, 2}] : c.index <= Count(c.id)}
NoAssembly == [gen |-> 0, chunks |-> {}, armed |-> FALSE]
NotOpening == [id |-> CHOOSE id \in Ids : TRUE, key |-> 0]

TypeOK ==
  /\ transport \in [gen : 0 .. MaxGen, phase : {"none", "attempt", "published"},
                    failed : BOOLEAN, completed : Seq(Ids), retained : Int,
                    assemblies : [Ids -> [gen : 0 .. MaxGen, chunks : SUBSET {1, 2},
                                          armed : BOOLEAN]]]
  /\ queue \in [Gens -> Seq(Chunks)]
  /\ opening \in [Gens -> [id : Ids, key : 0 .. MaxGen]]
  /\ sent \in [Gens -> 0 .. MaxSent]
  /\ delivered \in [Gens -> Seq(Ids)]

Init ==
  /\ transport = [gen |-> 0, phase |-> "none", failed |-> FALSE,
                  assemblies |-> [id \in Ids |-> NoAssembly],
                  completed |-> <<>>, retained |-> 0]
  /\ queue = [g \in Gens |-> <<>>]
  /\ opening = [g \in Gens |-> NotOpening]
  /\ sent = [g \in Gens |-> 0]
  /\ delivered = [g \in Gens |-> <<>>]

-----------------------------------------------------------------------------
(* Assemblies, the budget and the completed ids.                           *)

Held(t) == {id \in Ids : t.assemblies[id] # NoAssembly}
Size(assembly) == IF assembly = NoAssembly THEN 0 ELSE 1 + Cardinality(assembly.chunks)

\* ensureAggregateBudget
Fits(t, bytes) == t.retained + bytes <= MaxBytes

\* clearAssemblies, as resetPeerState calls it
ResetKeepsBudget(t) ==   \* mutant: the budget outlives the assemblies
  [t EXCEPT !.phase = "none", !.completed = <<>>,
            !.assemblies = [id \in Ids |-> NoAssembly]]
Reset(t) ==
  [t EXCEPT !.phase = "none", !.completed = <<>>, !.retained = 0,
            !.assemblies = [id \in Ids |-> NoAssembly]]

\* failPeerGeneration: the loss path resets the peer, once.
Failed(t, g) == IF g # t.gen \/ t.failed THEN t ELSE [Reset(t) EXCEPT !.failed = TRUE]

\* The throws of handleMessage and validateAssemblyChunk before a chunk is kept.
RefusesUnlessHeld(t, g, c) ==   \* mutant: completed ids are not looked up
  IF c.id \in Held(t)
  THEN \/ t.assemblies[c.id].gen # g
       \/ c.index \notin t.assemblies[c.id].chunks /\ ~Fits(t, 1)
  ELSE Cardinality(Held(t)) >= MaxAssemblies \/ ~Fits(t, 2)
Refuses(t, g, c) ==
  \/ c.id \in ToSet(t.completed)
  \/ c.id \in Held(t) /\ t.assemblies[c.id].gen # g
  \/ c.id \in Held(t) /\ c.index \notin t.assemblies[c.id].chunks /\ ~Fits(t, 1)
  \/ c.id \notin Held(t) /\ (Cardinality(Held(t)) >= MaxAssemblies \/ ~Fits(t, 2))

IsDuplicate(t, c) == c.id \in Held(t) /\ c.index \in t.assemblies[c.id].chunks

\* The chunk starts an assembly, with its deadline armed, or joins its own.
KeptUnarmed(t, g, c) ==   \* mutant: an assembly without a deadline
  [t EXCEPT !.assemblies[c.id] =
              IF c.id \in Held(t) THEN [t.assemblies[c.id] EXCEPT !.chunks = @ \cup {c.index}]
              ELSE [gen |-> g, chunks |-> {c.index}, armed |-> FALSE],
            !.retained = @ + IF c.id \in Held(t) THEN 1 ELSE 2]
Kept(t, g, c) ==
  [t EXCEPT !.assemblies[c.id] =
              IF c.id \in Held(t) THEN [t.assemblies[c.id] EXCEPT !.chunks = @ \cup {c.index}]
              ELSE [gen |-> g, chunks |-> {c.index}, armed |-> TRUE],
            !.retained = @ + IF c.id \in Held(t) THEN 1 ELSE 2]

IsComplete(t, id) == Cardinality(t.assemblies[id].chunks) = Count(id)

\* releaseAssembly
Released(t, id, assembly) ==
  [t EXCEPT !.assemblies[id] = NoAssembly, !.retained = @ - Size(assembly)]

\* retainCompletedMessageId: the oldest id makes room.  A release has freed more
\* than an id takes, so its budget check always passes.
Retained(t, id) ==
  IF Len(t.completed) < MaxCompleted
  THEN [t EXCEPT !.completed = Append(@, id), !.retained = @ + 1]
  ELSE [t EXCEPT !.completed = Append(Tail(@), id)]

-----------------------------------------------------------------------------
(* The peer, as these messages see it.                                     *)

\* startAttempt, once the previous peer is gone
Attempt ==
  /\ transport.phase = "none" /\ transport.gen < MaxGen
  /\ transport' = [Reset(transport) EXCEPT !.gen = @ + 1, !.phase = "attempt",
                                          !.failed = FALSE]
  /\ UNCHANGED <<chains, sent, delivered>>

\* open publishes the key and the channel
Publish ==
  /\ transport.phase = "attempt"
  /\ transport' = [transport EXCEPT !.phase = "published"]
  /\ UNCHANGED <<chains, sent, delivered>>

\* the channel or the connection closes, or the attempt fails
Lose ==
  /\ transport.phase # "none"
  /\ transport' = Reset(transport)
  /\ UNCHANGED <<chains, sent, delivered>>

-----------------------------------------------------------------------------
(* The message listener and the chain.                                     *)

Admitted(g) == Len(queue[g]) + IF opening[g] = NotOpening THEN 0 ELSE 1

\* The listener takes frames of the current peer only, and a bounded number.
Receive(g, c) ==
  /\ transport.phase = "published" /\ transport.gen = g
  /\ sent[g] < MaxSent
  /\ sent' = [sent EXCEPT ![g] = @ + 1]
  /\ IF Admitted(g) < MaxQueued
     THEN queue' = [queue EXCEPT ![g] = Append(@, c)] /\ UNCHANGED transport
     ELSE transport' = Failed(transport, g) /\ UNCHANGED queue
  /\ UNCHANGED <<opening, delivered>>

\* The chain turns to its next frame; it asks nobody whether the peer is current.
Turn(g) ==
  /\ opening[g] = NotOpening /\ queue[g] # <<>>
  /\ queue' = [queue EXCEPT ![g] = Tail(@)]
  /\ UNCHANGED <<sent, delivered>>

RefuseChunk(g) ==
  /\ Turn(g)
  /\ Refuses(transport, g, Head(queue[g]))
  /\ transport' = Failed(transport, g)
  /\ UNCHANGED opening

SkipDuplicate(g) ==
  /\ Turn(g)
  /\ ~Refuses(transport, g, Head(queue[g])) /\ IsDuplicate(transport, Head(queue[g]))
  /\ UNCHANGED <<transport, opening>>

KeepChunk(g) ==
  LET c == Head(queue[g])
      kept == Kept(transport, g, c)
  IN /\ Turn(g)
     /\ ~Refuses(transport, g, c) /\ ~IsDuplicate(transport, c)
     /\ IF ~IsComplete(kept, c.id)
        THEN transport' = kept /\ UNCHANGED opening
        ELSE IF transport.phase = "published"
        THEN /\ transport' = kept
             /\ opening' = [opening EXCEPT ![g] = [id |-> c.id, key |-> transport.gen]]
        ELSE transport' = Failed(kept, g) /\ UNCHANGED opening

\* The decrypt ends.  It succeeds under the key of the peer that sealed the
\* message, and counts unless the generation has moved on.
IsCurrentAlways(g) == TRUE   \* mutant: no check after the decrypt
IsCurrent(g) == g = transport.gen
EndDecrypt(g) ==
  LET id == opening[g].id
      done == Retained(Released(transport, id, [gen |-> g, chunks |-> 1 .. Count(id),
                                                armed |-> TRUE]), id)
  IN /\ opening[g] # NotOpening
     /\ opening' = [opening EXCEPT ![g] = NotOpening]
     /\ IF opening[g].key # g
        THEN transport' = Failed(transport, g) /\ UNCHANGED delivered
        ELSE IF ~IsCurrent(g)
        THEN UNCHANGED <<transport, delivered>>
        ELSE /\ transport' = IF id \in Closing THEN Failed(done, g) ELSE done
             /\ delivered' = [delivered EXCEPT ![g] = Append(@, id)]
     /\ UNCHANGED <<queue, sent>>

\* The deadline of an assembly; its handler fails the generation it was armed for.
Timeout(id) ==
  /\ transport.assemblies[id].armed
  /\ transport' = Failed([transport EXCEPT !.assemblies[id].armed = FALSE],
                         transport.assemblies[id].gen)
  /\ UNCHANGED <<chains, sent, delivered>>

Next ==
  \/ Attempt \/ Publish \/ Lose
  \/ \E g \in Gens, c \in Chunks : Receive(g, c)
  \/ \E g \in Gens : RefuseChunk(g) \/ SkipDuplicate(g) \/ KeepChunk(g) \/ EndDecrypt(g)
  \/ \E id \in Ids : Timeout(id)

Spec == Init /\ [][Next]_vars

\* Timers fire; the deadline alone ends an assembly, however late the chain is.
Fairness == WF_vars(\E id \in Ids : Timeout(id))

FairSpec == Spec /\ Fairness

-----------------------------------------------------------------------------
(* Properties.                                                             *)

\* What is held of unfinished messages, a unit for an assembly and one for each chunk.
Units(t) ==
  {u \in Ids \X {0, 1, 2} :
     u[1] \in Held(t) /\ (u[2] = 0 \/ u[2] \in t.assemblies[u[1]].chunks)}

\* aggregateRetainedBytes (ensureAggregateBudget, releaseAssembly,
\* retainCompletedMessageId, clearAssemblies): while there is a peer or an attempt,
\* the budget counts exactly what is held, late chunks and late decrypts included,
\* and never more than the limit.
BudgetIsHeld ==
  transport.phase # "none" =>
    /\ transport.retained = Len(transport.completed) + Cardinality(Units(transport))
    /\ transport.retained <= MaxBytes

\* completedMessageIds: two deliveries of one id by one peer lie at least
\* maximumCompletedMessageIds other deliveries apart.
DeliveredOnce ==
  \A g \in Gens : \A i, j \in DOMAIN delivered[g] :
    i < j /\ delivered[g][i] = delivered[g][j] => j - i > MaxCompleted

\* The assembly deadline in handleMessage: an assembly of the current peer is
\* finished or costs the peer; none stays half received.
HalfReceived ==
  transport.phase = "published" /\ \E id \in Ids : transport.assemblies[id].gen = transport.gen
AssemblyEnds == HalfReceived ~> ~HalfReceived

\* Chunks are "generation-tagged" and a new peer recovers (the transport plan):
\* what is assembled belongs to the current peer.
AssembliesOfThisPeer ==
  \A id \in Held(transport) : transport.assemblies[id].gen = transport.gen
=============================================================================
