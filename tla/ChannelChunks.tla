---------------------------- MODULE ChannelChunks ----------------------------
(***************************************************************************)
(* One admitted data channel of a subscription and the messages Hub sends  *)
(* over it in chunks: handleTerminalChannelMessage, which decrypts every   *)
(* chunk, and handleSubscriptionChannelMessage (entities, package events), *)
(* which decrypts the message once it is whole.                            *)
(*                                                                         *)
(* Chunks are admitted by the listener and handled one at a time on a      *)
(* promise chain that goes on after the channel closed.  Hub sends its     *)
(* messages 1, 2, ... in order and may stop anywhere; it may also misuse   *)
(* the channel, MaxFaults times.  The key is left out: once the peer's key *)
(* is gone its channels are closed, and a closed channel delivers nothing. *)
(***************************************************************************)
EXTENDS Integers, Sequences, FiniteSets, SequencesExt

CONSTANTS MaxMessages,    \* bound of the model: messages Hub sends
          Long,           \* those of them in two chunks; the others are one
          MaxQueued,      \* maximumQueuedFrames
          MaxCompleted,   \* maximumCompletedMessageIds
          MaxFaults       \* bound of the model: frames Hub should not send

VARIABLES class,      \* which handler the channel has; it never changes
          binding,    \* the channel binding
          queue,      \* frames waiting on the chain
          busy,       \* what the chain is suspended in
          hub,        \* the chunk Hub sends next, and its faults so far
          delivered   \* the messages handed to the listener, by their parts

vars == <<class, binding, queue, busy, hub, delivered>>

Classes == {"terminal", "subscription"}
Messages == 1 .. MaxMessages
Count(m) == IF m \in Long THEN 2 ELSE 1
Whole(m) == [i \in 1 .. Count(m) |-> <<m, i>>]

NoMessage == 0
Frames == [id : Messages, index : {1, 2},
           kind : {"good", "corrupt", "refused", "retired"}]
Parts == Seq(Messages \X {1, 2})
Idle == [step |-> "idle", id |-> NoMessage, ok |-> TRUE, parts |-> <<>>]
NotAssembling == [id |-> NoMessage, ok |-> TRUE, parts |-> <<>>]

TypeOK ==
  /\ class \in Classes
  /\ binding \in [closed : BOOLEAN, armed : BOOLEAN,
                  assembly : [id : Messages \cup {NoMessage}, ok : BOOLEAN, parts : Parts],
                  completed : Seq(Messages)]
  /\ queue \in Seq(Frames)
  /\ busy \in [step : {"idle", "decrypt", "deliver"}, id : Messages \cup {NoMessage},
               ok : BOOLEAN, parts : Parts]
  /\ hub \in [id : 1 .. MaxMessages + 1, index : {1, 2}, faults : 0 .. MaxFaults]
  /\ delivered \in Seq(Parts)

Init ==
  /\ class \in Classes
  /\ binding = [closed |-> FALSE, armed |-> FALSE, assembly |-> NotAssembling,
                completed |-> <<>>]
  /\ queue = <<>>
  /\ busy = Idle
  /\ hub = [id |-> 1, index |-> 1, faults |-> 0]
  /\ delivered = <<>>

-----------------------------------------------------------------------------
(* The binding.                                                            *)

\* closeTerminalChannel, closeSubscriptionChannel.  The owner is told and lets go
\* of the listener before the call returns, so the chain delivers nothing more.
Closed(b) == [b EXCEPT !.closed = TRUE, !.armed = FALSE]

\* A chunk at its place: the first one of a message not yet completed starts an
\* assembly, any other continues the open one.
Starts(f) ==
  /\ binding.assembly = NotAssembling /\ f.index = 1
  /\ IF class = "terminal"
     THEN \A m \in ToSet(binding.completed) : f.id > m
     ELSE TRUE

Continues(f) ==
  /\ binding.assembly # NotAssembling
  /\ f.id = binding.assembly.id /\ f.index = Len(binding.assembly.parts) + 1

IsRepeated(f) == class = "subscription" /\ f.id \in ToSet(binding.completed)

FitsUnlessRefused(f) ==   \* mutant: a completed message may come again
  /\ f.kind # "refused"
  /\ Continues(f) \/ (binding.assembly = NotAssembling /\ f.index = 1)
Fits(f) ==
  /\ f.kind # "refused" /\ ~IsRepeated(f)
  /\ Starts(f) \/ Continues(f)

\* The assembly with its deadline, and with a chunk more.
OpenedLate(b, m) ==   \* mutant: the deadline is armed with the second chunk
  IF b.assembly.id = m THEN [b EXCEPT !.armed = TRUE]
  ELSE [b EXCEPT !.assembly.id = m]
Opened(b, m) ==
  IF b.assembly.id = m THEN b
  ELSE [b EXCEPT !.assembly.id = m, !.armed = TRUE]

WithPart(b, m, i, ok) ==
  [b EXCEPT !.assembly.parts = Append(@, <<m, i>>), !.assembly.ok = @ /\ ok]

IsWhole(b) == Len(b.assembly.parts) = Count(b.assembly.id)

\* The whole message leaves the assembly and its deadline is cleared.  A terminal
\* channel keeps the last id, a subscription channel the latest MaxCompleted.
RememberedOf(b) ==
  IF class = "terminal" THEN <<b.assembly.id>>
  ELSE Append(IF Len(b.completed) < MaxCompleted THEN b.completed ELSE Tail(b.completed),
              b.assembly.id)
TakenArmed(b) ==   \* mutant: the deadline of a whole message still runs
  [b EXCEPT !.assembly = NotAssembling, !.completed = RememberedOf(b)]
Taken(b) ==
  [b EXCEPT !.assembly = NotAssembling, !.armed = FALSE, !.completed = RememberedOf(b)]

-----------------------------------------------------------------------------
(* Hub and the message listener.                                           *)

After(h) == IF h.index < Count(h.id) THEN [h EXCEPT !.index = 2]
            ELSE [h EXCEPT !.id = @ + 1, !.index = 1]

Admitted == Len(queue) + IF busy = Idle THEN 0 ELSE 1

\* The listener drops what comes after the close and closes on overflow.
Arrives(f) ==
  /\ ~binding.closed
  /\ IF Admitted < MaxQueued
     THEN queue' = Append(queue, f) /\ UNCHANGED binding
     ELSE binding' = Closed(binding) /\ UNCHANGED queue
  /\ UNCHANGED <<class, busy, delivered>>

Send ==
  /\ hub.id \in Messages
  /\ Arrives([id |-> hub.id, index |-> hub.index, kind |-> "good"])
  /\ hub' = After(hub)

\* A chunk that does not decrypt, or one its header or size disqualifies.
SendBad(kind) ==
  /\ hub.id \in Messages /\ hub.faults < MaxFaults
  /\ Arrives([id |-> hub.id, index |-> hub.index, kind |-> kind])
  /\ hub' = [After(hub) EXCEPT !.faults = @ + 1]

\* A chunk of a retired generation of the route: terminal channels only.
SendRetired ==
  /\ class = "terminal" /\ hub.id \in Messages /\ hub.faults < MaxFaults
  /\ \E i \in {1, 2} : Arrives([id |-> hub.id, index |-> i, kind |-> "retired"])
  /\ hub' = [hub EXCEPT !.faults = @ + 1]

\* A message that was already sent, or one left half sent for the next.
Repeat ==
  /\ hub.id \in Messages \ {1} /\ hub.faults < MaxFaults
  /\ hub' = [hub EXCEPT !.id = @ - 1, !.index = 1, !.faults = @ + 1]
  /\ UNCHANGED <<class, binding, queue, busy, delivered>>

Abandon ==
  /\ hub.id \in Messages /\ hub.index = 2 /\ hub.faults < MaxFaults
  /\ hub' = [hub EXCEPT !.id = @ + 1, !.index = 1, !.faults = @ + 1]
  /\ UNCHANGED <<class, binding, queue, busy, delivered>>

\* The channel closes, its owner lets go of it, or its peer is lost.
Close ==
  /\ ~binding.closed
  /\ binding' = Closed(binding)
  /\ UNCHANGED <<class, queue, busy, hub, delivered>>

-----------------------------------------------------------------------------
(* The chain.                                                              *)

Turn ==
  /\ busy = Idle /\ queue # <<>>
  /\ queue' = Tail(queue)
  /\ UNCHANGED <<class, hub, delivered>>

DiscardRetired ==
  /\ Turn /\ Head(queue).kind = "retired"
  /\ UNCHANGED <<binding, busy>>

\* A throw of the handler closes the channel.
Refuse ==
  /\ Turn /\ Head(queue).kind # "retired"
  /\ ~Fits(Head(queue))
  /\ binding' = Closed(binding)
  /\ UNCHANGED busy

TerminalChunk ==
  LET f == Head(queue)
  IN /\ class = "terminal" /\ Turn /\ f.kind # "retired" /\ Fits(f)
     /\ binding' = Opened(binding, f.id)
     /\ busy' = [step |-> "decrypt", id |-> f.id, ok |-> f.kind = "good",
                 parts |-> <<<<f.id, f.index>>>>]

SubscriptionChunk ==
  LET f == Head(queue)
      with == WithPart(Opened(binding, f.id), f.id, f.index, f.kind = "good")
  IN /\ class = "subscription" /\ Turn /\ Fits(f)
     /\ IF IsWhole(with)
        THEN /\ binding' = Taken(with)
             /\ busy' = [step |-> "decrypt", id |-> f.id, ok |-> with.assembly.ok,
                         parts |-> with.assembly.parts]
        ELSE binding' = with /\ UNCHANGED busy

\* The decrypt of a chunk ends; the last one hands the message to the listener.
DeliversAlways == TRUE   \* mutant: the listener of a closed channel still hears
Delivers == ~binding.closed

ChunkDecrypted ==
  LET part == Head(busy.parts)
      with == WithPart(binding, busy.id, part[2], TRUE)
  IN /\ class = "terminal" /\ busy.step = "decrypt"
     /\ IF ~busy.ok
        THEN binding' = Closed(binding) /\ busy' = Idle /\ UNCHANGED delivered
        ELSE IF ~IsWhole(with)
        THEN binding' = with /\ busy' = Idle /\ UNCHANGED delivered
        ELSE /\ binding' = Taken(with)
             /\ IF Delivers
                THEN /\ delivered' = Append(delivered, with.assembly.parts)
                     /\ busy' = [Idle EXCEPT !.step = "deliver"]
                ELSE busy' = Idle /\ UNCHANGED delivered
     /\ UNCHANGED <<class, queue, hub>>

\* The terminal listener is awaited, and may fail.
ListenerDone ==
  /\ busy.step = "deliver"
  /\ busy' = Idle
  /\ binding' \in {binding, Closed(binding)}
  /\ UNCHANGED <<class, queue, hub, delivered>>

MessageDecrypted ==
  /\ class = "subscription" /\ busy.step = "decrypt"
  /\ busy' = Idle
  /\ IF ~busy.ok
     THEN binding' = Closed(binding) /\ UNCHANGED delivered
     ELSE /\ delivered' = IF Delivers THEN Append(delivered, busy.parts) ELSE delivered
          /\ UNCHANGED binding
  /\ UNCHANGED <<class, queue, hub>>

\* The deadline of the assembly
Timeout ==
  /\ binding.armed
  /\ binding' = Closed(binding)
  /\ UNCHANGED <<class, queue, busy, hub, delivered>>

Next ==
  \/ Send \/ SendBad("corrupt") \/ SendBad("refused") \/ SendRetired
  \/ Repeat \/ Abandon \/ Close
  \/ DiscardRetired \/ Refuse \/ TerminalChunk \/ SubscriptionChunk
  \/ ChunkDecrypted \/ ListenerDone \/ MessageDecrypted
  \/ Timeout

Spec == Init /\ [][Next]_vars

\* Timers fire.  Nothing else is needed: the deadline does not wait for the chain.
FairSpec == Spec /\ WF_vars(Timeout)

-----------------------------------------------------------------------------
(* Properties.                                                             *)

\* handleTerminalChannelMessage and handleSubscriptionChannelMessage: whatever Hub
\* sends and whenever the channel closes, the listener gets Hub's messages from the
\* first on, each whole and once, in order, and without a hole.
DeliveredIsPrefix ==
  \A i \in DOMAIN delivered : delivered[i] = Whole(i)

\* The assembly deadline: on an open channel it runs exactly while a message is
\* incomplete, so a whole message never closes a channel later on.
DeadlineIsOfOpenMessage ==
  ~binding.closed => (binding.armed <=> binding.assembly # NotAssembling)

\* The same deadline: a message Hub stops sending does not hold the channel; it is
\* completed, or the channel closes and its owner recovers.
Incomplete == binding.assembly.id # NoMessage /\ ~binding.closed
MessageEnds == Incomplete ~> ~Incomplete
=============================================================================
