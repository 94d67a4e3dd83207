# Verification of the botster-web client core

This directory holds TLA+ models of the parts of botster-web that keep state across
asynchronous steps: the encrypted control connection to the Hub, the requests and held
subscriptions that run over it, the terminal data plane on top of them, and the page's own
state machines over the Hub bridge. TLC checks the models on small instances; TLAPS proves
theorems about all of them for every value of their constants. Each definition is a
translation of code under `src/`; `PROJECT.json` names the lines.

File abbreviations used below: **W** is `src/botster/webrtcDaemonClient.ts`, **T** is
`src/botster/hubTerminalDataPlane.ts`, **H** is `src/botster/hubTransport.ts`, all below `src/`.

## 1. The system

botster-web is a browser client of the botster Hub. There is one page, one thread and no
persistence: a reload starts from nothing. What makes the code hard is that every `await`,
timer, channel event and listener callback is a point where something else runs, while peers,
channels, routes and views come and go.

```
 views: terminal view host, plugin surface, plugin logs, quarantine rows
   |  mount, attach, sendInput, resize, detach       |  dispatch / render / claim
   v                                                 v
 terminal view bridge                              dispatcher (actions.ts)
   |                                                 |  emit, results
   v                                                 v
 HubTerminalDataPlane (T)                          createHubTransport (H)
   |  streamTerminal -> stream handle                |  request, held subscriptions
   |  sendFrame, close, abandon                      |
   v                                                 v
 WebrtcDaemonTransport (W): control peer, request window, control messages, reserved channels
   |  lifecycle events go up to T, H and the views (synchronously)
   v
 Hub and Core (external)
```

### Components

| component | state it keeps | operations | interacts through |
|---|---|---|---|
| Control peer lifecycle (W) | peer generation, current attempt and its deadline, published channel, captured demand, retry timer and backoff | connect, open, complete, fail, loss, retry, disconnect | promises of `connect`, synchronous lifecycle events |
| Host request window (W) | reserved slots per generation, line of waiters, pending map, request ids | request, acquire and grant a slot, encrypted send, answer, timeout, cancel | `connect()`, the pending map, the loss path |
| Control message assembly (W) | chain of inbound messages, assemblies, aggregate byte budget, completed ids | admit, chunk, complete, timeout, overflow | request answers, Hub events, the peer's reset |
| Held entity subscriptions (W) | generation, subscription id, sequence, channel, `resubscribing`, first `ready` | subscribe, restore, snapshot, delta, resubscribe, unsubscribe | requests, reserved channels, entity frames to H |
| Package event subscriptions (W) | holder, binding per generation, admitted channel | subscribe, restore, receive, resubscribe, unsubscribe | as for entity subscriptions |
| Channel deliveries (W) | per channel: chain of messages, chunks of one message, deadline, completed ids | admit, receive, assemble, time out, close | terminal stream and subscription listeners |
| Terminal route (T) | subscription id, attachment, stream, attach promise, `transportLost`, Detach memory | attach, lose, recover, recover once, detach | `streamTerminal`, lifecycle events |
| Terminal hydration (T) | accepted epoch, snapshot reader, held output, progress bound | frames of a route | renderer listeners, reader |
| Terminal input (T) | queue, in-flight window, send chain, geometry, unsafe-paste consent | sendInput, writePaste, resize, pump, result | `sendFrame`, INPUT_RESULT |
| Terminal view bridge and host (`terminal.ts`, `TerminalViewHost.tsx`) | one mount per session, the turn of mounts, cancelled hosts | mount, attach, detach, unmount | data plane, renderer |
| Action dispatcher (`actions.ts`), quarantine resolve (`useHubActions.ts`, `hubQuarantines.ts`) | pending actions and deadlines; a row's state and the operation that owns it | dispatch, result, timeout, Resolve, status read | H, result and frame microtasks |
| Hub transport (H) | connection, counted entity subscriptions, frames emitted by microtask | connect, send, disconnect | the requests and subscriptions of W |
| Plugin logs view (`usePluginLogs.ts`, `pluginLogs.ts`) | epoch of the visit, cursor, log id, records, loading or refused | open, leave, Load newer, Retry, settle | dispatcher |
| Plugin surface and its demand (`usePluginSurfaceDispatch.ts`, `pluginRouteState.ts`, `usePluginRouteState.ts`, `entityOptionsDemand.ts`) | claimed route, surface, demanded families, reference counts | claim, render, complete, accept a result, sync | dispatcher, held subscriptions |
| Entity store (`entities.ts`) | records and sequence per family | apply, pull | frames from H |
| Renderer, encoders, diagnostics, other hooks and views | React state; pure conversions | | |

### What makes them correct, and what is hard

* **Peer lifecycle.** One attempt at a time owns the client; a stale attempt changes nothing;
  demand captured at a loss is served until an attempt completes or the user disconnects;
  nothing acts after disconnect. Hard: five awaits in one attempt, deadline and retry timers,
  callbacks that call `connect` or `disconnect` from inside the loss path.
* **Requests.** A slot is returned exactly once to the generation it came from; the window and
  the line stay within their limits; nobody waits for a slot that nobody will hand on, or for a
  peer that was lost; an answer settles the request it answers, once. Hard: the peer is replaced at any of four awaits of a caller; answers,
  timeouts and losses race for one pending entry; one release grants to one waiter.
* **Control messages and channel deliveries.** A message is handed on once, whole and in order;
  a budget counts what is held; a half-received message ends in a message or in the loss of
  its peer or channel. Hard: the chain goes on after its peer was reset; the deadline races the
  last chunk, which is still being decrypted.
* **Entity and package subscriptions.** What the listener is told is the history without holes
  and never backwards; at most one channel; an established subscription heals. Hard: frames of a
  replaced channel still in line, two reasons to resubscribe at once, a continuation after an
  await that belongs to an earlier peer.
* **Terminal hydration.** The renderer always shows a prefix of the session's output, extended
  in order; an attach ends. Hard: reader calls of abandoned attachments, epochs, overflow,
  listeners that detach in the middle of a flush.
* **Terminal route.** The one live stream is the plane's own; it belongs to the present peer; no
  id is reused across peers; a detached plane leaves no route behind; a recovery ends in a screen
  or a visible failure. Hard: attach, detach, loss and recovery overlap at every await.
* **Terminal input.** Keys and pastes reach the wire in order and uninterrupted; outcomes are
  true; byte counters are exact; nothing waits beside a free window; consent is current.
* **Terminal view.** The terminal the user looks at keeps its renderer; a view that was left
  holds no subscription and released none twice. Hard: an unmount suspended in the plane or the
  renderer while the next mount of the session goes on.
* **Resolve.** A row says what the Hub decided, and the read that clears it shows a list without
  the listing that was resolved. Hard: result, deadline, lost request, the following status read
  and other reads in any order.
* **Plugin logs.** The page shows one log without a hole, one read at a time. Hard: pages of an
  earlier visit land late, a log restarts or evicts between two reads.
* **Plugin surface.** A family's subscription is counted once per holder; a route shows its own
  surface. Hard: renders settle in any order and are checked against a route key only.

## 2. Modules

| module | models | state, as in the code |
|---|---|---|
| `RequestWindow` | request path of W | `phase[r]` is the await caller r is suspended at; `reserved`, `pending`, `nextId`, `ticket` are the class's fields; `sent` and `arriving` are the wire and answers being decrypted |
| `PeerLifecycle` | connect, attempts, losses, retry | `transport`, a record of the fields; each method an operator from a transport to the *set* of transports it can leave, because a listener may act in the middle |
| `ControlAssembly` | control channel, inbound | `transport` (assemblies, budget, completed ids, generation), `queue` the chain, `opening` decrypts under way, `sent` and `delivered` history |
| `ChannelChunks` | one terminal or subscription channel | `binding` (chunks, deadline, completed ids), `queue`, `busy`; `hub` and `delivered` history |
| `EntitySubscription` | one held subscription | `client` (transport fields and subscription), `wire` per subscription id, the Hub's `hubSeq` and `served`, history `view`, the environment `faults` |
| `PackageEvents` | one holder of package events | as `EntitySubscription`, with `emitted` and `heard` for the events |
| `OrderedTerminal` | what a data plane promises a renderer | abstract specification: produced, screen, exit, cold, restored or live |
| `TerminalHydration` | frames of a route in T | `plane`, `reading` (reader calls per attachment), `flushing` (completeHydration's loop), Core's `core` and `wire`; implements `OrderedTerminal` |
| `TerminalRoute` | attachment and recovery in T, stream handle in W | `plane` with one record per stream, the request queue `outbox`, the Hub's routes `hub`, the `environment` |
| `TerminalInput` | input in T | `plane` (queue, counters, chain per attachment), `ops`, the wire `frames`, `answered` |
| `TerminalMounts` | bridge and host | per host `stage` and `cancelled`, `mounts` (the map's entry), renderers, `unmounts` with the await each is at |
| `HubActions` | dispatcher, emit of H, quarantine row | `pending`, `micro` (microtasks), `row` and `listingOf`, the Hub's `requests` and `answers` |
| `PluginLogs` | logs view | `view`, `epoch`, `package`, `reads` under way, the Hub's `log` per package |
| `SurfaceDemand` | plugin surface, demand, counts of H | `claimed`, `surface`, `demanded`, `refCount`, `renders` under way, `dirty` (effects owed) |
| `Transport` | EntitySubscription, PeerLifecycle, PackageEvents, ControlAssembly and ChannelChunks side by side, instances with their variables renamed | `part` and the variables of each |
| `App` | PluginLogs, TerminalMounts, HubActions and SurfaceDemand side by side | `part` and the variables of each |
| `*_proofs` | theorems about `RequestWindow`, `PeerLifecycle`, `EntitySubscription`, `TerminalHydration`, `TerminalRoute`, `TerminalInput`, `Transport` and `App`, the last two with every component they hold | |
| `MC_*` | instances for TLC | |

The modules meet at narrow interfaces. RequestWindow sees of the peer its generation and the
state of its channel; PeerLifecycle is where those come from. TerminalRoute takes "the screen is
restored" as one step that TerminalHydration details, and TerminalHydration and TerminalInput
take a loss of the route as one step that TerminalRoute details. ControlAssembly hands on whole
messages, which RequestWindow takes as answers and PackageEvents as events; ChannelChunks hands
on the whole frames that EntitySubscription and TerminalHydration take from their wires.

`Transport` and `App` put several components in one specification. They share nothing the models
tell apart, so a behaviour belongs to one `part`, chosen in the first state and kept, and the
others stay as they began: the states add up and do not multiply, and what is proved of a
component on its own holds of it there (`PartsRun`, section 4).

An action is the code that runs without an await, with everything it calls synchronously.
Suspended continuations are part of the state. Payloads are model values or small numbers:
entity changes, terminal output and log records are numbered, a snapshot is the number it shows.

## 3. Runs

All passing runs finish within five minutes with two workers. Deadlock checking is off in
all of them: bounded models end, and so does the program after disconnect, detach or leaving.

| run | instance | checked | states |
|---|---|---|---|
| `request_window` | 3 callers, window 1, line 1, 2 replaced peers | 5 invariants, 2 action properties, every call settles | 657,785 |
| `transport` | peer of 3 generations; entity subscription over 3 peers, 4 ids, 3 changes; package events over 3 peers, 4 ids, 3 events; control messages of 2 peers; one channel of 4 messages | 7 invariants, `NothingIsForgotten`, `WaitsEnd` | 572,762 |
| `terminal_hydration` | 2 attachments, 1 resync each, 3 outputs, 2 held | 2 invariants, refinement of OrderedTerminal, an attach ends | 2,112,495 |
| `terminal_route` | 2 peers, 5 attachments, a quiet view and a busy one | 4 invariants, `QuietlyReattaches` | 1,293,786 |
| `terminal_input` | window 2, queue 1, 3 bytes, 2 inputs, 1 resize, 2 attachments, 1 resync | 7 invariants | 1,139,306 |
| `app` | logs: 2 packages, pages of 1, 2 visits, 4 reads, 2 logs, 2 records; 3 mounts; 3 Resolves over 2 listings; 2 routes, 3 renders | 6 invariants, `WaitsEnd` | 352,786 |
| `entity_gap`, `route_stuck`, `route_unmounted`, `renderer_leak`, `render_race`, `assembly_leak` | see section 6 | violations | |

What the properties say is written above each of them in the modules. Notes on why they are
worth their run:

* `NoLostWakeup` allows one exception the code has: after a replacement, a waiter of the new
  generation can wait although its window is empty, as long as an older slot is still out,
  because the release of that slot will grant it. `EveryCallSettles` shows this is enough.
* `CallersCanBeAnswered` relates each waiting caller to the link and the wire: it fails if a loss
  leaves someone behind on any path, or if an answer that is dropped after its decryption is the
  one its caller waits for.
* `AnswersItsRequest` needs the history of frames on the wire: request ids are unique only per
  generation, and the pending key is what keeps a late answer from settling a new request.
* `PeerIsServed` joins four facts about the peer. The one about demand is stated for captured
  demand and for held subscriptions: it fails if a failed attempt schedules a retry for only one
  of the two, which is two different mutants.
* `ViewIsPrefix` relates the sequence a delta is compared with to what the listener was told,
  which is stronger than either alone: resets clear one and not the other.
* `HeardOnceInOrder` is about events that a resubscription may send again and an old channel may
  still have in line; `NothingIsForgotten` is its counterpart for entities and demand.
* `ControlIsAccounted` and `ChunksAreWhole` compare counters and deliveries with what was sent,
  over timeouts, resets and closes that come between a decrypt and its continuation.
* `RendererSeesPrefix` is a refinement: the plane with its routes, epochs, pages, buffers and
  late reader calls implements a terminal that restores, goes live and appends.
* `QuietRecoveryIsClean` is what a recovery promises when the view waits for it: a new id on a
  new peer, no stream held under an id given up, and no route left at the Hub that no Detach in
  line will close. The last covers an attach that is answered after the plane was detached.
* `FramesInOrder` is over all attachments together; `OutcomesAreTrue` compares what the user is
  told with what is on the wire; `InflightIsAnswered` and `PumpIsNeverMissed` are the safety
  form of "nothing is stuck" for the input, whose liveness TLC cannot check in reasonable time.
* `ViewIsLog` compares the page with the Hub's log over restarts and evictions; `RowIsTrue` the
  row with what the Hub decided and the list it is cleared with (below); `DemandIsOfTheRoute` the counts with their holders;
  `MountsAreFenced` the renderer in the map with the host the user looks at.
* `WaitsEnd` is one liveness property per part: a held subscription, a reconnect demand, a holder
  of events, a half-received message; a read, an opened view, a Resolve, a render.

### Order of the Hub's answers

"Hub may complete requests out of order" (docs/architecture.md:22). In RequestWindow
and HubActions the Hub may therefore take any request and any answer may come next. TerminalRoute
writes the Attach and Detach requests of one terminal in the order they are made and assumes that
the Hub takes them in the order they are written; their answers come in any order there too. For
`RowIsTrue` this matters: a read of the status that the Hub took before a Resolve can be answered
after the clean read that cleared the row. The transport gives the late answer a newer sequence
(`hubTransport.ts`:140-145), so the page lists the resolved target again, without feedback, until
the status is read again. No document says otherwise, so no property does: `ClearedByItsRead` is about the list at
the moment the row is cleared.

### Bounds, and why they are enough

* **Callers 3, window 1, line 1.** A leak or double release needs one slot and two callers; the
  lost wakeup needs a holder of an old generation, a stale waiter and a current one; a refused
  caller needs a full line. The limits of the code (32 and its line) change nothing in the
  control flow, and the theorems hold for all values.
* **Peers.** Two losses let something of the first peer (a caller, frame, attempt, channel or
  stream) act after the second has begun. `terminal_route` has one loss, because a plane keeps
  nothing of a peer but the stream it abandons; `route_unmounted` has two. What is proved of the
  route holds for any number.
* **Subscription ids 4.** The original, a resubscription, the restore on a new peer, and one more
  that meets no fault so that healing has room.
* **Control messages.** Two assemblies and five units of budget fit, two messages of two chunks
  exceed them; one completed id is kept, so a second evicts it. Three frames for each of two
  peers give a chunk in line at the replacement.
* **Channel chunks.** Two of four messages come in two chunks, one after the other, so that a
  chunk of the second can meet the deadline of the first; a queue of three can overflow; two
  misuses of the channel (a repeated or foreign chunk) can meet.
* **Attachments 5.** For each loss one busy attachment and one recovery, plus one fresh attach of
  `recoverRoute`. `Spare` keeps the last ones for what must still be able to happen.
* **Hydration.** The second attachment is the one of a recovered transport or the fresh attach of
  `recoverRoute`, and a late reader call of the first meets it; one resynchronization gives a
  stale epoch; three outputs with two held give an order to violate and an overflow. One frame
  under way suffices because the handler takes them one by one, and a resynchronization still
  stands behind an older frame. The refinement is proved without these bounds.
* **Input.** A window of two with a queue of one has every combination of full and free; a paste
  of two frames has a beginning, an end and a place in between; three bytes let a paste be
  refused beside a key. One geometry is enough for the four moments it can be sent, released,
  sent again on a new attachment or overtaken by a resynchronization; a second geometry during
  a send is not explored (more than 14 million states).
* **Page.** Three mounts give an unmount that meets the next mount and the one after; three
  Resolves over two listings give a late result of each earlier one; two visits with four reads
  over two logs give a late page, a Retry and a restart; three renders over two routes give an
  older render of the same key beside one of another.
* `MaxGen`, `MaxId`, `MaxSeq`, `MaxEvents`, `MaxSent`, `MaxMessages`, `MaxFaults`, `MaxAttach`,
  `MaxPeers`, `MaxEpoch`, `MaxOutput`, `MaxPages`, `MaxWire`, `MaxTyped`, `MaxResizes`,
  `MaxResync`, `MaxHosts`, `MaxOps`, `MaxListings`, `MaxVisits`, `MaxReads`, `MaxLogs`,
  `MaxRenders` are bounds of the models only; `MaxPending`, `MaxOutstanding`, `MaxWaiting`,
  `Window`, `MaxQueued`, `MaxBytes`, `MaxAssemblies`, `MaxCompleted`, `PageSize` are limits of the
  code.

### Environments

Three modules carry the environment as a variable, chosen in `Init` and fixed afterwards, so that
one run covers several.

* `EntitySubscription`: `AllFaults` is every fault (lost peer, closing channel, lost subscription
  channel, gap, delta ahead of its snapshot, refusal, unsubscribe); `HealingFaults` those the code
  recovers from (lost peer, lost subscription channel, gap), which `WaitsEnd` is stated for. A
  refused subscribe and a delta ahead of its snapshot are left out of it because the code does not
  heal from them (section 6 and the hazards). `PackageEvents` likewise heals from a lost peer and
  a lost channel.
* `TerminalRoute`: in `{}` the view does not act, and no further loss interrupts, between a loss
  and its re-attachment; `"busy"` lets it; `"unmounted"` lets a peer come back to a plane
  without a listener. `QuietRecoveryIsClean` and `QuietlyReattaches` are stated for `{}`;
  `route_stuck` and `route_unmounted` show why.

### Fairness

Weak fairness is assumed of what the browser and the code's own timers guarantee, and never of
the network doing well, except where a property is about what follows when it does:

* continuations of settled promises, microtasks, effects and queued frames run;
* timers fire: request timeout, attempt deadline, retry, deadline of an assembly or of a chunked
  message, action deadline, hydration progress bound. Every one is armed in the code with a
  finite delay;
* a channel that began to close ends up closed;
* in `transport` the last generation meets no fault and its attempt advances, and in the healing
  environments the Hub answers what it is asked and sends one snapshot per channel: `WaitsEnd` is
  there a statement about the time after the faults;
* in the quiet environment of `terminal_route` requests are written and answered or refused, and a
  lost peer comes back: W retries as long as there is demand, which `PeerIsServed` is about;
* in `app` a request of the bridge settles (W's own request timeout), and a renderer's mount and
  an unmount's waits settle one way or the other;
* `terminal_hydration` assumes nothing of Core or of the reader: both may stop for ever.

In `Transport` and `App` the fairness of a component is stated for the steps of its part.

## 4. Proofs

Eight modules of theorems, each for every value of the constants. Every safety invariant and
every action property that a passing run checks is a theorem.

| module | theorem | says |
|---|---|---|
| `RequestWindow_proofs` | `Inductive`, `TypeCorrect`, `SlotsAccounted`, `WindowHolds`, `PendingAgrees` | slots, window and pending map agree with the callers |
| | `NobodyWaitsInVain` | `[]NoLostWakeup` |
| | `CallersSettleOnce`, `AnswersTheirRequests`, | the two action properties of the run |
| | `WaitersStayAnswerable` | `[]CallersCanBeAnswered`: who waits for the current peer can be answered |
| `PeerLifecycle_proofs` | `Inductive`, `TypeCorrect`, `OneAttemptOwns`, `PublishedCurrent`, `DemandServed`, `DisconnectIsFinal`, `DemandSticks` | types, the parts of `PeerIsServed`, and sticky demand |
| `EntitySubscription_proofs` | `Inductive`, `OneChannelOpen`, `ListenerHasNoHole`, `NeverGoesBack` | `OneChannel`, `ViewIsPrefix`, `ViewNeverGoesBack` |
| `Transport_proofs` | `EventsInductive`, `ControlInductive`, `ChunksInductive` | the inductive invariants of PackageEvents, ControlAssembly and ChannelChunks |
| | `PartsRun` | a run of the transport is a run of each of its components |
| | `TransportTypes`, `TransportPeer`, `TransportEvents`, `TransportControl`, `TransportChunks`, `TransportForgetsNothing`, `TransportEntity` | `TypesOK`, `PeerIsServed`, `HeardOnceInOrder`, `ControlIsAccounted`, `ChunksAreWhole`, `NothingIsForgotten`, and `OneChannel` with `ViewIsPrefix`, of the transport |
| `TerminalHydration_proofs` | `Inductive`, `TypeCorrect`, `HeldIsTheRest`, `RefinesOrderedTerminal` | the plane implements `OrderedTerminal` |
| `TerminalRoute_proofs` | `RouteInvariant`, `OnlyTheHeldStreamLives`, `HeldStreamOfThisPeer` | `LiveStreamIsHeld`; where no recovery is unmounted `HeldStreamIsOfThisPeer` |
| | `LedgerIsKept`, `TypeCorrect`, `QuietRecovery` | the second inductive invariant; `TypeOK`; `QuietRecoveryIsClean` |
| `TerminalInput_proofs` | `Inductive`, `BytesAreAccounted`, `PumpMissesNothing`, `FramesStayInOrder`, `OutcomesStayTrue`, `ConsentStaysCurrent`, `InflightStaysAnswered`, `TypeCorrect` | the invariants of the run |
| `App_proofs` | `Inductive`, `TypeCorrect`, `OneReadAtATime`, `ShowsTheLog` | PluginLogs: `OneRead`, `ViewIsLog` |
| | `MountsInductive`, `ActionsInductive`, `SurfacesInductive`, `CountsAreHolders`, `DemandIsClaimed`, `OwnSurface` | the inductive invariants of TerminalMounts, HubActions and SurfaceDemand, and the parts of `DemandIsOfTheRoute` |
| | `PartsRun`, `PageTypes`, `PageMounts`, `PageRows`, `PageDemand`, `PageLogs` | a run of the page is a run of each part; so `TypesOK`, `MountsAreFenced`, `RowIsTrue`, `DemandIsOfTheRoute`, `OneRead` and `ViewIsLog` hold of it |

They rest on the named assumptions on the constants, on the library's theorems about finite sets
and on nothing else: `RequestsAssumption` (finitely many callers), `LimitsAssumption` (a window of
at least one), `GenAssumption`, `EntityBoundsAssumption`, `BoundsAssumption`,
`ConstantsAssumption`, `PluginLogsAssumption`, `TransportBoundsAssumption` and
`AppBoundsAssumption` (limits and bounds are natural numbers, the memories of completed ids and
the tables of messages are not empty), and `RoutesAssumption` (no route is the absence of one,
and the page's own families are not options families). One is about the Hub:
`RepeatsAssumption` says that it goes back over no more messages of a subscription channel than
the channel remembers. The code depends on it (W keeps a fixed number of completed ids, and an
id older than those is a new message to it), and TLC finds `DeliveredIsPrefix` violated when
`MaxFaults` is larger than `MaxMessagesCompleted`. The theorems of `PeerLifecycle_proofs` have
the hypothesis `MaxGen \in Nat`. The bounds of the models are constants of the theorems: they
hold for every value, so for every run of the program, which uses finitely many.

The arguments:

* **RequestWindow.** Counting slots is not inductive by itself: a grant is allowed because the
  *counter* is below the limit, a release subtracts from the counter, and what has to hold is
  about the *callers* that hold slots. So `IInv` joins the counter equation, the window and line
  bounds, the agreement of the pending map with the suspended callers (without it an answer or a
  loss could settle somebody who holds no slot), and that only settled callers have an outcome.
  Almost every handler ends in the same step: a set of callers settles, their slots are released,
  and as many waiters as releases are granted one. `SettlesPreserves` proves that step once, with
  `SwapCardinality` for the sizes. `NoLostWakeup` is not inductive: a release gives one slot to
  one waiter, which keeps it only if the window was full while somebody waited.
  `FullWhileWaiting` says so, generation by generation. `AnswersItsRequest` needs `Keyed`: a frame
  on the wire or in decryption carries the key of the caller that wrote it. `CallersCanBeAnswered`
  needs `AwaitsCurrent`: nobody waits for a generation to come, so a new peer starts with nobody
  to answer, and each handler lets go of a frame only with the caller that waits for it.
* **PeerLifecycle.** `Good` is over one transport: one attempt runs (`OneAttempt`), nothing is
  known of generations to come (`PastOnly`), an attempt in `open` runs while it owns the client
  (`Opening`), after a disconnect nothing is armed (`Quiet`), and an armed retry timer has a
  demand. Each method is an operator to a set of transports, so each lemma is about a method:
  it leaves a good transport, and `Kept` says what it keeps of the demand. A listener's `connect`
  or `disconnect` in the middle is then just another method.
* **EntitySubscription.** `Good` says that ids and generations are handed out in order
  (`Numbered`), that a channel, a request for one and a resubscription that will send such a
  request exclude each other (`OneAtATime`), and what the sequence is before a snapshot
  (`Unsequenced`). Restores and resubscriptions only make a client `Later`.
* **TerminalHydration.** The argument is about the line of frames of an attachment: in each epoch
  the pieces shown follow each other without a hole, the first is the piece after those the plane
  has taken (`Line`, `Chain`), and Core has sent no other (`Sent`). `Hydration` relates the
  phase, the reader and what is held; `HeldExit` keeps an exit behind held output; `Fresh` says
  nothing is known of attachments to come. With it every action maps to a step of
  `OrderedTerminal` or to a stutter.
* **TerminalRoute.** `Core` says that no stream delivers but the one held (`Delivers`) and that
  the Attach requests in line are those of queued streams, once each (`InLine`); `Held` what the
  held stream is. One lemma per method of the plane, with `Follows` for what a later plane may
  have minted. `OfPeer` is the strengthening for a mounted plane, `Quiet` for the environment in
  which nothing interferes: while the plane is lost, no attachment has begun. The second layer, `Ledger`,
  is about ids. `Counted` says that the ids minted are at most the peers there were and the
  attachments that are over, which is what bounds them in `TypeOK`. `Tidy` holds in the quiet
  environment: an id attached over one peer was attached over no other, the plane's id is new to
  its peer, and each route the Hub holds is that of the plane's stream or has a Detach ahead in
  line. `QuietRecoveryIsClean` follows from both layers.
* **TerminalInput.** `IInv` is `Good`, which holds in the middle of a method too, and `Pumped`,
  which holds at its end. `Flow` is about operations and wire: ids are unique among the
  operations of the stream (`Named`), so a result settles the operation it answers; whatever left
  the queue is older than what is in it (`Aged`), and whatever is on the wire is older than what the
  chain of the stream still has to send, whose head alone is partly out (`OnWire`): with both,
  another frame keeps the order. `Queued`, `Counted` and `Consents` are about the rest of the
  plane. In the middle of a method a line `q` of operations has left the queue and is not yet in
  the chain, and an operation of `x` has left the chain and is not yet settled; both are parameters
  of `Good`, so that each helper (append, geometry, pump, settle, release, abandon, shift) has
  one lemma, and the proof of an action chains those of the helpers it calls. The chain of an
  attachment that is not the stream's has nothing in flight, so its sends settle nothing. The
  counters need no induction: the pump moves a whole line at once, and `BytesOf` counts sets.
* **PackageEvents.** `Counted` numbers ids and generations; `Onward` is what every method of the
  holder keeps (an identity is kept, dropped or new, never an old one), so one step lemma serves
  nearly all actions. `InLine` is the order: an id that was not admitted carries nothing, each
  line rises, and what is in line on the holder's own channel comes after all it was told. An
  old channel may hold events already heard, which is why the last part is about the own one.
* **ControlAssembly.** `Balanced` is about the transport of the present peer only, and `Running`
  says when it holds, because the chain of a replaced peer goes on and opens assemblies in the new
  maps (section 6). `Tailing` and `Fresh` tie the remembered ids to the history: a delivery is
  either remembered or far enough back, so what is decrypted is no id of the last `MaxCompleted`.
* **ChannelChunks.** `Following` says for an open channel that what was handed on, what is
  assembled or decrypted, the line and what Hub sends next are one run of messages: no chunk skips
  one (`NoHole`, `HubFollows`), none goes back further than the channel remembers (`InReach`), and
  the channel remembers the last ones (`Remembers`). On a closed channel none of it holds, and
  only `Parted` and the prefix handed on remain.
* **PluginLogs.** `ViewIsLog` alone does not survive a page: `ReadsAreOrdered` says that an
  append was asked at the cursor or before, which needs the cursor to stay where it was while the
  read is under way (`OneCurrentRead`), and `LogsAreOwned` that a log id is of one package.
* **TerminalMounts.** An unmount that goes on late is harmless because it is of a view that was
  left (`UnmountsAreOfLeft`), the operations of a session run one after another (`OneInLine`) and
  what the map holds has mounted (`EntryHasMounted`); `HostsInTurn` orders the hosts.
* **HubActions.** Requests and answers are sets, so nothing follows from the order they are sent in.
  What orders a Resolve and its own read is that the read is requested only after the Hub accepted
  the Resolve (`ReadsAreOfAccepted`), and then the Hub lists the resolved listing no more
  (`ListingIsGone`). The microtasks keep the list of that read right ahead of the word that it
  was clean (`StatusIsAhead`), so no other read comes between (`RefreshedIsGone`).
* **SurfaceDemand.** Every effect and every settled render ends in a sync of the demand, so
  `SyncCounts` proves the counts once; `ReadyIsClaimed` and `RenderedHasRoute` are what the
  surface needs.
* **Transport, App.** `PartsRun` shows that the steps of one part are steps of its component and
  stutters of the others, so an invariant of a component's `Spec` carries over by temporal logic
  alone. The peer's theorems are in a module of its own and reach the transport through an
  instance; `PeerRuns` and `SamePeer` say that the two instances mean the same.

Only model-checked, beyond the prover's reach: liveness under fairness (`EveryCallSettles`,
`WaitsEnd`, `HydrationEnds`, `QuietlyReattaches`). No
module declares a RECURSIVE operator.

## 5. Mutants

Each property of a passing run has a mutated definition that a plausible slip in the code would
give (a slot released twice, a window checked at its limit, an ownership check missing after an
await, a counter not reset, an id not renewed, a pump not called, a deadline not cleared); a
property with several parts has one for each. The mutated operators stand beside the ones they
change, marked `mutant`. TLC finds the property violated with each of them.

## 6. Where code and documents differ

* **`entity_gap`** (W:2956). "A delta before its snapshot or a sequence gap forces
  resubscription" (docs/architecture.md:38). While a resubscription waits for a first `ready` that
  has not settled, `resubscribing` stays set and a further delta ahead of its snapshot on the
  replacement channel forces nothing.
* **`route_stuck`** (T:907). The comment at T:799 promises a fresh id and a new attachment after a
  recovery. Typing or resizing during the loss attaches at once; if that attachment is rejected
  nobody is told, its stream stays the plane's stream, and the recovery's `ensureAttached` returns
  at once: the view stays attaching.
* **`route_unmounted`** (T:803, against the comment at T:771). A recovery without listeners leaves
  `transportLost` set; a plane mounted afterwards ignores the next loss and keeps a dead stream.
* **`renderer_leak`** (`terminal.ts`:285). `unmount` deletes the session's entry without asking
  whether it is still the one it found. An unmount that waited in the plane's detach deletes the
  entry of the mount that replaced it, and the renderer of that mount is never destroyed.
* **`render_race`** (`pluginRouteState.ts`:173, against the comment at :167). A completion is
  checked against the route key only: leave a route and open it again while its first render is
  under way, and that render writes state after the newer claim.
* **`assembly_leak`** (W:2295, against the comment at W:2316). A chunk that was in line when its
  peer was replaced opens an assembly in the maps of the new peer; its deadline fails a generation
  that is gone, so it keeps one of the concurrent assemblies and its bytes until the new peer ends.

Observed while modelling and not made a finding: an attachment begun during a loss uses the old id
on the new connection (T:907; README.md:80 asks for a new subscription); a resubscription whose
unsubscribe request itself replaces a closing peer clears the identity the new peer's restore has
set (W:2978), and the subscription heals at the next channel loss or peer; `sentGeometry` is set
before its frame is sent (T:470), so a frame that an open channel refuses is not sent again until
the next resize. `PROJECT.json` lists all hazards, those no property covers with the reason.

## 7. What is left

* Abstract specifications of the connection ("up or wanted", PeerLifecycle), of the request
  service (each caller is answered once) and of a replica of a family (EntitySubscription).
* The sharing of a package subscription by several holders in H, and the projection of the
  remaining responses to frames.

## 8. Not modelled

Parts of what is modelled: in PackageEvents a peer is replaced after its link was lost, not by a
`connect()` that meets a closing channel (W:1773; EntitySubscription and RequestWindow have it);
in SurfaceDemand the write of the surface by a render dispatched as a plain action, without a
claim (`useHubActions.ts`:77-87), the release after a rejected ready and the unmount of the page,
so `DemandIsOfTheRoute` is about renders that were claimed; and the order in which requests whose
encryption overlaps reach the Hub (W:1548): RequestWindow admits every order and says nothing of
what the Hub makes of an id below its last one. `terminal.ts`:193, a renderer whose mount fails
and that nothing destroys, is in TerminalMounts (`MountFails`) without a property: no document
says who destroys it.

Rendering, navigation, dialogs and settings (React state without concurrency of its own), the
entity store (sequential: one frame after the other, no wait in between), connection diagnostics
and the first screen (display of lifecycle events), the vendored terminal, the generated protocol
types and codecs, encryption (an envelope decrypts or the peer fails), ICE and SDP (one step that
succeeds or fails), wording, and the scripts, fixtures and live test harness, with the controls W
has for it: the faults it injects are faults of the models. The Hub and Core are external: they
are modelled only by what the client can receive from them, and are free to be slow, silent or to
fail wherever the client has a path for it.

Of the repository's implementation lines the models translate a small part, and a larger share
would not be honest: about a third are live-harness and packaging scripts, another part generated
or vendored protocol and terminal code, and most of the rest presentation and pure conversion, in
which no two steps can meet. What is modelled is the code that waits, which is where the client's
state lives: of W, T, `terminal.ts`, `actions.ts` and the hooks named above, all of it but what
`PROJECT.json` says of each component.

## 9. Running

```
tlc -workers 2 -config MC_RequestWindow.cfg MC_RequestWindow
tlc -workers 2 -config MC_Transport.cfg MC_Transport
tlc -workers 2 -config MC_App.cfg MC_App
tlc -workers 2 -config MC_RendererLeak.cfg TerminalMounts
tlapm RequestWindow_proofs.tla
```

The proofs take from half a minute to about five minutes each.
