------------------------------ MODULE HubActions ------------------------------
(***************************************************************************)
(* A semantic action from a click to its feedback: the dispatcher that     *)
(* correlates results (actions.ts), the transport's part of an action      *)
(* (hubTransport.ts) and the hook that shows the outcome (useHubActions),  *)
(* for the one action that goes on after its result: Resolve of a          *)
(* quarantine, which reads the Hub's status again.                         *)
(*                                                                         *)
(* One quarantine target.  An operation is one Resolve; its number is its  *)
(* operation id and its request id.  A listing is a quarantined_at_ms.     *)
(* Frames and promise callbacks are microtasks: they run in order and      *)
(* before the next event.  Requests are correlated by their ids only: the  *)
(* Hub may read and complete them in any order, so what is under way is a  *)
(* set, and no request or answer is in it twice.                           *)
(***************************************************************************)
EXTENDS Integers, Sequences, SequencesExt

CONSTANTS
  MaxOps,        \* bound of the model: Resolve operations
  MaxListings    \* bound of the model: times the Hub quarantines the target

VARIABLES
  lastOp,     \* quarantineOperationSequence
  listingOf,  \* the listing an operation was dispatched for
  row,        \* the outcome kept for the target
  listed,     \* the listing in the status the page shows, 0 if none
  pending,    \* dispatcher: operations whose promise is not resolved
  waiting,    \* requests the daemon client has not settled
  micro,      \* queued microtasks
  pulled,     \* bound of the model: the one other read of the status was sent
  connected,  \* the page is mounted: frames reach it
  hub,        \* external: the Hub's listing, its listings so far, its verdict on each operation
  requests,   \* external: requests the Hub has not taken
  answers,    \* external: answers under way
  refreshed   \* history: operations reported clean, with the list shown at that moment

vars == <<lastOp, listingOf, row, listed, pending, waiting, micro, pulled, connected, hub, requests, answers, refreshed>>
page == <<lastOp, listingOf, row, listed, pulled, connected, refreshed>>

Ops == 1 .. MaxOps
NoRow == [state |-> "none", op |-> 0, listing |-> 0]
RowStates == {"none", "pending", "refreshing", "refused", "resolved_stale", "failed"}
Rows == [state : RowStates, op : 0 .. MaxOps, listing : 0 .. MaxListings]

ResolveOf(op) == [type |-> "resolve", op |-> op]
StatusOf(op) == [type |-> "status", op |-> op]   \* the read of an operation; 0 for any other

Init ==
  /\ lastOp = 0 /\ listed = 0 /\ pulled = FALSE
  /\ listingOf = [op \in Ops |-> 0]
  /\ row = NoRow
  /\ pending = {} /\ waiting = {} /\ refreshed = {}
  /\ micro = <<>> /\ requests = {} /\ answers = {}
  /\ connected = TRUE
  /\ hub = [listing |-> 0, listings |-> 0, verdict |-> [op \in Ops |-> "none"]]

-----------------------------------------------------------------------------
(* The row's state machine, hubQuarantines.ts.                             *)

\* settleQuarantineResult: only the pending entry of the same operation.
SettledByAnyResult(op, state) == [row EXCEPT !.state = state]   \* mutant: no owner check
SettledByResult(op, state) ==
  IF row.op = op /\ row.state = "pending" THEN [row EXCEPT !.state = state] ELSE row

\* settleQuarantineRefresh: a clean read clears the row, a failed one keeps it stale.
RefreshOfPending(op, ok) ==   \* mutant: a row that is refreshing is not settled
  IF row.op = op /\ row.state = "pending"
  THEN IF ok THEN NoRow ELSE [row EXCEPT !.state = "resolved_stale"] ELSE row
RefreshTakesRow(op, ok) ==   \* mutant: the row is written with the operation of the frame
  IF row.state \in {"pending", "refreshing"}
  THEN IF ok THEN NoRow ELSE [row EXCEPT !.state = "resolved_stale", !.op = op] ELSE row
SettledByRefresh(op, ok) ==
  IF row.op = op /\ row.state \in {"pending", "refreshing"}
  THEN IF ok THEN NoRow ELSE [row EXCEPT !.state = "resolved_stale"] ELSE row

\* quarantineRowOutcome: an outcome of an earlier listing does not apply.
Outcome == IF row.listing = listed THEN row.state ELSE "none"

\* The row offers Resolve.
ResolveOffered == listed # 0 /\ Outcome \notin {"pending", "refreshing", "resolved_stale"}

-----------------------------------------------------------------------------
(* Events.  Each runs when no microtask is left.                           *)

\* The dispatcher resolves the promise of an operation that is pending; the hook's
\* callback is a microtask.
Callback(op, state) == [kind |-> "callback", op |-> op, state |-> state]
Resolved(op, state) ==
  IF op \in pending THEN pending' = pending \ {op} /\ micro' = micro \o <<Callback(op, state)>>
  ELSE UNCHANGED <<pending, micro>>

Send(r) == requests' = requests \cup {r} /\ waiting' = waiting \cup {r}

\* dispatchAction with Resolve: the row is pending, the dispatcher waits for the result,
\* and the transport has sent the request.
Resolve ==
  /\ micro = <<>> /\ connected /\ ResolveOffered /\ lastOp < MaxOps
  /\ LET op == lastOp + 1
     IN /\ lastOp' = op
        /\ listingOf' = [listingOf EXCEPT ![op] = listed]
        /\ row' = [state |-> "pending", op |-> op, listing |-> listed]
        /\ pending' = pending \cup {op}
        /\ Send(ResolveOf(op))
  /\ UNCHANGED <<listed, micro, pulled, connected, hub, answers, refreshed>>

\* entity_pull of the status, by a page that opens or a reload.
PullStatus ==
  /\ micro = <<>> /\ connected /\ ~pulled
  /\ pulled' = TRUE
  /\ Send(StatusOf(0))
  /\ UNCHANGED <<lastOp, listingOf, row, listed, pending, micro, connected, hub, answers, refreshed>>

\* The action deadline.
ActionTimeout(op) ==
  /\ micro = <<>> /\ op \in pending
  /\ Resolved(op, "failed")
  /\ UNCHANGED <<page, waiting, hub, requests, answers>>

\* What the answer to a status read emits: the status, then its status_refresh.
RefreshFirst(op, listing) ==   \* mutant: status_refresh is emitted ahead of the status
  (IF op = 0 THEN <<>> ELSE <<[kind |-> "refresh", op |-> op, ok |-> TRUE]>>) \o
  <<[kind |-> "status", listing |-> listing]>>
StatusFrames(op, listing) ==
  <<[kind |-> "status", listing |-> listing]>> \o
  (IF op = 0 THEN <<>> ELSE <<[kind |-> "refresh", op |-> op, ok |-> TRUE]>>)
FailedRead(op) == IF op = 0 THEN <<>> ELSE <<[kind |-> "refresh", op |-> op, ok |-> FALSE]>>

\* An answer of the Hub: dispatchDaemonAction goes on, unless its request was settled.
\* A status read that is answered late is emitted like any other: the list it shows is
\* the newest one, whenever the Hub read it.
AnswerArrives(a) ==
  /\ micro = <<>> /\ a \in answers
  /\ LET r == [type |-> a.type, op |-> a.op]
     IN /\ answers' = answers \ {a}
        /\ IF r \notin waiting THEN UNCHANGED <<micro, waiting, requests>>
           ELSE IF a.type = "status"
           THEN /\ micro' = IF a.ok THEN StatusFrames(a.op, a.listing) ELSE FailedRead(a.op)
                /\ waiting' = waiting \ {r}
                /\ UNCHANGED requests
           ELSE LET next == IF a.ok THEN {StatusOf(a.op)} ELSE {}
                IN /\ micro' = <<[kind |-> "result", op |-> a.op, ok |-> a.ok]>>
                   /\ waiting' = (waiting \ {r}) \cup next
                   /\ requests' = requests \cup next
  /\ UNCHANGED <<page, pending, hub>>

\* The daemon client rejects a request: it timed out, its peer was lost, it disconnected.
RequestFails(r) ==
  /\ micro = <<>> /\ r \in waiting
  /\ waiting' = waiting \ {r}
  /\ IF r.type = "resolve" THEN Resolved(r.op, "failed")
     ELSE micro' = FailedRead(r.op) /\ UNCHANGED pending
  /\ UNCHANGED <<page, hub, requests, answers>>

\* The page unmounts: rejectPending, and no frame reaches it any more.
Unmount ==
  /\ micro = <<>> /\ connected
  /\ connected' = FALSE
  /\ pending' = {}
  /\ micro' = SetToSeq({Callback(op, "failed") : op \in pending})
  /\ UNCHANGED <<lastOp, listingOf, row, listed, waiting, pulled, hub, requests, answers, refreshed>>

-----------------------------------------------------------------------------
(* Microtasks.                                                             *)

RunCallback(t) ==
  /\ row' = SettledByResult(t.op, t.state)
  /\ micro' = Tail(micro)
  /\ UNCHANGED <<listed, pending, refreshed>>

\* receiveResult, for an operation that is still pending.
DeliverResult(t) ==
  /\ IF t.op \in pending
     THEN /\ pending' = pending \ {t.op}
          /\ micro' = Append(Tail(micro), Callback(t.op, IF t.ok THEN "refreshing" ELSE "refused"))
     ELSE micro' = Tail(micro) /\ UNCHANGED pending
  /\ UNCHANGED <<row, listed, refreshed>>

DeliverStatus(t) ==
  /\ listed' = t.listing
  /\ micro' = Tail(micro)
  /\ UNCHANGED <<row, pending, refreshed>>

DeliverRefresh(t) ==
  /\ row' = SettledByRefresh(t.op, t.ok)
  /\ refreshed' = IF t.ok THEN refreshed \cup {[op |-> t.op, listing |-> listed]} ELSE refreshed
  /\ micro' = Tail(micro)
  /\ UNCHANGED <<listed, pending>>

Microtask ==
  /\ micro # <<>>
  /\ LET t == Head(micro)
     IN \/ t.kind = "callback" /\ RunCallback(t)
        \/ t.kind # "callback" /\ ~connected /\ micro' = Tail(micro) /\ UNCHANGED <<row, listed, pending, refreshed>>
        \/ connected /\ t.kind = "result" /\ DeliverResult(t)
        \/ connected /\ t.kind = "status" /\ DeliverStatus(t)
        \/ connected /\ t.kind = "refresh" /\ DeliverRefresh(t)
  /\ UNCHANGED <<lastOp, listingOf, waiting, pulled, connected, hub, requests, answers>>

-----------------------------------------------------------------------------
(* External: the Hub.                                                      *)

HubQuarantines ==
  /\ hub.listing = 0 /\ hub.listings < MaxListings
  /\ hub' = [hub EXCEPT !.listing = hub.listings + 1, !.listings = @ + 1]
  /\ UNCHANGED <<page, pending, waiting, micro, requests, answers>>

\* The request names the target only: it resolves whatever listing the target has.
HubTakes(r) ==
  /\ r \in requests
  /\ IF r.type = "status"
     THEN /\ UNCHANGED hub
          /\ \E ok \in BOOLEAN :
               answers' = answers \cup {[type |-> "status", op |-> r.op, ok |-> ok, listing |-> hub.listing]}
     ELSE LET ok == hub.listing # 0
          IN /\ hub' = [hub EXCEPT !.listing = 0, !.verdict[r.op] = IF ok THEN "accepted" ELSE "refused"]
             /\ answers' = answers \cup {[type |-> "resolve", op |-> r.op, ok |-> ok, listing |-> 0]}
  /\ requests' = requests \ {r}
  /\ UNCHANGED <<page, pending, waiting, micro>>

-----------------------------------------------------------------------------
Requests == {ResolveOf(op) : op \in Ops} \cup {StatusOf(op) : op \in 0 .. MaxOps}

Next ==
  \/ Resolve \/ PullStatus \/ Unmount \/ Microtask
  \/ \E a \in answers : AnswerArrives(a)
  \/ \E op \in Ops : ActionTimeout(op)
  \/ \E r \in Requests : RequestFails(r)
  \/ HubQuarantines
  \/ \E r \in requests : HubTakes(r)

Spec == Init /\ [][Next]_vars

\* Microtasks run; the deadline of an action and the timeout of a request fire.
Fairness ==
  /\ WF_vars(Microtask)
  /\ WF_vars(\E op \in Ops : ActionTimeout(op))
  /\ WF_vars(\E r \in Requests : RequestFails(r))
FairSpec == Spec /\ Fairness

-----------------------------------------------------------------------------
(* Properties.                                                             *)

\* Every variable has its type.
TypeOK ==
  /\ lastOp \in 0 .. MaxOps /\ listed \in 0 .. MaxListings
  /\ listingOf \in [Ops -> 0 .. MaxListings]
  /\ row \in Rows
  /\ pending \subseteq Ops
  /\ refreshed \subseteq [op : Ops, listing : 0 .. MaxListings]
  /\ waiting \subseteq Requests /\ requests \subseteq Requests
  /\ connected \in BOOLEAN /\ pulled \in BOOLEAN

\* The row never says what did not happen to the operation it belongs to: refused only if
\* the Hub refused that operation, resolved only if it accepted it, pending only while its
\* result can still come, and the operation is the newest one of the target.
OutcomeIsTrue ==
  row # NoRow =>
    /\ row.op = lastOp
    /\ row.state = "refused" => hub.verdict[row.op] = "refused"
    /\ row.state \in {"refreshing", "resolved_stale"} => hub.verdict[row.op] = "accepted"
    /\ row.state = "pending" =>
         row.op \in pending \/ \E i \in DOMAIN micro : micro[i].kind = "callback" /\ micro[i].op = row.op

\* When the feedback of a Resolve goes away because the status was read again, the list on
\* the page is that read: it does not show the listing that was resolved, whichever other
\* reads are under way and in whatever order the Hub completes them.  (It may show it
\* again later: a read the Hub took before the Resolve and answers after all this.)
ClearedByItsRead == \A c \in refreshed : c.listing # listingOf[c.op]

\* A row does not say "Resolving" or "Reading the Hub status again" for ever.
Resolving == connected /\ row.state \in {"pending", "refreshing"}
RowSettles == Resolving ~> ~Resolving
=============================================================================
