------------------------------ MODULE PluginLogs ------------------------------
(***************************************************************************)
(* The plugin logs view of a package: one read at a time, a cursor bound   *)
(* to one log, a reset read when the log was started again (pluginLogs.ts  *)
(* and usePluginLogs).                                                     *)
(*                                                                         *)
(* A log has an id that is never used twice.  Its records are numbered     *)
(* from 1; the oldest ones leave it.  A read that was dispatched by an     *)
(* earlier visit of the view may be answered at any later time.            *)
(***************************************************************************)
EXTENDS Integers, FiniteSets, Sequences

CONSTANTS
  Packages,    \* packages with a logs view
  PageSize,    \* records of a page
  MaxVisits,   \* bound of the model: times a view is opened
  MaxReads,    \* bound of the model: reads
  MaxLogs,     \* bound of the model: log ids
  MaxSeq       \* bound of the model: records of a log

ASSUME PluginLogsAssumption ==
  /\ PageSize \in Nat \ {0}
  /\ MaxVisits \in Nat /\ MaxReads \in Nat /\ MaxLogs \in Nat /\ MaxSeq \in Nat

VARIABLES
  visit,      \* the visit that runs or ran last, 0 before the first
  package,    \* its package
  mounted,    \* it is on the page
  epoch,      \* epochRef
  view,       \* viewRef
  inFlight,   \* inFlightRef
  failed,     \* failedReadRef
  state,      \* what was set last: its owner (a visit), view and status
  reads,      \* dispatched reads the dispatcher has not settled
  nextRead,   \* number of the next read
  log,        \* external: the log of each package; id 0 when it has none
  logs        \* external: the package of each log id so far

vars == <<visit, package, mounted, epoch, view, inFlight, failed, state, reads, nextRead, log, logs>>
hubVars == <<log, logs>>

Visits == 0 .. MaxVisits
LogIds == 0 .. MaxLogs

Read == [after : Nat, reset : BOOLEAN]
NoRead == [after |-> -1, reset |-> FALSE]
OpenRead == [after |-> 0, reset |-> FALSE]
ResetRead == [after |-> 0, reset |-> TRUE]

\* Records and evicted ranges of the view, by their numbers.
Views == [loaded : BOOLEAN, logId : LogIds, cursor : Nat, records : SUBSET (LogIds \X Nat), evicted : SUBSET Nat]
EmptyView == [loaded |-> FALSE, logId |-> 0, cursor |-> 0, records |-> {}, evicted |-> {}]

Init ==
  /\ visit = 0 /\ package \in Packages /\ mounted = FALSE
  /\ epoch = 0 /\ nextRead = 1
  /\ view = EmptyView /\ inFlight = FALSE /\ failed = NoRead
  /\ state = [owner |-> 0, view |-> EmptyView, status |-> "loading"]
  /\ reads = {}
  /\ log = [p \in Packages |-> [id |-> 0, first |-> 1, last |-> 0]]
  /\ logs = <<>>

-----------------------------------------------------------------------------
(* pluginLogs.ts                                                           *)

Greatest(S, low) == CHOOSE m \in S \cup {low} : \A s \in S \cup {low} : s <= m

Records(p) == {p.id} \X p.seqs

\* External: the Hub's page after a record: the oldest records kept, one page at most.
\* It is read where it is delivered: what a log does while a page is under way may as
\* well happen after its delivery, since a view asks for one page at a time.
PageOf(l, after) ==
  LET from == IF l.first > after THEN l.first ELSE after + 1
  IN [id |-> l.id, first |-> l.first, seqs |-> {s \in from .. l.last : s < from + PageSize}]

\* viewFromPage: the page replaces the view.
ViewFromPage(p) ==
  [loaded |-> TRUE, logId |-> p.id, cursor |-> Greatest(p.seqs, p.first - 1),
   records |-> Records(p), evicted |-> 1 .. p.first - 1]

\* A page of the log that the view holds is appended after the cursor.
Fresh(v, p) == [p EXCEPT !.seqs = {s \in p.seqs : s > v.cursor}]
CursorOfFresh(v, p) == Greatest(Fresh(v, p).seqs, v.cursor)   \* mutant: evicted records do not move the cursor
CursorAfter(v, p) == Greatest(Fresh(v, p).seqs \cup {p.first - 1}, v.cursor)
AppendedOnly(v, p) ==   \* mutant: the fresh records replace the ones held
  [v EXCEPT !.cursor = CursorAfter(v, p), !.records = Records(Fresh(v, p)),
            !.evicted = @ \cup (v.cursor + 1 .. p.first - 1)]
Appended(v, p) ==
  [v EXCEPT !.cursor = CursorAfter(v, p),
            !.records = @ \cup Records(Fresh(v, p)),
            !.evicted = @ \cup (v.cursor + 1 .. p.first - 1)]

\* applyPluginLogPage: a page of another log is discarded whole and asks for a reset read.
NeverAnotherLog(v, p, read) == FALSE   \* mutant: the log id is not compared
AnotherLog(v, p, read) == ~read.reset /\ v.loaded /\ p.id # v.logId
Replaces(v, read) == read.reset \/ ~v.loaded
Applied(v, p, read) ==
  IF Replaces(v, read) THEN ViewFromPage(p)
  ELSE IF AnotherLog(v, p, read) THEN v ELSE Appended(v, p)

\* nextPluginLogRead
NewerRead(v) == IF v.loaded THEN [after |-> v.cursor, reset |-> FALSE] ELSE OpenRead

-----------------------------------------------------------------------------
(* usePluginLogs                                                           *)

\* A read is dispatched for an epoch of the view.
Dispatched(rs, read, e, p) ==
  rs \cup {[id |-> nextRead, read |-> read, epoch |-> e, package |-> p]}

\* The effect of a new owner, after the cleanup of the last one.
KeptView == view    \* mutant: the view of the last owner is kept
FreshView == EmptyView
Open(p) ==
  /\ ~mounted /\ visit < MaxVisits /\ nextRead <= MaxReads
  /\ visit' = visit + 1 /\ package' = p /\ mounted' = TRUE
  /\ epoch' = epoch + 1
  /\ view' = FreshView
  /\ failed' = NoRead
  /\ inFlight' = TRUE
  /\ reads' = Dispatched(reads, OpenRead, epoch + 1, p)
  /\ nextRead' = nextRead + 1
  /\ UNCHANGED <<state, hubVars>>

\* The cleanup, when the owner changes or the view closes.
Close ==
  /\ mounted
  /\ mounted' = FALSE
  /\ epoch' = epoch + 1
  /\ inFlight' = FALSE
  /\ UNCHANGED <<visit, package, view, failed, state, reads, nextRead, hubVars>>

Ask(read) ==
  /\ mounted /\ nextRead <= MaxReads
  /\ inFlight' = TRUE
  /\ state' = [owner |-> visit, view |-> view, status |-> "loading"]
  /\ reads' = Dispatched(reads, read, epoch, package)
  /\ nextRead' = nextRead + 1
  /\ UNCHANGED <<visit, package, mounted, epoch, view, failed, hubVars>>

MayLoadAgain == TRUE   \* mutant: a second read is started beside the first
MayLoad == ~inFlight
LoadNewer == MayLoad /\ Ask(NewerRead(view))
RetryAnyway == ~inFlight /\ Ask(failed)   \* mutant: nothing to repeat is repeated
Retry == ~inFlight /\ failed # NoRead /\ Ask(failed)

RefusedSilently == state   \* mutant: the status is not set
RefusedState == [owner |-> visit, view |-> view, status |-> "refused"]

\* The dispatcher settles a read without a page: refused, timed out, not sent.
Refuse(r) ==
  /\ r \in reads
  /\ reads' = reads \ {r}
  /\ IF r.epoch # epoch THEN UNCHANGED <<inFlight, failed, state>>
     ELSE /\ inFlight' = FALSE
          /\ failed' = r.read
          /\ state' = RefusedState
  /\ UNCHANGED <<visit, package, mounted, epoch, view, nextRead, hubVars>>

\* A page for an older epoch never lands.
DeliverStale(r) ==
  /\ r \in reads /\ r.epoch # epoch
  /\ reads' = reads \ {r}
  /\ UNCHANGED <<visit, package, mounted, epoch, view, inFlight, failed, state, nextRead, hubVars>>

\* A page of the current epoch is applied; one of another log is followed by a reset read.
Deliver(r) ==
  /\ r \in reads /\ r.epoch = epoch
  /\ LET p == PageOf(log[r.package], r.read.after)
     IN /\ view' = Applied(view, p, r.read)
        /\ failed' = NoRead
        /\ IF AnotherLog(view, p, r.read)
           THEN /\ nextRead <= MaxReads
                /\ reads' = Dispatched(reads \ {r}, ResetRead, epoch, package)
                /\ nextRead' = nextRead + 1
                /\ state' = [owner |-> visit, view |-> view', status |-> "loading"]
                /\ UNCHANGED inFlight
           ELSE /\ reads' = reads \ {r}
                /\ state' = [owner |-> visit, view |-> view', status |-> "idle"]
                /\ inFlight' = FALSE
                /\ UNCHANGED nextRead
  /\ UNCHANGED <<visit, package, mounted, epoch, hubVars>>

\* What the page shows: nothing of a visit that is over.
Shown == IF state.owner = visit THEN state ELSE [owner |-> visit, view |-> EmptyView, status |-> "loading"]

-----------------------------------------------------------------------------
(* External: the Hub's log book.                                           *)

\* The package's log starts, or starts again, with a new id.
LogStarts(p) ==
  /\ Len(logs) < MaxLogs
  /\ logs' = Append(logs, p)
  /\ log' = [log EXCEPT ![p] = [id |-> Len(logs'), first |-> 1, last |-> 0]]
  /\ UNCHANGED <<visit, package, mounted, epoch, view, inFlight, failed, state, reads, nextRead>>

LogAppends(p) ==
  /\ log[p].id # 0 /\ log[p].last < MaxSeq
  /\ log' = [log EXCEPT ![p].last = @ + 1]
  /\ UNCHANGED <<visit, package, mounted, epoch, view, inFlight, failed, state, reads, nextRead, logs>>

LogEvicts(p) ==
  /\ log[p].first <= log[p].last
  /\ log' = [log EXCEPT ![p].first = @ + 1]
  /\ UNCHANGED <<visit, package, mounted, epoch, view, inFlight, failed, state, reads, nextRead, logs>>

-----------------------------------------------------------------------------
Settle(r) == Refuse(r) \/ DeliverStale(r) \/ Deliver(r)

Next ==
  \/ \E p \in Packages : Open(p) \/ LogStarts(p) \/ LogAppends(p) \/ LogEvicts(p)
  \/ Close \/ LoadNewer \/ Retry
  \/ \E r \in reads : Settle(r)

Spec == Init /\ [][Next]_vars

\* The dispatcher settles every read, by its deadline at the latest.
Fairness == WF_vars(\E r \in reads : Settle(r))
FairSpec == Spec /\ Fairness

-----------------------------------------------------------------------------
(* Properties.                                                             *)

\* Every variable has its type.
TypeOK ==
  /\ visit \in Visits /\ package \in Packages /\ mounted \in BOOLEAN
  /\ epoch \in Nat /\ inFlight \in BOOLEAN /\ nextRead \in Nat
  /\ view \in Views /\ failed \in Read \cup {NoRead}
  /\ state \in [owner : Visits, view : Views, status : {"loading", "idle", "refused"}]
  /\ reads \subseteq [id : Nat, read : Read, epoch : Nat, package : Packages]
  /\ log \in [Packages -> [id : LogIds, first : Nat, last : Nat]]
  /\ logs \in Seq(Packages)

\* The numbers of the records a view shows.
Seqs(v) == {r[2] : r \in v.records}

\* What a view shows is its log up to the cursor: every number is either shown or in an
\* evicted range, never both, never missing, no record is of another log, and the
\* log is one of the package the view is for.
IsLog(v) ==
  /\ v.records \subseteq {v.logId} \X (1 .. v.cursor)
  /\ \A s \in 1 .. v.cursor : s \in v.evicted <=> <<v.logId, s>> \notin v.records
  /\ v.evicted \subseteq 1 .. v.cursor
ViewIsLog ==
  /\ IsLog(Shown.view)
  /\ Shown.view.logId # 0 => logs[Shown.view.logId] = package

\* One read at a time for the view on the page, and it is in flight exactly while one runs.
OneRead ==
  /\ \A q, r \in reads : q.epoch = epoch /\ r.epoch = epoch => q = r
  /\ mounted => (inFlight <=> \E r \in reads : r.epoch = epoch)

\* A view that loads shows an answer or a refusal, unless it is left.
Loading == mounted /\ Shown.status = "loading"
LoadingEnds == Loading ~> ~Loading
=============================================================================
