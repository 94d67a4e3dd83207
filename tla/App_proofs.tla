------------------------------ MODULE App_proofs ------------------------------
(***************************************************************************)
(* The page's state machines, for every value of their bounds.             *)
(*                                                                         *)
(* One part at a time: the plugin logs view shows a log without a hole and *)
(* runs one read; the terminal the user looks at keeps its renderer and a  *)
(* view that was left released each subscription once; a row of the        *)
(* quarantines says what the Hub decided; the demand of the surface is     *)
(* that of the route.  Each has an inductive invariant and a theorem about *)
(* the part alone.  The last section shows that a run of the page is a run *)
(* of every part, so that all of it holds of the page.                     *)
(***************************************************************************)
EXTENDS App, TLAPS, FiniteSetTheorems

-----------------------------------------------------------------------------
(* The plugin logs view.                                                   *)

\* A log of the Hub: its numbers are those from first on, its id is the package's.
LogsAreOwned ==
  \A p \in Packages :
    /\ 1 <= log[p].first /\ log[p].first <= log[p].last + 1
    /\ log[p].id <= Len(logs)
    /\ log[p].id # 0 => logs[log[p].id] = p

\* A view for the package of this visit.
IsOfPackage(v) ==
  /\ IsLog(v)
  /\ v.logId # 0 => v.logId <= Len(logs) /\ logs[v.logId] = package

\* A read that leaves no hole behind the records of a view: a replacement starts at
\* the oldest record, an append at the cursor or before.
ReadsOn(v, read) == IF Replaces(v, read) THEN read.after = 0 ELSE read.after <= v.cursor

\* The reads under way: of an epoch that was, and of this package if of this one.
ReadsAreOrdered ==
  \A r \in reads :
    /\ r.epoch <= epoch
    /\ r.epoch = epoch => r.package = package /\ ReadsOn(view, r.read)

\* At most one read of this epoch, whether the view is on the page or not.
OneCurrentRead ==
  /\ \A q, r \in reads : q.epoch = epoch /\ r.epoch = epoch => q = r
  /\ inFlight <=> \E r \in reads : r.epoch = epoch

\* What was set last is of this visit or of an earlier one.
ShownIsOfPackage ==
  /\ state.owner <= visit
  /\ state.owner = visit => IsOfPackage(state.view)

\* The inductive invariant.  OneRead keeps the cursor where it was when the read was
\* asked for, and that is why a page continues the view it is applied to.
IInv ==
  /\ TypeOK
  /\ Len(logs) <= MaxLogs
  /\ LogsAreOwned
  /\ IsOfPackage(view)
  /\ ReadsAreOrdered
  /\ failed # NoRead => ReadsOn(view, failed)
  /\ OneCurrentRead
  /\ ShownIsOfPackage

-----------------------------------------------------------------------------
(* Pages.                                                                  *)

\* A greatest member is the one Greatest returns.
LEMMA GreatestIs ==
  ASSUME NEW S \in SUBSET Int, NEW low \in Int, NEW m \in S \cup {low},
         \A s \in S \cup {low} : s <= m
  PROVE  Greatest(S, low) = m
<1>1. \A n \in S \cup {low} : (\A s \in S \cup {low} : s <= n) => n = m
  OBVIOUS
<1> QED
  BY <1>1 DEF Greatest

Logs == [id : LogIds, first : Nat, last : Nat]

\* Where a page starts, and where it ends.
From(l, after) == IF l.first > after THEN l.first ELSE after + 1
To(l, after) ==
  IF l.last < From(l, after) + PageSize THEN l.last ELSE From(l, after) + PageSize - 1

\* The numbers of a page are an interval that starts at the oldest record kept or
\* right after the record it was asked for, whichever is later.
LEMMA PageIsInterval ==
  ASSUME NEW l \in Logs, NEW after \in Nat
  PROVE  /\ PageOf(l, after) = [id |-> l.id, first |-> l.first,
                                seqs |-> From(l, after) .. To(l, after)]
         /\ From(l, after) \in Nat /\ To(l, after) \in Int
<1>1. From(l, after) \in Nat /\ To(l, after) \in Int /\ PageSize \in Nat \ {0}
  BY PluginLogsAssumption DEF From, To, Logs
<1>2. PageOf(l, after) = [id |-> l.id, first |-> l.first,
                          seqs |-> {s \in From(l, after) .. l.last : s < From(l, after) + PageSize}]
  BY DEF PageOf, From
<1>3. l.last \in Nat
  BY DEF Logs
<1>4. {s \in From(l, after) .. l.last : s < From(l, after) + PageSize} = From(l, after) .. To(l, after)
  BY <1>1, <1>3 DEF To
<1> QED
  BY <1>1, <1>2, <1>4

\* A page that replaces a view is a log without a hole.
LEMMA ReplacementIsLog ==
  ASSUME NEW l \in Logs, 1 <= l.first
  PROVE  LET v == ViewFromPage(PageOf(l, 0))
         IN v \in Views /\ IsLog(v) /\ v.logId = l.id /\ v.loaded
<1> DEFINE p == PageOf(l, 0)
           to == To(l, 0)
           cursor == IF l.first <= to THEN to ELSE l.first - 1
           v == ViewFromPage(p)
<1>1. l.first \in Nat /\ l.id \in LogIds /\ to \in Int
  BY PageIsInterval DEF Logs
<1>2. p.id = l.id /\ p.first = l.first /\ p.seqs = l.first .. to
  BY <1>1, PageIsInterval, SMTT(30) DEF From
<1>3. cursor \in Nat /\ cursor \in (l.first .. to) \cup {l.first - 1}
      /\ \A s \in (l.first .. to) \cup {l.first - 1} : s <= cursor
  BY <1>1
<1> HIDE DEF p, to, cursor
<1>4. Greatest(p.seqs, p.first - 1) = cursor
  <2>1. l.first .. to \in SUBSET Int /\ l.first - 1 \in Int
    BY <1>1
  <2> QED
    BY <1>2, <1>3, <2>1, GreatestIs
<1>5. v = [loaded |-> TRUE, logId |-> l.id, cursor |-> cursor,
           records |-> {l.id} \X (l.first .. to), evicted |-> 1 .. l.first - 1]
  BY <1>2, <1>4 DEF ViewFromPage, Records
<1>6. l.first .. to \subseteq 1 .. cursor /\ 1 .. l.first - 1 \subseteq 1 .. cursor
  BY <1>1, <1>3 DEF cursor
<1>7. v \in Views
  BY <1>1, <1>3, <1>5, <1>6 DEF Views
<1>8. \A s \in 1 .. cursor : s \in 1 .. l.first - 1 <=> s \notin l.first .. to
  BY <1>1, <1>3 DEF cursor
<1>9. IsLog(v)
  BY <1>5, <1>6, <1>8 DEF IsLog
<1>10. v.logId = l.id /\ v.loaded
  BY <1>5
<1> QED
  BY <1>7, <1>9, <1>10 DEF p

\* A page of the view's log, asked for at its cursor or before, continues it.
LEMMA AppendIsLog ==
  ASSUME NEW v \in Views, IsLog(v), NEW l \in Logs, 1 <= l.first, l.id = v.logId,
         NEW after \in Nat, after <= v.cursor
  PROVE  LET w == Appended(v, PageOf(l, after))
         IN w \in Views /\ IsLog(w) /\ w.logId = v.logId /\ w.loaded = v.loaded
            /\ v.cursor <= w.cursor
<1> DEFINE p == PageOf(l, after)
           to == To(l, after)
           low == IF l.first > v.cursor THEN l.first ELSE v.cursor + 1
           cursor == IF low <= to THEN to
                     ELSE IF l.first > v.cursor THEN l.first - 1 ELSE v.cursor
           w == Appended(v, p)
<1>1. l.first \in Nat /\ l.id \in LogIds /\ to \in Int /\ v.cursor \in Nat /\ low \in Nat
  <2>1. to \in Int
    BY PageIsInterval
  <2>2. l.first \in Nat /\ l.id \in LogIds /\ v.cursor \in Nat
    BY DEF Logs, Views
  <2> QED
    BY <2>1, <2>2
<1>2. p = [id |-> l.id, first |-> l.first, seqs |-> From(l, after) .. to]
  BY PageIsInterval
<1>3. {s \in From(l, after) .. to : s > v.cursor} = low .. to
  <2>1. From(l, after) = IF l.first > after THEN l.first ELSE after + 1
    BY DEF From
  <2> HIDE DEF to
  <2> QED
    BY <1>1, <2>1
<1>4. Fresh(v, p) = [id |-> l.id, first |-> l.first, seqs |-> low .. to]
  <2>1. Fresh(v, p) = [p EXCEPT !.seqs = {s \in p.seqs : s > v.cursor}]
    BY DEF Fresh
  <2>2. p.seqs = From(l, after) .. to
    BY <1>2
  <2> HIDE DEF p, to, low
  <2> QED
    BY <1>2, <1>3, <2>1, <2>2
<1> HIDE DEF p, to
<1>5. cursor \in Nat /\ cursor \in (low .. to) \cup {l.first - 1} \cup {v.cursor}
      /\ \A s \in (low .. to) \cup {l.first - 1} \cup {v.cursor} : s <= cursor
  BY <1>1
<1> HIDE DEF cursor, low
<1>6. CursorAfter(v, p) = cursor
  <2>1. (low .. to) \cup {l.first - 1} \in SUBSET Int /\ v.cursor \in Int
    BY <1>1
  <2>2. Greatest((low .. to) \cup {l.first - 1}, v.cursor) = cursor
    BY <1>5, <2>1, GreatestIs
  <2>3. p.first = l.first /\ Fresh(v, p).seqs = low .. to
    BY <1>2, <1>4
  <2>4. CursorAfter(v, p) = Greatest(Fresh(v, p).seqs \cup {p.first - 1}, v.cursor)
    BY DEF CursorAfter
  <2> QED
    BY <2>2, <2>3, <2>4
<1>7. w = [v EXCEPT !.cursor = cursor, !.records = @ \cup ({l.id} \X (low .. to)),
                    !.evicted = @ \cup (v.cursor + 1 .. l.first - 1)]
  <2>1. p.first = l.first /\ Fresh(v, p).seqs = low .. to /\ Fresh(v, p).id = l.id
    BY <1>2, <1>4
  <2> QED
    BY <1>6, <2>1, Zenon DEF Appended, Records
<1>8. /\ low .. to \subseteq v.cursor + 1 .. cursor
      /\ v.cursor + 1 .. l.first - 1 \subseteq v.cursor + 1 .. cursor
      /\ v.cursor <= cursor
      /\ \A s \in v.cursor + 1 .. cursor : s \in v.cursor + 1 .. l.first - 1 <=> s \notin low .. to
  BY <1>1, <1>5 DEF cursor, low
<1>9. /\ w.loaded = v.loaded /\ w.logId = v.logId /\ w.cursor = cursor
      /\ w.records = v.records \cup ({v.logId} \X (low .. to))
      /\ w.evicted = v.evicted \cup (v.cursor + 1 .. l.first - 1)
  BY <1>7 DEF Views
<1>10. w \in Views
  <2>1. {l.id} \X (low .. to) \subseteq LogIds \X Nat
    BY <1>1
  <2>2. v.cursor + 1 .. l.first - 1 \subseteq Nat
    BY <1>1
  <2>3. v.records \cup ({l.id} \X (low .. to)) \in SUBSET (LogIds \X Nat)
    BY <2>1 DEF Views
  <2>4. v.evicted \cup (v.cursor + 1 .. l.first - 1) \in SUBSET Nat
    BY <2>2 DEF Views
  <2> QED
    BY <1>5, <1>7, <2>3, <2>4 DEF Views
<1>11. /\ w.records \subseteq {v.logId} \X (1 .. cursor)
       /\ w.evicted \subseteq 1 .. cursor
  BY <1>1, <1>5, <1>8, <1>9 DEF IsLog
<1>12. ASSUME NEW s \in 1 .. cursor
       PROVE  s \in w.evicted <=> <<v.logId, s>> \notin w.records
  <2>1. CASE s <= v.cursor
    <3>1. s \in 1 .. v.cursor /\ s \notin low .. to /\ s \notin v.cursor + 1 .. l.first - 1
      BY <1>1, <1>5, <1>8, <2>1
    <3>2. s \in v.evicted <=> <<v.logId, s>> \notin v.records
      BY <3>1 DEF IsLog
    <3> QED
      BY <1>9, <3>1, <3>2
  <2>2. CASE v.cursor < s
    <3>1. s \in v.cursor + 1 .. cursor /\ s \notin 1 .. v.cursor
      BY <1>1, <1>5, <2>2
    <3>2. s \notin v.evicted /\ <<v.logId, s>> \notin v.records
      BY <3>1 DEF IsLog
    <3> QED
      BY <1>8, <1>9, <3>1, <3>2
  <2> QED
    BY <1>1, <1>5, <2>1, <2>2
<1> QED
  <2>1. IsLog(w)
    BY <1>9, <1>11, <1>12 DEF IsLog
  <2> QED
    BY <1>8, <1>9, <1>10, <2>1 DEF p

-----------------------------------------------------------------------------
(* The invariant is inductive.                                             *)

\* No log was started and no read is under way before the first visit.
LEMMA InitIInv == Init => IInv
<1> SUFFICES ASSUME Init PROVE IInv
  OBVIOUS
<1> USE DEF Init, EmptyView
<1>1. EmptyView \in Views /\ IsOfPackage(EmptyView)
  BY PluginLogsAssumption DEF Views, LogIds, IsOfPackage, IsLog
<1>2. TypeOK
  <2>1. logs \in Seq(Packages) /\ log \in [Packages -> [id : LogIds, first : Nat, last : Nat]]
    BY PluginLogsAssumption DEF LogIds
  <2>2. state \in [owner : Visits, view : Views, status : {"loading", "idle", "refused"}]
    BY <1>1, PluginLogsAssumption DEF Visits
  <2> QED
    BY <1>1, <2>1, <2>2, PluginLogsAssumption DEF TypeOK, Visits
<1>3. LogsAreOwned /\ Len(logs) <= MaxLogs
  BY PluginLogsAssumption DEF LogsAreOwned
<1>4. ReadsAreOrdered /\ OneCurrentRead /\ failed = NoRead
  BY DEF ReadsAreOrdered, OneCurrentRead
<1>5. ShownIsOfPackage
  BY <1>1 DEF ShownIsOfPackage
<1> QED
  BY <1>1, <1>2, <1>3, <1>4, <1>5 DEF IInv

\* What the Hub's log book says of a view stays as long as the package does.
LEMMA StaysOfPackage ==
  ASSUME TypeOK, NEW v \in Views, IsOfPackage(v), package' = package,
         logs' = logs \/ \E p \in Packages : logs' = Append(logs, p)
  PROVE  IsOfPackage(v)'
<1>1. v.logId \in Nat /\ logs \in Seq(Packages)
  BY DEF TypeOK, Views, LogIds
<1>2. CASE logs' = logs
  BY <1>2 DEF IsOfPackage
<1>3. ASSUME NEW p \in Packages, logs' = Append(logs, p) PROVE IsOfPackage(v)'
  <2>1. Len(logs') = Len(logs) + 1 /\ \A i \in 1 .. Len(logs) : logs'[i] = logs[i]
    BY <1>1, <1>3
  <2>2. Len(logs) \in Nat
    BY <1>1
  <2> QED
    BY <1>1, <2>1, <2>2 DEF IsOfPackage
<1> QED
  BY <1>2, <1>3

\* A step of the Hub's log book keeps what the invariant says of the page.
LEMMA PageStays ==
  ASSUME IInv, UNCHANGED <<visit, package, mounted, epoch, view, inFlight, failed, state, reads, nextRead>>,
         logs' = logs \/ \E p \in Packages : logs' = Append(logs, p),
         logs' \in Seq(Packages), log' \in [Packages -> [id : LogIds, first : Nat, last : Nat]],
         Len(logs') <= MaxLogs, LogsAreOwned'
  PROVE  IInv'
<1>1. TypeOK'
  BY DEF IInv, TypeOK
<1>2. view \in Views /\ state.view \in Views
  BY DEF IInv, TypeOK
<1>3. IsOfPackage(view)' /\ ShownIsOfPackage'
  BY <1>2, StaysOfPackage DEF IInv, ShownIsOfPackage
<1>4. ReadsAreOrdered' /\ OneCurrentRead' /\ (failed # NoRead => ReadsOn(view, failed))'
  BY DEF IInv, ReadsAreOrdered, OneCurrentRead
<1> QED
  BY <1>1, <1>3, <1>4 DEF IInv

LEMMA LogBookPreserves ==
  ASSUME IInv, NEW p \in Packages, LogStarts(p) \/ LogAppends(p) \/ LogEvicts(p)
  PROVE  IInv'
<1>0. /\ logs \in Seq(Packages) /\ Len(logs) \in Nat
      /\ log \in [Packages -> [id : LogIds, first : Nat, last : Nat]]
      /\ \A q \in Packages : log[q].id \in Nat
  BY DEF IInv, TypeOK, LogIds
<1>1. CASE LogStarts(p)
  <2>1. /\ Len(logs) < MaxLogs /\ logs' = Append(logs, p)
        /\ log' = [log EXCEPT ![p] = [id |-> Len(logs'), first |-> 1, last |-> 0]]
        /\ UNCHANGED <<visit, package, mounted, epoch, view, inFlight, failed, state, reads, nextRead>>
    BY <1>1 DEF LogStarts
  <2>2. /\ logs' \in Seq(Packages) /\ Len(logs') = Len(logs) + 1
        /\ logs'[Len(logs')] = p /\ \A i \in 1 .. Len(logs) : logs'[i] = logs[i]
    BY <1>0, <2>1
  <2>3. Len(logs') <= MaxLogs /\ Len(logs') \in LogIds
    BY <1>0, <2>1, <2>2, PluginLogsAssumption DEF LogIds
  <2>4. log' \in [Packages -> [id : LogIds, first : Nat, last : Nat]]
    BY <1>0, <2>1, <2>3
  <2>5. ASSUME NEW q \in Packages
        PROVE  /\ 1 <= log'[q].first /\ log'[q].first <= log'[q].last + 1
               /\ log'[q].id <= Len(logs')
               /\ log'[q].id # 0 => logs'[log'[q].id] = q
    <3>1. CASE q = p
      BY <1>0, <2>1, <2>2, <3>1
    <3>2. CASE q # p
      <4>1. log'[q] = log[q]
        BY <1>0, <2>1, <3>2
      <4>2. /\ 1 <= log[q].first /\ log[q].first <= log[q].last + 1
            /\ log[q].id <= Len(logs) /\ log[q].id \in Nat
            /\ log[q].id # 0 => logs[log[q].id] = q
        BY <1>0 DEF IInv, LogsAreOwned
      <4>3. log[q].id # 0 => log[q].id \in 1 .. Len(logs)
        BY <1>0, <4>2
      <4>4. log[q].id # 0 => logs'[log[q].id] = q
        BY <2>2, <4>2, <4>3
      <4>5. log[q].id <= Len(logs')
        BY <1>0, <2>2, <4>2
      <4> QED
        BY <4>1, <4>2, <4>4, <4>5
    <3> QED
      BY <3>1, <3>2
  <2>6. LogsAreOwned'
    BY <2>5 DEF LogsAreOwned
  <2> QED
    BY <2>1, <2>2, <2>3, <2>4, <2>6, PageStays
<1>2. CASE LogAppends(p) \/ LogEvicts(p)
  <2>1. /\ logs' = logs
        /\ UNCHANGED <<visit, package, mounted, epoch, view, inFlight, failed, state, reads, nextRead>>
        /\ \/ log' = [log EXCEPT ![p].last = @ + 1]
           \/ log[p].first <= log[p].last /\ log' = [log EXCEPT ![p].first = @ + 1]
    BY <1>2 DEF LogAppends, LogEvicts
  <2>a. /\ log[p] \in [id : LogIds, first : Nat, last : Nat]
        /\ 1 <= log[p].first /\ log[p].first <= log[p].last + 1
    BY <1>0 DEF IInv, LogsAreOwned
  <2> DEFINE new == IF log[p].first <= log[p].last /\ log' = [log EXCEPT ![p].first = @ + 1]
                    THEN [log[p] EXCEPT !.first = @ + 1] ELSE [log[p] EXCEPT !.last = @ + 1]
  <2>n. log' = [log EXCEPT ![p] = new]
    BY <1>0, <2>1, Zenon
  <2>m. /\ new \in [id : LogIds, first : Nat, last : Nat] /\ new.id = log[p].id
        /\ 1 <= new.first /\ new.first <= new.last + 1
    BY <2>a
  <2> HIDE DEF new
  <2>2. log' \in [Packages -> [id : LogIds, first : Nat, last : Nat]]
    BY <1>0, <2>n, <2>m
  <2>3. ASSUME NEW q \in Packages
        PROVE  /\ 1 <= log'[q].first /\ log'[q].first <= log'[q].last + 1
               /\ log'[q].id = log[q].id
    <3>1. 1 <= log[q].first /\ log[q].first <= log[q].last + 1
      BY DEF IInv, LogsAreOwned
    <3> QED
      BY <1>0, <2>n, <2>m, <3>1
  <2>4. LogsAreOwned' /\ Len(logs') <= MaxLogs
    BY <2>1, <2>3 DEF IInv, LogsAreOwned
  <2> QED
    BY <1>0, <2>1, <2>2, <2>4, PageStays
<1> QED
  BY <1>1, <1>2

\* Neither the log book nor the last log of a package changes with the page.
LEMMA LogBookStays ==
  ASSUME IInv, UNCHANGED hubVars
  PROVE  /\ Len(logs') <= MaxLogs /\ LogsAreOwned'
         /\ logs' \in Seq(Packages)
         /\ log' \in [Packages -> [id : LogIds, first : Nat, last : Nat]]
BY DEF IInv, TypeOK, LogsAreOwned, hubVars

\* A new read is the only one of its epoch, and is well typed.
LEMMA ReadIsAdded ==
  ASSUME TypeOK, NEW rs \in SUBSET reads, NEW read \in Read, NEW e \in Nat, NEW p \in Packages,
         \A r \in rs : r.epoch < e
  PROVE  LET new == Dispatched(rs, read, e, p)
         IN /\ new \subseteq [id : Nat, read : Read, epoch : Nat, package : Packages]
            /\ \A q, r \in new : q.epoch = e /\ r.epoch = e => q = r
            /\ \E r \in new : r.epoch = e
            /\ \A r \in new : /\ r.epoch <= e
                              /\ r.epoch = e => r.package = p /\ r.read = read
<1> DEFINE x == [id |-> nextRead, read |-> read, epoch |-> e, package |-> p]
<1>1. x \in [id : Nat, read : Read, epoch : Nat, package : Packages] /\ x.epoch = e
      /\ x.package = p /\ x.read = read
  BY DEF TypeOK
<1>2. rs \subseteq [id : Nat, read : Read, epoch : Nat, package : Packages]
  BY DEF TypeOK
<1>3. Dispatched(rs, read, e, p) = rs \cup {x}
  BY DEF Dispatched
<1> HIDE DEF x
<1>4. \A r \in rs : r.epoch \in Nat /\ r.epoch # e /\ r.epoch <= e
  BY <1>2
<1> QED
  BY <1>1, <1>2, <1>3, <1>4

LEMMA OpenPreserves ==
  ASSUME IInv, NEW p \in Packages, Open(p)
  PROVE  IInv'
<1>0. TypeOK
  BY DEF IInv
<1>1. /\ visit < MaxVisits /\ visit' = visit + 1 /\ package' = p /\ mounted' = TRUE
      /\ epoch' = epoch + 1 /\ view' = EmptyView /\ failed' = NoRead /\ inFlight' = TRUE
      /\ reads' = Dispatched(reads, OpenRead, epoch + 1, p)
      /\ nextRead' = nextRead + 1 /\ state' = state /\ UNCHANGED hubVars
  BY DEF Open, FreshView
<1>b. /\ Len(logs') <= MaxLogs /\ LogsAreOwned'
      /\ logs' \in Seq(Packages)
      /\ log' \in [Packages -> [id : LogIds, first : Nat, last : Nat]]
  BY <1>1, LogBookStays
<1>2. EmptyView \in Views /\ ~EmptyView.loaded /\ IsOfPackage(EmptyView)'
  BY PluginLogsAssumption DEF EmptyView, Views, LogIds, IsOfPackage, IsLog
<1>3. OpenRead \in Read /\ OpenRead.after = 0 /\ epoch + 1 \in Nat /\ epoch \in Nat
  BY <1>0 DEF OpenRead, Read, TypeOK
<1>4. \A r \in reads : r.epoch < epoch + 1
  BY <1>0, <1>3 DEF IInv, ReadsAreOrdered, TypeOK
<1>5. /\ reads' \subseteq [id : Nat, read : Read, epoch : Nat, package : Packages]
      /\ \A q, r \in reads' : q.epoch = epoch' /\ r.epoch = epoch' => q = r
      /\ \E r \in reads' : r.epoch = epoch'
      /\ \A r \in reads' : /\ r.epoch <= epoch'
                           /\ r.epoch = epoch' => r.package = p /\ r.read = OpenRead
  BY <1>0, <1>1, <1>3, <1>4, ReadIsAdded
<1>6. visit' \in Visits /\ visit \in Nat
  BY <1>0, <1>1, PluginLogsAssumption DEF TypeOK, Visits
<1>7. TypeOK'
  BY <1>0, <1>1, <1>2, <1>3, <1>5, <1>6, <1>b DEF TypeOK
<1>8. ReadsAreOrdered' /\ OneCurrentRead'
  BY <1>1, <1>2, <1>3, <1>5 DEF ReadsAreOrdered, OneCurrentRead, ReadsOn, Replaces
<1>9. ShownIsOfPackage'
  <2>1. state.owner \in Nat /\ state.owner <= visit
    BY <1>0 DEF IInv, ShownIsOfPackage, TypeOK, Visits
  <2> QED
    BY <1>1, <1>6, <2>1 DEF ShownIsOfPackage
<1> QED
  BY <1>1, <1>2, <1>7, <1>8, <1>9, <1>b DEF IInv

LEMMA ClosePreserves ==
  ASSUME IInv, Close
  PROVE  IInv'
<1>0. TypeOK
  BY DEF IInv
<1>1. /\ mounted' = FALSE /\ epoch' = epoch + 1 /\ inFlight' = FALSE
      /\ UNCHANGED <<visit, package, view, failed, state, reads, nextRead>> /\ UNCHANGED hubVars
  BY DEF Close
<1>b. /\ Len(logs') <= MaxLogs /\ LogsAreOwned'
      /\ logs' \in Seq(Packages)
      /\ log' \in [Packages -> [id : LogIds, first : Nat, last : Nat]]
  BY <1>1, LogBookStays
<1>2. TypeOK'
  <2>1. epoch' \in Nat /\ mounted' \in BOOLEAN /\ inFlight' \in BOOLEAN
    <3>1. epoch \in Nat
      BY <1>0 DEF TypeOK
    <3>2. mounted' = FALSE /\ inFlight' = FALSE /\ epoch' = epoch + 1
      BY <1>1
    <3>3. mounted' \in BOOLEAN /\ inFlight' \in BOOLEAN
      BY <3>2, Zenon
    <3> QED
      BY <3>1, <3>2, <3>3
  <2>2. /\ visit' \in Visits /\ package' \in Packages /\ nextRead' \in Nat
        /\ view' \in Views /\ failed' \in Read \cup {NoRead}
        /\ state' \in [owner : Visits, view : Views, status : {"loading", "idle", "refused"}]
        /\ reads' \subseteq [id : Nat, read : Read, epoch : Nat, package : Packages]
    <3>1. /\ visit' = visit /\ package' = package /\ nextRead' = nextRead /\ view' = view
          /\ failed' = failed /\ state' = state /\ reads' = reads
      BY <1>1
    <3> QED
      BY <1>0, <3>1, Zenon DEF TypeOK
  <2> QED
    BY <2>1, <2>2, <1>b DEF TypeOK
<1>3. \A r \in reads : r.epoch \in Nat /\ r.epoch <= epoch /\ epoch \in Nat
  BY <1>0 DEF IInv, ReadsAreOrdered, TypeOK
<1>4. \A r \in reads' : r.epoch <= epoch' /\ r.epoch # epoch'
  BY <1>1, <1>3
<1>5. ReadsAreOrdered' /\ OneCurrentRead'
  BY <1>1, <1>4 DEF ReadsAreOrdered, OneCurrentRead
<1>6. IsOfPackage(view)' /\ ShownIsOfPackage'
  BY <1>1 DEF IInv, ShownIsOfPackage, IsOfPackage, hubVars
<1>7. (failed # NoRead => ReadsOn(view, failed))'
  BY <1>1 DEF IInv
<1> QED
  BY <1>2, <1>5, <1>6, <1>7, <1>b DEF IInv

LEMMA AskPreserves ==
  ASSUME IInv, ~inFlight, NEW read \in Read, ReadsOn(view, read), Ask(read)
  PROVE  IInv'
<1>0. TypeOK
  BY DEF IInv
<1>1. /\ inFlight' = TRUE
      /\ state' = [owner |-> visit, view |-> view, status |-> "loading"]
      /\ reads' = Dispatched(reads, read, epoch, package) /\ nextRead' = nextRead + 1
      /\ UNCHANGED <<visit, package, mounted, epoch, view, failed>> /\ UNCHANGED hubVars
  BY DEF Ask
<1>b. /\ Len(logs') <= MaxLogs /\ LogsAreOwned'
      /\ logs' \in Seq(Packages)
      /\ log' \in [Packages -> [id : LogIds, first : Nat, last : Nat]]
  BY <1>1, LogBookStays
<1>2. /\ epoch \in Nat /\ package \in Packages /\ visit \in Visits /\ visit \in Nat
      /\ view \in Views /\ nextRead' \in Nat
  BY <1>0, <1>1 DEF TypeOK, Visits
<1>3. \A r \in reads : r.epoch < epoch
  <2>1. \A r \in reads : r.epoch \in Nat /\ r.epoch <= epoch /\ r.epoch # epoch
    BY <1>0 DEF IInv, ReadsAreOrdered, OneCurrentRead, TypeOK
  <2> QED
    BY <1>2, <2>1
<1>4. /\ reads' \subseteq [id : Nat, read : Read, epoch : Nat, package : Packages]
      /\ \A q, r \in reads' : q.epoch = epoch /\ r.epoch = epoch => q = r
      /\ \E r \in reads' : r.epoch = epoch
      /\ \A r \in reads' : /\ r.epoch <= epoch
                           /\ r.epoch = epoch => r.package = package /\ r.read = read
  BY <1>0, <1>1, <1>2, <1>3, ReadIsAdded
<1>5. TypeOK'
  BY <1>0, <1>1, <1>2, <1>4, <1>b DEF TypeOK
<1>6. ReadsAreOrdered' /\ OneCurrentRead'
  BY <1>1, <1>4 DEF ReadsAreOrdered, OneCurrentRead
<1>7. IsOfPackage(view)' /\ ShownIsOfPackage'
  BY <1>1, <1>2 DEF IInv, ShownIsOfPackage, IsOfPackage, hubVars
<1>8. (failed # NoRead => ReadsOn(view, failed))'
  BY <1>1 DEF IInv
<1> QED
  BY <1>5, <1>6, <1>7, <1>8, <1>b DEF IInv

\* A read of this view is answered with a page of its log: the view goes on, or is
\* replaced, or stays and a reset read follows.
LEMMA DeliverPreserves ==
  ASSUME IInv, NEW r \in reads, Deliver(r)
  PROVE  IInv'
<1> DEFINE l == log[package]
           p == PageOf(l, r.read.after)
<1>0. TypeOK
  BY DEF IInv
<1>1. /\ r.epoch = epoch /\ r.package = package /\ ReadsOn(view, r.read)
      /\ r.read \in Read /\ r.read.after \in Nat
  BY <1>0 DEF IInv, ReadsAreOrdered, Deliver, TypeOK, Read
<1>2. /\ view' = Applied(view, p, r.read) /\ failed' = NoRead
      /\ UNCHANGED <<visit, package, mounted, epoch>> /\ UNCHANGED hubVars
      /\ IF AnotherLog(view, p, r.read)
         THEN /\ reads' = Dispatched(reads \ {r}, ResetRead, epoch, package)
              /\ nextRead' = nextRead + 1
              /\ state' = [owner |-> visit, view |-> view', status |-> "loading"]
              /\ inFlight' = inFlight
         ELSE /\ reads' = reads \ {r} /\ nextRead' = nextRead
              /\ state' = [owner |-> visit, view |-> view', status |-> "idle"]
              /\ inFlight' = FALSE
  BY <1>1 DEF Deliver
<1>b. /\ Len(logs') <= MaxLogs /\ LogsAreOwned'
      /\ logs' \in Seq(Packages)
      /\ log' \in [Packages -> [id : LogIds, first : Nat, last : Nat]]
  BY <1>2, LogBookStays
<1>3. /\ l \in Logs /\ 1 <= l.first /\ l.id <= Len(logs)
      /\ l.id # 0 => logs[l.id] = package
      /\ p.id = l.id
      /\ package \in Packages /\ epoch \in Nat /\ view \in Views
      /\ visit \in Visits /\ visit \in Nat /\ nextRead \in Nat
  <2>1. package \in Packages /\ epoch \in Nat /\ view \in Views /\ visit \in Visits
        /\ visit \in Nat /\ nextRead \in Nat /\ l \in Logs
    BY <1>0 DEF TypeOK, Visits, Logs
  <2>2. 1 <= l.first /\ l.id <= Len(logs) /\ (l.id # 0 => logs[l.id] = package)
    BY <2>1 DEF IInv, LogsAreOwned
  <2>3. p.id = l.id
    BY <1>1, <2>1, PageIsInterval
  <2> QED
    BY <2>1, <2>2, <2>3
<1> HIDE DEF l, p
<1>4. view' \in Views /\ IsOfPackage(view')
  <2>1. CASE Replaces(view, r.read)
    <3>1. p = PageOf(l, 0) /\ view' = ViewFromPage(p)
      BY <1>1, <1>2, <2>1 DEF p, ReadsOn, Applied
    <3>2. view' \in Views /\ IsLog(view') /\ view'.logId = l.id
      BY <1>3, <3>1, ReplacementIsLog
    <3> QED
      BY <1>3, <3>2 DEF IsOfPackage
  <2>2. CASE ~Replaces(view, r.read) /\ AnotherLog(view, p, r.read)
    BY <1>2, <1>3, <2>2 DEF IInv, Applied
  <2>3. CASE ~Replaces(view, r.read) /\ ~AnotherLog(view, p, r.read)
    <3>1. l.id = view.logId /\ r.read.after <= view.cursor /\ view' = Appended(view, p)
      BY <1>1, <1>2, <1>3, <2>3 DEF Replaces, AnotherLog, ReadsOn, Applied
    <3>2. IsLog(view)
      BY DEF IInv, IsOfPackage
    <3>3. view' \in Views /\ IsLog(view') /\ view'.logId = view.logId
      BY <1>1, <1>3, <3>1, <3>2, AppendIsLog DEF p
    <3> QED
      BY <1>3, <3>1, <3>3 DEF IsOfPackage
  <2> QED
    BY <2>1, <2>2, <2>3
<1>5. IsOfPackage(view)' /\ ShownIsOfPackage'
  BY <1>2, <1>3, <1>4 DEF ShownIsOfPackage, IsOfPackage, hubVars
<1>6. \A q \in reads \ {r} : q.epoch < epoch
  <2>1. \A q \in reads \ {r} : q.epoch \in Nat /\ q.epoch <= epoch /\ q.epoch # epoch
    BY <1>0, <1>1 DEF IInv, ReadsAreOrdered, OneCurrentRead, TypeOK
  <2> QED
    BY <1>3, <2>1
<1>7. CASE AnotherLog(view, p, r.read)
  <2>1. ResetRead \in Read /\ ReadsOn(view', ResetRead)
    BY DEF ResetRead, Read, ReadsOn, Replaces
  <2>2. /\ reads' \subseteq [id : Nat, read : Read, epoch : Nat, package : Packages]
        /\ \A q, s \in reads' : q.epoch = epoch /\ s.epoch = epoch => q = s
        /\ \E q \in reads' : q.epoch = epoch
        /\ \A q \in reads' : /\ q.epoch <= epoch
                             /\ q.epoch = epoch => q.package = package /\ q.read = ResetRead
    <3> DEFINE rs == reads \ {r}
    <3>1. rs \in SUBSET reads /\ reads' = Dispatched(rs, ResetRead, epoch, package)
      BY <1>2, <1>7
    <3>2. \A q \in rs : q.epoch < epoch
      BY <1>6
    <3> HIDE DEF rs
    <3> QED
      BY <1>0, <1>3, <2>1, <3>1, <3>2, ReadIsAdded
  <2>3. inFlight' = TRUE
    BY <1>0, <1>1, <1>2, <1>7 DEF IInv, OneCurrentRead, TypeOK
  <2>4. TypeOK'
    <3>1. state' \in [owner : Visits, view : Views, status : {"loading", "idle", "refused"}]
      BY <1>2, <1>3, <1>4, <1>7
    <3>2. nextRead' \in Nat /\ failed' \in Read \cup {NoRead}
      BY <1>2, <1>3, <1>7
    <3>3. visit' \in Visits /\ package' \in Packages /\ mounted' \in BOOLEAN /\ epoch' \in Nat
      BY <1>0, <1>2 DEF TypeOK
    <3> QED
      BY <1>4, <2>2, <2>3, <3>1, <3>2, <3>3, <1>b DEF TypeOK
  <2>5. ReadsAreOrdered' /\ OneCurrentRead'
    BY <1>2, <2>1, <2>2, <2>3 DEF ReadsAreOrdered, OneCurrentRead
  <2> QED
    BY <1>2, <1>5, <2>4, <2>5, <1>b DEF IInv
<1>8. CASE ~AnotherLog(view, p, r.read)
  <2>1. \A q \in reads' : q.epoch <= epoch /\ q.epoch # epoch
    BY <1>0, <1>2, <1>3, <1>6, <1>8 DEF TypeOK
  <2>2. reads' \subseteq reads /\ inFlight' = FALSE /\ nextRead' = nextRead
        /\ state' = [owner |-> visit, view |-> view', status |-> "idle"]
    BY <1>2, <1>8
  <2>3. TypeOK'
    BY <1>0, <1>2, <1>3, <1>4, <2>2, <1>b DEF TypeOK
  <2>4. ReadsAreOrdered' /\ OneCurrentRead'
    BY <1>2, <2>1, <2>2 DEF ReadsAreOrdered, OneCurrentRead
  <2> QED
    BY <1>2, <1>5, <2>3, <2>4, <1>b DEF IInv
<1> QED
  BY <1>7, <1>8

\* A read that is refused or that comes too late.
LEMMA RefusePreserves ==
  ASSUME IInv, NEW r \in reads, Refuse(r) \/ DeliverStale(r)
  PROVE  IInv'
<1>0. TypeOK
  BY DEF IInv
<1>1. /\ reads' = reads \ {r}
      /\ UNCHANGED <<visit, package, mounted, epoch, view, nextRead>> /\ UNCHANGED hubVars
  BY DEF Refuse, DeliverStale
<1>b. /\ Len(logs') <= MaxLogs /\ LogsAreOwned'
      /\ logs' \in Seq(Packages)
      /\ log' \in [Packages -> [id : LogIds, first : Nat, last : Nat]]
  BY <1>1, LogBookStays
<1>2. CASE r.epoch # epoch
  <2>1. UNCHANGED <<inFlight, failed, state>>
    BY <1>2 DEF Refuse, DeliverStale
  <2>2. TypeOK'
    BY <1>0, <1>1, <2>1, <1>b DEF TypeOK
  <2>3. ReadsAreOrdered' /\ OneCurrentRead'
    BY <1>1, <1>2, <2>1 DEF IInv, ReadsAreOrdered, OneCurrentRead
  <2>4. IsOfPackage(view)' /\ ShownIsOfPackage' /\ (failed # NoRead => ReadsOn(view, failed))'
    BY <1>1, <2>1 DEF IInv, ShownIsOfPackage, IsOfPackage, hubVars
  <2> QED
    BY <2>2, <2>3, <2>4, <1>b DEF IInv
<1>3. CASE r.epoch = epoch
  <2>1. /\ inFlight' = FALSE /\ failed' = r.read
        /\ state' = [owner |-> visit, view |-> view, status |-> "refused"]
    BY <1>3 DEF Refuse, DeliverStale, RefusedState
  <2>2. r.read \in Read /\ ReadsOn(view, r.read) /\ visit \in Visits /\ visit \in Nat
    BY <1>0, <1>3 DEF IInv, ReadsAreOrdered, TypeOK, Visits
  <2>3. TypeOK'
    BY <1>0, <1>1, <2>1, <2>2, <1>b DEF TypeOK
  <2>4. \A q \in reads' : q.epoch # epoch
    BY <1>1, <1>3 DEF IInv, OneCurrentRead
  <2>5. ReadsAreOrdered' /\ OneCurrentRead'
    BY <1>1, <2>1, <2>4 DEF IInv, ReadsAreOrdered, OneCurrentRead
  <2>6. IsOfPackage(view)' /\ ShownIsOfPackage' /\ (failed # NoRead => ReadsOn(view, failed))'
    BY <1>1, <2>1, <2>2 DEF IInv, ShownIsOfPackage, IsOfPackage, hubVars
  <2> QED
    BY <2>3, <2>5, <2>6, <1>b DEF IInv
<1> QED
  BY <1>2, <1>3

LEMMA StepPreserves == IInv /\ [Next]_vars => IInv'
<1> SUFFICES ASSUME IInv, [Next]_vars PROVE IInv'
  OBVIOUS
<1>1. ASSUME NEW p \in Packages, Open(p) \/ LogStarts(p) \/ LogAppends(p) \/ LogEvicts(p)
      PROVE  IInv'
  BY <1>1, OpenPreserves, LogBookPreserves
<1>2. CASE Close
  BY <1>2, ClosePreserves
<1>3. CASE LoadNewer
  <2>1. ~inFlight /\ Ask(NewerRead(view)) /\ view \in Views
    BY <1>3 DEF LoadNewer, MayLoad, IInv, TypeOK
  <2>2. NewerRead(view) \in Read /\ ReadsOn(view, NewerRead(view))
    BY <2>1 DEF NewerRead, OpenRead, Read, ReadsOn, Replaces, Views
  <2> QED
    BY <2>1, <2>2, AskPreserves
<1>4. CASE Retry
  <2>1. ~inFlight /\ failed # NoRead /\ Ask(failed) /\ failed \in Read /\ ReadsOn(view, failed)
    BY <1>4 DEF Retry, IInv, TypeOK
  <2> QED
    BY <2>1, AskPreserves
<1>5. ASSUME NEW r \in reads, Settle(r) PROVE IInv'
  BY <1>5, RefusePreserves, DeliverPreserves DEF Settle
<1>6. CASE UNCHANGED vars
  <2>1. TypeOK'
    BY <1>6 DEF IInv, TypeOK, vars
  <2>2. UNCHANGED hubVars
    BY <1>6 DEF vars, hubVars
  <2>b. /\ Len(logs') <= MaxLogs /\ LogsAreOwned'
    BY <2>2, LogBookStays
  <2>3. ReadsAreOrdered' /\ OneCurrentRead' /\ (failed # NoRead => ReadsOn(view, failed))'
    BY <1>6 DEF IInv, ReadsAreOrdered, OneCurrentRead, vars
  <2>4. IsOfPackage(view)' /\ ShownIsOfPackage'
    BY <1>6 DEF IInv, ShownIsOfPackage, IsOfPackage, vars
  <2> QED
    BY <2>1, <2>b, <2>3, <2>4 DEF IInv
<1> QED
  BY <1>1, <1>2, <1>3, <1>4, <1>5, <1>6 DEF Next

-----------------------------------------------------------------------------
(* The theorems.                                                           *)

\* usePluginLogs: the inductive invariant holds in every reachable state.
THEOREM Inductive == Spec => []IInv
  BY InitIInv, StepPreserves, PTL DEF Spec

\* usePluginLogs: the view's variables keep their types.
THEOREM TypeCorrect == Spec => []TypeOK
<1>1. IInv => TypeOK
  BY DEF IInv
<1> QED
  BY <1>1, Inductive, PTL

\* usePluginLogs, inFlightRef: never two reads for one view, and the flag says whether
\* one runs, whatever late answers of earlier visits do.
THEOREM OneReadAtATime == Spec => []OneRead
<1>1. IInv => OneRead
  BY DEF IInv, OneCurrentRead, OneRead
<1> QED
  BY <1>1, Inductive, PTL

\* applyPluginLogPage: what the page shows is the log of its package without a hole up
\* to the cursor, over restarts of the log, evictions, refusals and late answers.
THEOREM ShowsTheLog == Spec => []ViewIsLog
<1>1. IInv => ViewIsLog
  <2> SUFFICES ASSUME IInv PROVE ViewIsLog
    OBVIOUS
  <2>1. CASE state.owner = visit
    <3>1. Shown = state /\ IsOfPackage(state.view)
      BY <2>1 DEF Shown, IInv, ShownIsOfPackage
    <3> QED
      BY <3>1 DEF ViewIsLog, IsOfPackage
  <2>2. CASE state.owner # visit
    <3>1. Shown.view = EmptyView
      BY <2>2 DEF Shown
    <3>2. IsLog(EmptyView) /\ EmptyView.logId = 0
      BY DEF EmptyView, IsLog
    <3> QED
      BY <3>1, <3>2 DEF ViewIsLog
  <2> QED
    BY <2>1, <2>2
<1> QED
  BY <1>1, Inductive, PTL

-----------------------------------------------------------------------------
(* The mounts of a terminal view.  The operations of a session run one after another,  *)
(* and an unmount that goes on late is of a view that was left.                        *)

\* The hosts before the one that runs were cleaned up, those after it have not begun.
HostsInTurn ==
  /\ cancelled \subseteq 1 .. host
  /\ \A h \in Mounts!Hosts : h < host => h \in cancelled
  /\ \A h \in Mounts!Hosts : h > host => stage[h] = "none"

\* The mount operations of a session run one after another.
OneInLine ==
  \A g, h \in Mounts!Hosts : g < h /\ stage[g] \in Mounts!InLine => stage[h] \in {"none", "queued"}

\* What the map holds has mounted.
EntryHasMounted == mounts # 0 => stage[mounts] \in {"attaching", "mounted", "failed", "fenced"}

\* A view that was left or given up: nothing minds that its renderer is destroyed.
Left(h) == h \in cancelled \/ stage[h] \in {"failed", "fenced"}

\* An unmount is of a view that was left; one that a mount operation waits for is the only
\* one of that operation.
UnmountsAreOfLeft ==
  /\ \A u \in unmounts : Left(u.mount) /\ (u.by = "mount" => stage[u.for] = "unmounting")
  /\ \A u, v \in unmounts : u.by = "mount" /\ v.by = "mount" /\ u.for = v.for => u = v

\* A subscription is released by the cleanup alone.
ReleasedByCleanup ==
  \A s \in Mounts!Hosts \X Mounts!Kinds :
    /\ s[1] \notin cancelled => released[s] = 0
    /\ s[1] \in cancelled => s \notin held
    /\ released[s] <= 1

\* The inductive invariant of the mounts.
MountsInv ==
  /\ Mounts!TypeOK /\ HostsInTurn /\ OneInLine /\ EntryHasMounted /\ UnmountsAreOfLeft
  /\ Mounts!CurrentRendererLives /\ ReleasedByCleanup

LEMMA MountsInit == MaxHosts \in Nat /\ Mounts!Init => MountsInv
  BY DEF Mounts!Init, MountsInv, Mounts!TypeOK, HostsInTurn, OneInLine, EntryHasMounted, UnmountsAreOfLeft,
         Mounts!CurrentRendererLives, ReleasedByCleanup, Mounts!Hosts, Mounts!Kinds, Mounts!Stages, Mounts!InLine

\* unmount, up to its first wait, of a view that was left.
LEMMA BeginKeeps ==
  ASSUME MountsInv, NEW m \in Mounts!Hosts, NEW by \in Mounts!Callers, NEW h \in Mounts!Hosts, Mounts!BeginUnmount(m, by, h)
  PROVE  /\ unmounts' \subseteq Mounts!Unmounts /\ detached' \subseteq Mounts!Hosts /\ attachedTo' \subseteq Mounts!Hosts
         /\ \E u \in Mounts!Unmounts : u.mount = m /\ u.by = by /\ u.for = h /\ unmounts' = unmounts \cup {u}
         /\ renderer' \in [Mounts!Hosts -> {"none", "created", "live", "destroyed"}]
         /\ \A k \in Mounts!Hosts : k # m => renderer'[k] = renderer[k]
<1> DEFINE u == [mount |-> m, by |-> by, for |-> h, failed |-> FALSE,
                 at |-> IF Mounts!WaitsForPlane(m) THEN "detach" ELSE "destroy"]
<1>1. u \in Mounts!Unmounts /\ u.mount = m /\ u.by = by /\ u.for = h
  BY DEF Mounts!Unmounts
<1>2. unmounts' = unmounts \cup {u}
  BY DEF Mounts!BeginUnmount
<1> HIDE DEF u
<1>3. unmounts' \subseteq Mounts!Unmounts
  BY <1>1, <1>2 DEF MountsInv, Mounts!TypeOK
<1>4. detached' \subseteq Mounts!Hosts /\ attachedTo' \subseteq Mounts!Hosts
  BY DEF Mounts!BeginUnmount, MountsInv, Mounts!TypeOK
<1>5. /\ renderer' \in [Mounts!Hosts -> {"none", "created", "live", "destroyed"}]
      /\ \A k \in Mounts!Hosts : k # m => renderer'[k] = renderer[k]
  BY DEF Mounts!BeginUnmount, MountsInv, Mounts!TypeOK
<1> QED
  BY <1>1, <1>2, <1>3, <1>4, <1>5

LEMMA StartHostStep == ASSUME MaxHosts \in Nat, MountsInv, Mounts!StartHost PROVE MountsInv'
<1>1. host + 1 \in Mounts!Hosts /\ host' = host + 1 /\ stage' = [stage EXCEPT ![host + 1] = "queued"]
  BY DEF Mounts!StartHost, MountsInv, Mounts!TypeOK, Mounts!Hosts
<1>2. Mounts!TypeOK'
  BY <1>1 DEF Mounts!StartHost, MountsInv, Mounts!TypeOK, Mounts!Hosts, Mounts!Stages
<1>3. HostsInTurn' /\ OneInLine'
  BY <1>1 DEF Mounts!StartHost, MountsInv, Mounts!TypeOK, HostsInTurn, OneInLine, Mounts!Hosts, Mounts!Stages, Mounts!InLine
<1>4. EntryHasMounted' /\ Mounts!CurrentRendererLives' /\ ReleasedByCleanup'
  BY <1>1 DEF Mounts!StartHost, MountsInv, Mounts!TypeOK, HostsInTurn, EntryHasMounted, Mounts!CurrentRendererLives,
              ReleasedByCleanup, Mounts!Hosts
<1>5. UnmountsAreOfLeft'
  BY <1>1 DEF Mounts!StartHost, MountsInv, Mounts!TypeOK, HostsInTurn, UnmountsAreOfLeft, Mounts!Unmounts, Left, Mounts!Hosts
<1> QED
  BY <1>2, <1>3, <1>4, <1>5 DEF MountsInv

LEMMA MountTurnStep == ASSUME MaxHosts \in Nat, MountsInv, NEW h \in Mounts!Hosts, Mounts!MountTurn(h) PROVE MountsInv'
<1>1. /\ stage[h] = "queued" /\ \A g \in Mounts!Hosts : g < h => stage[g] \notin Mounts!InLine
      /\ stage' = [stage EXCEPT ![h] = IF mounts = 0 THEN "mounting" ELSE "unmounting"]
      /\ UNCHANGED <<host, cancelled, mounts, held, released>>
  BY DEF Mounts!MountTurn, Mounts!Turn, Mounts!Hosts
<1>2. h <= host
  BY <1>1 DEF MountsInv, HostsInTurn, Mounts!Hosts, Mounts!TypeOK
<1>3. HostsInTurn' /\ OneInLine' /\ EntryHasMounted' /\ ReleasedByCleanup'
  BY <1>1, <1>2 DEF MountsInv, Mounts!TypeOK, HostsInTurn, OneInLine, EntryHasMounted, ReleasedByCleanup,
              Mounts!Hosts, Mounts!Stages, Mounts!InLine
<1>4. CASE mounts = 0
  <2>1. renderer' = [renderer EXCEPT ![h] = "created"] /\ UNCHANGED <<unmounts, detached, attachedTo>>
    BY <1>4 DEF Mounts!MountTurn
  <2>2. Mounts!TypeOK' /\ Mounts!CurrentRendererLives' /\ UnmountsAreOfLeft'
    BY <1>1, <1>4, <2>1 DEF MountsInv, Mounts!TypeOK, Mounts!CurrentRendererLives, UnmountsAreOfLeft,
       Mounts!Unmounts, Left, Mounts!Hosts, Mounts!Stages
  <2> QED
    BY <1>3, <2>2 DEF MountsInv
<1>5. CASE mounts # 0
  <2>1. /\ mounts \in Mounts!Hosts /\ Mounts!BeginUnmount(mounts, "mount", h) /\ "mount" \in Mounts!Callers
    BY <1>5 DEF Mounts!MountTurn, MountsInv, Mounts!TypeOK, Mounts!Hosts, Mounts!Callers
  <2>2. /\ unmounts' \subseteq Mounts!Unmounts /\ detached' \subseteq Mounts!Hosts /\ attachedTo' \subseteq Mounts!Hosts
        /\ renderer' \in [Mounts!Hosts -> {"none", "created", "live", "destroyed"}]
        /\ \A k \in Mounts!Hosts : k # mounts => renderer'[k] = renderer[k]
    BY <2>1, BeginKeeps
  <2>3. PICK u \in Mounts!Unmounts : u.mount = mounts /\ u.by = "mount" /\ u.for = h /\ unmounts' = unmounts \cup {u}
    BY <2>1, BeginKeeps
  <2>4. mounts # host /\ mounts \in cancelled
    <3>1. stage[mounts] \in {"attaching", "mounted", "failed", "fenced"}
      BY <1>5 DEF MountsInv, EntryHasMounted
    <3>2. h < host => stage[host] \in {"none", "queued"}
      BY <1>1, <1>2, <2>1 DEF MountsInv, OneInLine, Mounts!InLine, Mounts!TypeOK, Mounts!Hosts
    <3>3. mounts # host
      BY <1>1, <1>2, <3>1, <3>2 DEF MountsInv, Mounts!TypeOK, Mounts!Hosts
    <3>4. mounts < host
      BY <2>1, <3>1, <3>3 DEF MountsInv, Mounts!TypeOK, HostsInTurn, Mounts!Hosts
    <3> QED
      BY <2>1, <3>3, <3>4 DEF MountsInv, HostsInTurn
  <2>5. Mounts!TypeOK'
    BY <1>1, <2>2 DEF MountsInv, Mounts!TypeOK, Mounts!Stages
  <2>6. Mounts!CurrentRendererLives'
    BY <1>1, <2>2, <2>4 DEF MountsInv, Mounts!TypeOK, Mounts!CurrentRendererLives, Mounts!Hosts
  <2>7. UnmountsAreOfLeft'
    <3>1. \A v \in unmounts : v.mount \in Mounts!Hosts /\ v.for \in Mounts!Hosts
      BY DEF MountsInv, Mounts!TypeOK, Mounts!Unmounts
    <3>2. \A v \in unmounts : v.by = "mount" => v.for # h
      BY <1>1 DEF MountsInv, UnmountsAreOfLeft
    <3>3. \A v \in unmounts' : Left(v.mount)'
      BY <1>1, <2>3, <2>4, <3>1 DEF MountsInv, Mounts!TypeOK, UnmountsAreOfLeft, Left
    <3>4. \A v \in unmounts' : v.by = "mount" => stage'[v.for] = "unmounting"
      BY <1>1, <1>5, <2>3, <3>1, <3>2 DEF MountsInv, Mounts!TypeOK, UnmountsAreOfLeft
    <3>5. \A v, w \in unmounts' : v.by = "mount" /\ w.by = "mount" /\ v.for = w.for => v = w
      BY <2>3, <3>2 DEF MountsInv, UnmountsAreOfLeft
    <3> QED
      BY <3>3, <3>4, <3>5 DEF UnmountsAreOfLeft
  <2> QED
    BY <1>3, <2>5, <2>6, <2>7 DEF MountsInv
<1> QED
  BY <1>4, <1>5

LEMMA MountedStep ==
  ASSUME MaxHosts \in Nat, MountsInv, NEW h \in Mounts!Hosts, Mounts!MountFenced(h) \/ Mounts!MountSettles(h) \/ Mounts!MountFails(h)
  PROVE  MountsInv'
<1>1. stage[h] = "mounting" /\ UNCHANGED <<host, cancelled, detached, released>>
  BY DEF Mounts!MountFenced, Mounts!MountSettles, Mounts!MountFails
<1>3. \A v \in unmounts : v.mount \in Mounts!Hosts /\ v.for \in Mounts!Hosts
  BY DEF MountsInv, Mounts!TypeOK, Mounts!Unmounts
<1>4. \A k \in Mounts!Hosts : h < k => stage[k] \in {"none", "queued"}
  BY <1>1 DEF MountsInv, OneInLine, Mounts!InLine
<1>5. h <= host
  BY <1>1 DEF MountsInv, HostsInTurn, Mounts!Hosts, Mounts!TypeOK
<1>6. CASE Mounts!MountFenced(h)
  <2> DEFINE u == [mount |-> h, by |-> "fence", for |-> h, failed |-> FALSE, at |-> "destroy"]
  <2>1. /\ h \in cancelled /\ mounts' = h /\ stage' = [stage EXCEPT ![h] = "fenced"]
        /\ unmounts' = unmounts \cup {u} /\ renderer' = [renderer EXCEPT ![h] = "destroyed"]
        /\ UNCHANGED <<attachedTo, held>>
    BY <1>6 DEF Mounts!MountFenced
  <2>2. u \in Mounts!Unmounts /\ u.mount = h /\ u.by # "mount" /\ u.for = h
    BY DEF Mounts!Unmounts, Mounts!Callers
  <2> HIDE DEF u
  <2>3. Mounts!TypeOK'
    BY <1>1, <2>1, <2>2 DEF MountsInv, Mounts!TypeOK, Mounts!Stages, Mounts!Hosts
  <2>4. HostsInTurn' /\ OneInLine' /\ EntryHasMounted' /\ ReleasedByCleanup'
    BY <1>1, <1>4, <1>5, <2>1 DEF MountsInv, Mounts!TypeOK, HostsInTurn, OneInLine, EntryHasMounted, ReleasedByCleanup,
                Mounts!Hosts, Mounts!InLine
  <2>5. Mounts!CurrentRendererLives'
    BY <1>1, <2>1 DEF MountsInv, Mounts!TypeOK, Mounts!CurrentRendererLives, Mounts!Hosts
  <2>6. UnmountsAreOfLeft'
    BY <1>1, <1>3, <2>1, <2>2 DEF MountsInv, Mounts!TypeOK, UnmountsAreOfLeft, Left
  <2> QED
    BY <2>3, <2>4, <2>5, <2>6 DEF MountsInv
<1>7. CASE Mounts!MountSettles(h)
  <2>1. /\ h \notin cancelled /\ mounts' = h /\ stage' = [stage EXCEPT ![h] = "attaching"]
        /\ renderer' = [renderer EXCEPT ![h] = "live"] /\ attachedTo' = attachedTo \cup {h}
        /\ held' = held \cup {<<h, "status">>} /\ UNCHANGED unmounts
    BY <1>7 DEF Mounts!MountSettles
  <2>2. Mounts!TypeOK'
    BY <1>1, <2>1 DEF MountsInv, Mounts!TypeOK, Mounts!Stages, Mounts!Hosts, Mounts!Kinds
  <2>3. HostsInTurn' /\ OneInLine' /\ EntryHasMounted'
    BY <1>1, <1>4, <1>5, <2>1 DEF MountsInv, Mounts!TypeOK, HostsInTurn, OneInLine, EntryHasMounted,
       Mounts!Hosts, Mounts!InLine
  <2>4. Mounts!CurrentRendererLives'
    BY <1>1, <2>1 DEF MountsInv, Mounts!TypeOK, Mounts!CurrentRendererLives, Mounts!Hosts
  <2>5. UnmountsAreOfLeft'
    BY <1>1, <1>3, <2>1 DEF MountsInv, Mounts!TypeOK, UnmountsAreOfLeft, Left
  <2>6. ReleasedByCleanup'
    BY <1>1, <2>1 DEF MountsInv, Mounts!TypeOK, ReleasedByCleanup, Mounts!Hosts, Mounts!Kinds
  <2> QED
    BY <2>2, <2>3, <2>4, <2>5, <2>6 DEF MountsInv
<1>8. CASE Mounts!MountFails(h)
  <2>1. /\ stage' = [stage EXCEPT ![h] = "failed"]
        /\ UNCHANGED <<renderer, mounts, attachedTo, unmounts, held>>
    BY <1>8 DEF Mounts!MountFails
  <2>2. Mounts!TypeOK'
    BY <1>1, <2>1 DEF MountsInv, Mounts!TypeOK, Mounts!Stages
  <2>3. HostsInTurn' /\ OneInLine' /\ EntryHasMounted' /\ Mounts!CurrentRendererLives' /\ ReleasedByCleanup'
    BY <1>1, <1>4, <1>5, <2>1 DEF MountsInv, Mounts!TypeOK, HostsInTurn, OneInLine, EntryHasMounted,
         Mounts!CurrentRendererLives, ReleasedByCleanup, Mounts!Hosts, Mounts!InLine
  <2>4. UnmountsAreOfLeft'
    BY <1>1, <1>3, <2>1 DEF MountsInv, Mounts!TypeOK, UnmountsAreOfLeft, Left
  <2> QED
    BY <2>2, <2>3, <2>4 DEF MountsInv
<1> QED
  BY <1>6, <1>7, <1>8

\* unmount, for a host that is left by this step or was before.
LEMMA UnmountKeeps ==
  ASSUME MountsInv, NEW by \in Mounts!Callers, by # "mount", NEW h \in Mounts!Hosts, Mounts!Unmount(h, by, h)
  PROVE  /\ unmounts' \subseteq Mounts!Unmounts /\ detached' \subseteq Mounts!Hosts /\ attachedTo' \subseteq Mounts!Hosts
         /\ \A u \in unmounts' : u \in unmounts \/ (u.mount = h /\ u.by # "mount")
         /\ renderer' \in [Mounts!Hosts -> {"none", "created", "live", "destroyed"}]
         /\ \A k \in Mounts!Hosts : k # h => renderer'[k] = renderer[k]
<1>1. CASE Mounts!Finds(h)
  <2>1. Mounts!BeginUnmount(h, by, h)
    BY <1>1 DEF Mounts!Unmount, Mounts!Finds, Mounts!Hosts
  <2>2. PICK u \in Mounts!Unmounts : u.mount = h /\ u.by = by /\ u.for = h /\ unmounts' = unmounts \cup {u}
    BY <2>1, BeginKeeps
  <2>3. \A v \in unmounts' : v \in unmounts \/ (v.mount = h /\ v.by # "mount")
    BY <2>2
  <2>4. /\ unmounts' \subseteq Mounts!Unmounts /\ detached' \subseteq Mounts!Hosts /\ attachedTo' \subseteq Mounts!Hosts
        /\ renderer' \in [Mounts!Hosts -> {"none", "created", "live", "destroyed"}]
        /\ \A k \in Mounts!Hosts : k # h => renderer'[k] = renderer[k]
    BY <2>1, BeginKeeps
  <2> QED
    BY <2>3, <2>4
<1>2. CASE ~Mounts!Finds(h)
  BY <1>2 DEF Mounts!Unmount, MountsInv, Mounts!TypeOK
<1> QED
  BY <1>1, <1>2

LEMMA AttachedStep ==
  ASSUME MaxHosts \in Nat, MountsInv, NEW h \in Mounts!Hosts, Mounts!AttachSettles(h) \/ Mounts!AttachFails(h)
  PROVE  MountsInv'
<1>1. stage[h] = "attaching" /\ UNCHANGED <<host, cancelled, mounts>>
  BY DEF Mounts!AttachSettles, Mounts!AttachFails
<1>2. \A v \in unmounts : v.mount \in Mounts!Hosts /\ v.for \in Mounts!Hosts
  BY DEF MountsInv, Mounts!TypeOK, Mounts!Unmounts
<1>3. CASE Mounts!AttachSettles(h) /\ Mounts!StillWanted(h)
  <2>1. /\ h \notin cancelled /\ stage' = [stage EXCEPT ![h] = "mounted"] /\ held' = held \cup {<<h, "outcome">>}
        /\ UNCHANGED <<released, renderer, attachedTo, detached, unmounts>>
    BY <1>3 DEF Mounts!AttachSettles, Mounts!StillWanted
  <2>2. Mounts!TypeOK'
    BY <1>1, <2>1 DEF MountsInv, Mounts!TypeOK, Mounts!Stages, Mounts!Hosts, Mounts!Kinds
  <2>3. HostsInTurn' /\ OneInLine' /\ EntryHasMounted' /\ Mounts!CurrentRendererLives' /\ ReleasedByCleanup'
    BY <1>1, <2>1 DEF MountsInv, Mounts!TypeOK, HostsInTurn, OneInLine, EntryHasMounted, Mounts!CurrentRendererLives,
         ReleasedByCleanup, Mounts!Hosts, Mounts!InLine
  <2>4. UnmountsAreOfLeft'
    BY <1>1, <1>2, <2>1 DEF MountsInv, Mounts!TypeOK, UnmountsAreOfLeft, Left
  <2> QED
    BY <2>2, <2>3, <2>4 DEF MountsInv
<1>4. CASE Mounts!AttachSettles(h) /\ ~Mounts!StillWanted(h)
  <2>1. /\ h \in cancelled /\ stage' = [stage EXCEPT ![h] = "fenced"] /\ Mounts!Release({<<h, "status">>})
        /\ UNCHANGED <<renderer, attachedTo, detached, unmounts>>
    BY <1>4 DEF Mounts!AttachSettles, Mounts!StillWanted
  <2>2. <<h, "status">> \notin held
    BY <2>1 DEF MountsInv, ReleasedByCleanup, Mounts!Kinds
  <2>3. UNCHANGED <<held, released>>
    BY <2>1, <2>2 DEF Mounts!Release, MountsInv, Mounts!TypeOK
  <2>4. Mounts!TypeOK'
    BY <1>1, <2>1, <2>3 DEF MountsInv, Mounts!TypeOK, Mounts!Stages
  <2>5. HostsInTurn' /\ OneInLine' /\ EntryHasMounted' /\ Mounts!CurrentRendererLives' /\ ReleasedByCleanup'
    BY <1>1, <2>1, <2>3 DEF MountsInv, Mounts!TypeOK, HostsInTurn, OneInLine, EntryHasMounted, Mounts!CurrentRendererLives,
         ReleasedByCleanup, Mounts!Hosts, Mounts!InLine
  <2>6. UnmountsAreOfLeft'
    BY <1>1, <1>2, <2>1 DEF MountsInv, Mounts!TypeOK, UnmountsAreOfLeft, Left
  <2> QED
    BY <2>4, <2>5, <2>6 DEF MountsInv
<1>5. CASE Mounts!AttachFails(h)
  <2>1. /\ stage' = [stage EXCEPT ![h] = "failed"] /\ Mounts!Unmount(h, "catch", h) /\ "catch" \in Mounts!Callers
        /\ UNCHANGED <<held, released>>
    BY <1>5 DEF Mounts!AttachFails, Mounts!Callers
  <2>2. /\ unmounts' \subseteq Mounts!Unmounts /\ detached' \subseteq Mounts!Hosts /\ attachedTo' \subseteq Mounts!Hosts
        /\ \A u \in unmounts' : u \in unmounts \/ (u.mount = h /\ u.by # "mount")
        /\ renderer' \in [Mounts!Hosts -> {"none", "created", "live", "destroyed"}]
        /\ \A k \in Mounts!Hosts : k # h => renderer'[k] = renderer[k]
    BY <2>1, UnmountKeeps
  <2>3. Mounts!TypeOK'
    BY <1>1, <2>1, <2>2 DEF MountsInv, Mounts!TypeOK, Mounts!Stages
  <2>4. HostsInTurn' /\ OneInLine' /\ EntryHasMounted' /\ Mounts!CurrentRendererLives' /\ ReleasedByCleanup'
    BY <1>1, <2>1, <2>2 DEF MountsInv, Mounts!TypeOK, HostsInTurn, OneInLine, EntryHasMounted, Mounts!CurrentRendererLives,
         ReleasedByCleanup, Mounts!Hosts, Mounts!InLine
  <2>5. UnmountsAreOfLeft'
    BY <1>1, <1>2, <2>1, <2>2 DEF MountsInv, Mounts!TypeOK, UnmountsAreOfLeft, Left
  <2> QED
    BY <2>3, <2>4, <2>5 DEF MountsInv
<1> QED
  BY <1>3, <1>4, <1>5

LEMMA CleanUpStep == ASSUME MaxHosts \in Nat, MountsInv, NEW h \in Mounts!Hosts, Mounts!CleanUp(h) PROVE MountsInv'
<1>1. /\ h = host /\ h \notin cancelled /\ cancelled' = cancelled \cup {h}
      /\ Mounts!Release({h} \X Mounts!Kinds) /\ UNCHANGED <<host, stage, mounts>>
      /\ Mounts!Unmount(h, "cleanup", h) \/ UNCHANGED <<unmounts, detached, attachedTo, renderer>>
      /\ "cleanup" \in Mounts!Callers
  BY DEF Mounts!CleanUp, Mounts!Callers
<1>2. /\ unmounts' \subseteq Mounts!Unmounts /\ detached' \subseteq Mounts!Hosts /\ attachedTo' \subseteq Mounts!Hosts
      /\ \A u \in unmounts' : u \in unmounts \/ (u.mount = h /\ u.by # "mount")
      /\ renderer' \in [Mounts!Hosts -> {"none", "created", "live", "destroyed"}]
      /\ \A k \in Mounts!Hosts : k # h => renderer'[k] = renderer[k]
  BY <1>1, UnmountKeeps DEF MountsInv, Mounts!TypeOK
<1>3. /\ held' = held \ ({h} \X Mounts!Kinds)
      /\ \A s \in Mounts!Hosts \X Mounts!Kinds :
           released'[s] = IF s \in ({h} \X Mounts!Kinds) \cap held THEN released[s] + 1 ELSE released[s]
      /\ DOMAIN released' = Mounts!Hosts \X Mounts!Kinds
  BY <1>1 DEF Mounts!Release, MountsInv, Mounts!TypeOK
<1>4. ReleasedByCleanup'
  <2> SUFFICES ASSUME NEW s \in Mounts!Hosts \X Mounts!Kinds
               PROVE  /\ s[1] \notin cancelled' => released'[s] = 0
                      /\ s[1] \in cancelled' => s \notin held'
                      /\ released'[s] <= 1
    BY DEF ReleasedByCleanup
  <2>1. s \in {h} \X Mounts!Kinds <=> s[1] = h
    OBVIOUS
  <2>2. CASE s[1] = h
    BY <1>1, <1>3, <2>1, <2>2 DEF MountsInv, ReleasedByCleanup
  <2>3. CASE s[1] # h
    BY <1>1, <1>3, <2>1, <2>3 DEF MountsInv, ReleasedByCleanup
  <2> QED
    BY <2>2, <2>3
<1>5. released' \in [Mounts!Hosts \X Mounts!Kinds -> 0 .. 2]
  <2>1. \A s \in Mounts!Hosts \X Mounts!Kinds : released'[s] \in 0 .. 2
    BY <1>3, <1>4 DEF MountsInv, Mounts!TypeOK, ReleasedByCleanup
  <2>2. released' = [s \in Mounts!Hosts \X Mounts!Kinds |-> released'[s]]
    BY <1>1 DEF Mounts!Release, MountsInv, Mounts!TypeOK
  <2> QED
    BY <2>1, <2>2
<1>6. Mounts!TypeOK'
  BY <1>1, <1>2, <1>3, <1>5 DEF MountsInv, Mounts!TypeOK
<1>7. HostsInTurn' /\ OneInLine' /\ EntryHasMounted' /\ Mounts!CurrentRendererLives'
  BY <1>1, <1>2 DEF MountsInv, Mounts!TypeOK, HostsInTurn, OneInLine, EntryHasMounted,
     Mounts!CurrentRendererLives, Mounts!Hosts
<1>8. UnmountsAreOfLeft'
  BY <1>1, <1>2 DEF MountsInv, UnmountsAreOfLeft, Left
<1> QED
  BY <1>4, <1>6, <1>7, <1>8 DEF MountsInv

LEMMA DetachStep ==
  ASSUME MaxHosts \in Nat, MountsInv, NEW u \in unmounts, NEW fails \in BOOLEAN, Mounts!DetachSettles(u, fails)
  PROVE  MountsInv'
<1> DEFINE v == [u EXCEPT !.at = "destroy", !.failed = fails]
<1>1. /\ unmounts' = (unmounts \ {u}) \cup {v} /\ attachedTo' = attachedTo \ {u.mount}
      /\ renderer' = [renderer EXCEPT ![u.mount] = "destroyed"]
      /\ UNCHANGED <<host, cancelled, stage, mounts, detached, held, released>>
  BY DEF Mounts!DetachSettles, Mounts!Target
<1>2. u \in Mounts!Unmounts
  BY DEF MountsInv, Mounts!TypeOK
<1>3. v \in Mounts!Unmounts /\ v.mount = u.mount /\ v.by = u.by /\ v.for = u.for
  BY <1>2 DEF Mounts!Unmounts
<1> HIDE DEF v
<1>4. Mounts!TypeOK'
  BY <1>1, <1>3 DEF MountsInv, Mounts!TypeOK
<1>5. HostsInTurn' /\ OneInLine' /\ EntryHasMounted' /\ ReleasedByCleanup'
  BY <1>1 DEF MountsInv, HostsInTurn, OneInLine, EntryHasMounted, ReleasedByCleanup
<1>6. Mounts!CurrentRendererLives'
  <2>1. u.mount = host => host \in cancelled \/ stage[host] \notin {"attaching", "mounted"}
    BY DEF MountsInv, UnmountsAreOfLeft, Left
  <2> QED
    BY <1>1, <2>1 DEF MountsInv, Mounts!TypeOK, Mounts!CurrentRendererLives, Mounts!Hosts
<1>7. UnmountsAreOfLeft'
  BY <1>1, <1>3 DEF MountsInv, UnmountsAreOfLeft, Left
<1> QED
  BY <1>4, <1>5, <1>6, <1>7 DEF MountsInv

LEMMA DestroyStep ==
  ASSUME MaxHosts \in Nat, MountsInv, NEW u \in unmounts, NEW fails \in BOOLEAN, Mounts!DestroySettles(u, fails)
  PROVE  MountsInv'
<1>1. /\ unmounts' = unmounts \ {u} /\ mounts' = 0 /\ Mounts!AfterUnmount(u, fails \/ u.failed)
      /\ UNCHANGED <<host, cancelled, attachedTo, detached, held, released>>
  BY DEF Mounts!DestroySettles
<1>2. u.for \in Mounts!Hosts /\ \A v \in unmounts : v.mount \in Mounts!Hosts /\ v.for \in Mounts!Hosts
  BY DEF MountsInv, Mounts!TypeOK, Mounts!Unmounts
<1>3. EntryHasMounted' /\ ReleasedByCleanup'
  BY <1>1 DEF MountsInv, EntryHasMounted, ReleasedByCleanup
<1>4. CASE UNCHANGED <<stage, renderer>>
  <2>1. Mounts!TypeOK' /\ HostsInTurn' /\ OneInLine' /\ Mounts!CurrentRendererLives' /\ UnmountsAreOfLeft'
    BY <1>1, <1>4 DEF MountsInv, Mounts!TypeOK, HostsInTurn, OneInLine, Mounts!CurrentRendererLives, UnmountsAreOfLeft, Left
  <2> QED
    BY <1>3, <2>1 DEF MountsInv
<1>5. CASE u.by = "mount"
  <2>1. /\ stage[u.for] = "unmounting"
        /\ \E s \in {"failed", "mounting"} : stage' = [stage EXCEPT ![u.for] = s]
        /\ renderer' = renderer \/ renderer' = [renderer EXCEPT ![u.for] = "created"]
    BY <1>1, <1>5 DEF Mounts!AfterUnmount, MountsInv, UnmountsAreOfLeft
  <2>2. \A v \in unmounts' : v.by = "mount" => v.for # u.for
    BY <1>1, <1>5 DEF MountsInv, UnmountsAreOfLeft
  <2>3. u.for <= host
    BY <1>2, <2>1 DEF MountsInv, HostsInTurn, Mounts!Hosts, Mounts!TypeOK
  <2>4. Mounts!TypeOK'
    BY <1>1, <1>2, <2>1 DEF MountsInv, Mounts!TypeOK, Mounts!Stages
  <2>5. HostsInTurn' /\ OneInLine' /\ Mounts!CurrentRendererLives'
    BY <1>1, <1>2, <2>1, <2>3 DEF MountsInv, Mounts!TypeOK, HostsInTurn, OneInLine,
       Mounts!CurrentRendererLives, Mounts!Hosts, Mounts!InLine
  <2>6. UnmountsAreOfLeft'
    BY <1>1, <1>2, <2>1, <2>2 DEF MountsInv, Mounts!TypeOK, UnmountsAreOfLeft, Left
  <2> QED
    BY <1>3, <2>4, <2>5, <2>6 DEF MountsInv
<1> QED
  BY <1>1, <1>4, <1>5 DEF Mounts!AfterUnmount

LEMMA MountsNext == ASSUME MaxHosts \in Nat, MountsInv, [Mounts!Next]_(Mounts!vars) PROVE MountsInv'
<1>1. CASE UNCHANGED Mounts!vars
  BY <1>1 DEF Mounts!vars, MountsInv, Mounts!TypeOK, HostsInTurn, OneInLine, EntryHasMounted, UnmountsAreOfLeft, Left,
              Mounts!CurrentRendererLives, ReleasedByCleanup
<1>2. CASE Mounts!Next
  BY <1>2, StartHostStep, MountTurnStep, MountedStep, AttachedStep, CleanUpStep, DetachStep, DestroyStep
     DEF Mounts!Next, Mounts!Settles
<1> QED
  BY <1>1, <1>2

LEMMA MountsImplied == MountsInv => Mounts!SubscriptionsReleasedOnce
  BY DEF MountsInv, Mounts!TypeOK, ReleasedByCleanup, Mounts!SubscriptionsReleasedOnce, HostsInTurn, Mounts!Hosts

\* TerminalViewHost, terminal.ts: the invariant holds whatever mounts, attaches and
\* unmounts go on late, of any number of views.
THEOREM MountsInductive == Mounts!Spec => []MountsInv
<1>1. Mounts!Init => MountsInv
  BY MountsInit, AppBoundsAssumption
<1>2. MountsInv /\ [Mounts!Next]_(Mounts!vars) => MountsInv'
  BY MountsNext, AppBoundsAssumption
<1> QED
  BY <1>1, <1>2, PTL DEF Mounts!Spec

-----------------------------------------------------------------------------
(* Resolve of a quarantine.  The verdict of the Hub, the answers and the frames under  *)
(* way and the row are tied by what was asked when: the read of an operation is asked  *)
(* for once the page was told that it was accepted, so the list it is answered with no *)
(* longer has the listing.  Other reads may be answered before or after it.            *)

Verdicts == {"none", "accepted", "refused"}
Tasks ==
  [kind : {"callback"}, op : Actions!Ops, state : {"failed", "refreshing", "refused"}]
    \cup [kind : {"result"}, op : Actions!Ops, ok : BOOLEAN]
    \cup [kind : {"refresh"}, op : Actions!Ops, ok : BOOLEAN]
    \cup [kind : {"status"}, listing : 0 .. MaxListings]
Answers == [type : {"resolve", "status"}, op : 0 .. MaxOps, ok : BOOLEAN, listing : 0 .. MaxListings]

\* What is under way has the shape the code gives it.
Shapes ==
  /\ Actions!TypeOK
  /\ micro \in Seq(Tasks)
  /\ answers \subseteq Answers
  /\ hub \in [listing : 0 .. MaxListings, listings : 0 .. MaxListings, verdict : [Actions!Ops -> Verdicts]]

\* The Hub accepted operation op.
Accepted(op) == hub.verdict[op] = "accepted"

\* A listing that is known somewhere is one the Hub has had.
ListingsAreKnown ==
  /\ listed <= hub.listings /\ hub.listing <= hub.listings
  /\ \A a \in answers : a.listing <= hub.listings
  /\ \A i \in DOMAIN micro : micro[i].kind = "status" => micro[i].listing <= hub.listings
  /\ \A op \in Actions!Ops :
       IF op <= lastOp THEN listingOf[op] \in 1 .. hub.listings ELSE hub.verdict[op] = "none"

\* An operation has no verdict before the Hub takes it, and then the one its answer says.
VerdictsAreOnce ==
  /\ \A r \in requests : r.type = "resolve" => r.op <= lastOp /\ hub.verdict[r.op] = "none"
  /\ \A a \in answers : a.type = "resolve" =>
       a.op \in Actions!Ops /\ hub.verdict[a.op] = IF a.ok THEN "accepted" ELSE "refused"

\* The status of an operation is asked for after it was accepted, and answered without
\* its listing.
ReadsAreOfAccepted ==
  /\ \A op \in Actions!Ops : Actions!StatusOf(op) \in waiting \cup requests => Accepted(op)
  /\ \A a \in answers : a.type = "status" /\ a.op \in Actions!Ops =>
       Accepted(a.op) /\ a.listing # listingOf[a.op]

\* A microtask says of its operation what the Hub decided.
TasksAreTrue ==
  \A i \in DOMAIN micro :
    /\ micro[i].kind = "result" =>
         hub.verdict[micro[i].op] = IF micro[i].ok THEN "accepted" ELSE "refused"
    /\ micro[i].kind = "callback" =>
         /\ micro[i].state = "refreshing" => hub.verdict[micro[i].op] = "accepted"
         /\ micro[i].state = "refused" => hub.verdict[micro[i].op] = "refused"
    /\ micro[i].kind = "refresh" => Accepted(micro[i].op)

\* Once an operation was accepted the Hub does not have its listing any more.
ListingIsGone == \A op \in Actions!Ops : Accepted(op) => hub.listing # listingOf[op]

\* The list of a read is shown just ahead of the word that it was clean: it is the next
\* task, or it is on the page.
StatusIsAhead ==
  \A i \in DOMAIN micro : micro[i].kind = "refresh" /\ micro[i].ok =>
    \/ i = 1 /\ (connected => listed # listingOf[micro[i].op])
    \/ i = 2 /\ micro[1].kind = "status" /\ micro[1].listing # listingOf[micro[i].op]

RefreshedIsGone == \A c \in refreshed : Accepted(c.op) /\ c.listing # listingOf[c.op]

\* The inductive invariant of a Resolve.
ActionsInv ==
  /\ Shapes /\ ListingsAreKnown /\ VerdictsAreOnce /\ ReadsAreOfAccepted /\ TasksAreTrue
  /\ ListingIsGone /\ StatusIsAhead /\ RefreshedIsGone /\ Actions!OutcomeIsTrue
-----------------------------------------------------------------------------
(* Lines of frames.                                                        *)

LEMMA TailOfLine ==
  ASSUME NEW S, NEW s \in Seq(S), s # <<>>
  PROVE  /\ Tail(s) \in Seq(S) /\ Head(s) = s[1] /\ Head(s) \in S /\ 1 \in DOMAIN s
         /\ \A i \in DOMAIN Tail(s) : i + 1 \in DOMAIN s /\ Tail(s)[i] = s[i + 1] /\ i \in Nat
         /\ \A i \in DOMAIN s : i # 1 => i - 1 \in DOMAIN Tail(s) /\ s[i] = Tail(s)[i - 1]
  OBVIOUS

LEMMA LineGrows ==
  ASSUME NEW S, NEW s \in Seq(S), NEW e \in S
  PROVE  /\ Append(s, e) \in Seq(S) /\ Len(s) + 1 \in DOMAIN Append(s, e)
         /\ Append(s, e)[Len(s) + 1] = e
         /\ \A i \in DOMAIN s : i \in DOMAIN Append(s, e) /\ Append(s, e)[i] = s[i] /\ i < Len(s) + 1
         /\ \A i \in DOMAIN Append(s, e) : i \in DOMAIN s \/ i = Len(s) + 1
  OBVIOUS

LEMMA TwoInLine ==
  ASSUME NEW S, NEW x \in S, NEW y \in S
  PROVE  /\ <<x>> \o <<y>> \in Seq(S) /\ DOMAIN (<<x>> \o <<y>>) = 1 .. 2
         /\ (<<x>> \o <<y>>)[1] = x /\ (<<x>> \o <<y>>)[2] = y
<1>1. <<x>> \in Seq(S) /\ <<y>> \in Seq(S) /\ Len(<<x>>) = 1 /\ Len(<<y>>) = 1
  OBVIOUS
<1>2. <<x>>[1] = x /\ <<y>>[1] = y
  OBVIOUS
<1> QED
  BY <1>1, <1>2

LEMMA ActionsInit == ASSUME Actions!Init PROVE ActionsInv
<1>1. Shapes
  <2>1. Actions!TypeOK
    <3>1. Actions!NoRow \in Actions!Rows
      BY AppBoundsAssumption DEF Actions!Rows, Actions!NoRow, Actions!RowStates
    <3>2. 0 \in 0 .. MaxOps /\ 0 \in 0 .. MaxListings
      BY AppBoundsAssumption
    <3>3. listingOf \in [Actions!Ops -> 0 .. MaxListings]
      BY <3>2 DEF Actions!Init
    <3> QED
      BY <3>1, <3>2, <3>3 DEF Actions!Init, Actions!TypeOK
  <2>2. hub \in [listing : 0 .. MaxListings, listings : 0 .. MaxListings, verdict : [Actions!Ops -> Verdicts]]
    BY AppBoundsAssumption DEF Actions!Init, Verdicts
  <2> QED
    BY <2>1, <2>2 DEF Actions!Init, Shapes
<1>2. ListingsAreKnown /\ VerdictsAreOnce /\ ReadsAreOfAccepted /\ TasksAreTrue
  BY AppBoundsAssumption DEF Actions!Init, ListingsAreKnown, VerdictsAreOnce, ReadsAreOfAccepted, TasksAreTrue, Actions!Ops
<1>3. ListingIsGone /\ StatusIsAhead /\ RefreshedIsGone /\ Actions!OutcomeIsTrue
  BY AppBoundsAssumption DEF Actions!Init, ListingIsGone, Accepted, StatusIsAhead, RefreshedIsGone, Actions!OutcomeIsTrue
<1> QED
  BY <1>1, <1>2, <1>3 DEF ActionsInv

LEMMA RequestShapes ==
  /\ \A op \in Actions!Ops : Actions!ResolveOf(op) \in Actions!Requests
  /\ \A op \in 0 .. MaxOps : Actions!StatusOf(op) \in Actions!Requests
  /\ \A op, q : Actions!ResolveOf(op) # Actions!StatusOf(q) /\ Actions!ResolveOf(op).type = "resolve" /\ Actions!ResolveOf(op).op = op
                /\ Actions!StatusOf(op).type = "status" /\ Actions!StatusOf(op).op = op
  /\ \A r \in Actions!Requests : \/ r.type = "resolve" /\ r.op \in Actions!Ops /\ r = Actions!ResolveOf(r.op)
                                 \/ r.type = "status" /\ r.op \in 0 .. MaxOps /\ r = Actions!StatusOf(r.op)
<1>1. /\ \A op \in Actions!Ops : Actions!ResolveOf(op) \in Actions!Requests
      /\ \A op \in 0 .. MaxOps : Actions!StatusOf(op) \in Actions!Requests
  BY DEF Actions!Requests
<1>2. \A op, q : Actions!ResolveOf(op) # Actions!StatusOf(q) /\ Actions!ResolveOf(op).type = "resolve" /\ Actions!ResolveOf(op).op = op
                 /\ Actions!StatusOf(op).type = "status" /\ Actions!StatusOf(op).op = op
  BY DEF Actions!ResolveOf, Actions!StatusOf
<1>3. \A r \in Actions!Requests : \/ r.type = "resolve" /\ r.op \in Actions!Ops /\ r = Actions!ResolveOf(r.op)
                                  \/ r.type = "status" /\ r.op \in 0 .. MaxOps /\ r = Actions!StatusOf(r.op)
  BY <1>2 DEF Actions!Requests
<1> QED
  BY <1>1, <1>2, <1>3

LEMMA ResolveStep == ASSUME ActionsInv, Actions!Resolve PROVE ActionsInv'
<1> DEFINE op == lastOp + 1
<1>1. /\ micro = <<>> /\ listed # 0 /\ lastOp < MaxOps
      /\ lastOp' = op /\ listingOf' = [listingOf EXCEPT ![op] = listed]
      /\ row' = [state |-> "pending", op |-> op, listing |-> listed] /\ pending' = pending \cup {op}
      /\ requests' = requests \cup {Actions!ResolveOf(op)} /\ waiting' = waiting \cup {Actions!ResolveOf(op)}
      /\ UNCHANGED <<listed, micro, pulled, connected, hub, answers, refreshed>>
  BY DEF Actions!Resolve, Actions!ResolveOffered, Actions!Send
<1>2. op \in Actions!Ops /\ lastOp \in Nat /\ op > lastOp /\ hub.verdict[op] = "none"
  BY <1>1, AppBoundsAssumption DEF ActionsInv, Shapes, Actions!TypeOK, ListingsAreKnown, Actions!Ops
<1> HIDE DEF op
<1>3. /\ Actions!ResolveOf(op) \in Actions!Requests /\ Actions!ResolveOf(op).op = op /\ \A q : Actions!ResolveOf(op) # Actions!StatusOf(q)
  BY <1>2, RequestShapes
<1>4. Shapes'
  <2>1. row' \in Actions!Rows
    BY <1>1, <1>2 DEF ActionsInv, Shapes, Actions!TypeOK, Actions!Rows, Actions!RowStates, Actions!Ops
  <2> QED
    BY <1>1, <1>2, <1>3, <2>1 DEF ActionsInv, Shapes, Actions!TypeOK, Actions!Ops
<1>5. ListingsAreKnown'
  <2>1. ASSUME NEW o \in Actions!Ops
        PROVE  IF o <= lastOp' THEN listingOf'[o] \in 1 .. hub.listings ELSE hub.verdict[o] = "none"
    <3>1. CASE o = op
      BY <1>1, <1>2, <3>1 DEF ActionsInv, Shapes, Actions!TypeOK, ListingsAreKnown
    <3>2. CASE o # op
      BY <1>1, <1>2, <3>2 DEF ActionsInv, Shapes, Actions!TypeOK, ListingsAreKnown, Actions!Ops, op
    <3> QED
      BY <3>1, <3>2
  <2> QED
    BY <1>1, <2>1 DEF ActionsInv, ListingsAreKnown
<1>6. VerdictsAreOnce'
  <2>1. ASSUME NEW r \in requests, r.type = "resolve" PROVE r.op <= lastOp' /\ hub.verdict[r.op] = "none"
    <3>1. r.op \in Actions!Ops
      BY <2>1, RequestShapes DEF ActionsInv, Shapes, Actions!TypeOK
    <3> QED
      BY <1>1, <1>2, <2>1, <3>1 DEF ActionsInv, VerdictsAreOnce, Actions!Ops
  <2>2. Actions!ResolveOf(op).op <= lastOp' /\ hub.verdict[Actions!ResolveOf(op).op] = "none"
    BY <1>1, <1>2, <1>3 DEF op
  <2>3. \A r \in requests' : r.type = "resolve" => r.op <= lastOp' /\ hub'.verdict[r.op] = "none"
    BY <1>1, <2>1, <2>2
  <2>4. \A a \in answers' : a.type = "resolve" =>
          a.op \in Actions!Ops /\ hub'.verdict[a.op] = IF a.ok THEN "accepted" ELSE "refused"
    BY <1>1 DEF ActionsInv, VerdictsAreOnce
  <2> QED
    BY <2>3, <2>4 DEF VerdictsAreOnce
<1>7. \A o \in Actions!Ops : Accepted(o) => o # op /\ listingOf'[o] = listingOf[o]
  BY <1>1, <1>2 DEF ActionsInv, Shapes, Actions!TypeOK, Accepted
<1>8. ReadsAreOfAccepted' /\ TasksAreTrue' /\ StatusIsAhead'
  <2>1. TasksAreTrue' /\ StatusIsAhead'
    BY <1>1 DEF TasksAreTrue, StatusIsAhead
  <2>2. ReadsAreOfAccepted'
    BY <1>1, <1>3, <1>7 DEF ActionsInv, ReadsAreOfAccepted, Accepted
  <2> QED
    BY <2>1, <2>2
<1>9. ListingIsGone' /\ RefreshedIsGone'
  <2>1. \A c \in refreshed : c.op \in Actions!Ops
    BY DEF ActionsInv, Shapes, Actions!TypeOK
  <2> QED
    BY <1>1, <1>7, <2>1 DEF ActionsInv, ListingIsGone, RefreshedIsGone, Accepted
<1>10. Actions!OutcomeIsTrue'
  BY <1>1 DEF Actions!OutcomeIsTrue
<1> QED
  BY <1>4, <1>5, <1>6, <1>8, <1>9, <1>10 DEF ActionsInv

LEMMA PullStep == ASSUME ActionsInv, Actions!PullStatus PROVE ActionsInv'
<1>1. /\ requests' = requests \cup {Actions!StatusOf(0)} /\ waiting' = waiting \cup {Actions!StatusOf(0)}
      /\ pulled' \in BOOLEAN
      /\ UNCHANGED <<lastOp, listingOf, row, listed, pending, micro, connected, hub, answers, refreshed>>
  BY DEF Actions!PullStatus, Actions!Send
<1>2. /\ Actions!StatusOf(0) \in Actions!Requests /\ Actions!StatusOf(0).type = "status" /\ \A o \in Actions!Ops : Actions!StatusOf(o) # Actions!StatusOf(0)
  BY AppBoundsAssumption DEF Actions!Requests, Actions!StatusOf, Actions!Ops
<1>3. Shapes'
  BY <1>1, <1>2 DEF ActionsInv, Shapes, Actions!TypeOK
<1>4. VerdictsAreOnce' /\ ReadsAreOfAccepted'
  BY <1>1, <1>2 DEF ActionsInv, VerdictsAreOnce, ReadsAreOfAccepted, Accepted
<1>5. ListingsAreKnown' /\ TasksAreTrue' /\ StatusIsAhead'
  BY <1>1 DEF ActionsInv, ListingsAreKnown, Accepted, TasksAreTrue, StatusIsAhead
<1>6. ListingIsGone' /\ RefreshedIsGone' /\ Actions!OutcomeIsTrue'
  BY <1>1 DEF ActionsInv, ListingIsGone, RefreshedIsGone, Accepted, Actions!OutcomeIsTrue
<1> QED
  BY <1>3, <1>4, <1>5, <1>6 DEF ActionsInv

-----------------------------------------------------------------------------
(* The page.                                                               *)

\* The promise of an operation is resolved: its callback is the last microtask.
LEMMA ResolvedKeeps ==
  ASSUME ActionsInv, micro = <<>>, NEW op \in Actions!Ops, Actions!Resolved(op, "failed")
  PROVE  /\ pending' \subseteq Actions!Ops
         /\ micro' \in Seq(Tasks)
         /\ \A i \in DOMAIN micro' : micro'[i] = Actions!Callback(op, "failed")
         /\ \A o \in pending : o \in pending' \/ \E i \in DOMAIN micro' : micro'[i] = Actions!Callback(o, "failed")
<1>1. Actions!Callback(op, "failed") \in Tasks
  BY DEF Actions!Callback, Tasks
<1>2. CASE op \in pending
  <2>1. pending' = pending \ {op} /\ micro' = <<Actions!Callback(op, "failed")>>
    BY <1>2 DEF Actions!Resolved
  <2> HIDE DEF Actions!Callback
  <2> QED
    BY <1>1, <2>1 DEF ActionsInv, Shapes, Actions!TypeOK
<1>3. CASE op \notin pending
  BY <1>3 DEF Actions!Resolved, ActionsInv, Shapes, Actions!TypeOK
<1> QED
  BY <1>2, <1>3

\* A step that changes neither the Hub nor its lines, and leaves the tasks of one failure.
LEMMA FailureKeeps ==
  ASSUME ActionsInv, micro = <<>>, waiting' \subseteq waiting,
         pending' \subseteq Actions!Ops, micro' \in Seq(Tasks),
         UNCHANGED <<lastOp, listingOf, row, listed, pulled, hub, requests, answers, refreshed>>,
         connected' \in BOOLEAN,
         \A i \in DOMAIN micro' :
           \/ \E op \in Actions!Ops : micro'[i] = Actions!Callback(op, "failed")
           \/ \E op \in Actions!Ops : Accepted(op) /\ micro'[i] = [kind |-> "refresh", op |-> op, ok |-> FALSE],
         \A o \in pending : o \in pending' \/ \E i \in DOMAIN micro' : micro'[i] = Actions!Callback(o, "failed")
  PROVE  ActionsInv'
<1>1. \A i \in DOMAIN micro' :
        \/ \E op \in Actions!Ops : micro'[i].kind = "callback" /\ micro'[i].state = "failed"
        \/ \E op \in Actions!Ops : Accepted(op) /\ micro'[i].kind = "refresh" /\ micro'[i].op = op /\ micro'[i].ok = FALSE
  BY DEF Actions!Callback
<1>2. Shapes'
  BY DEF ActionsInv, Shapes, Actions!TypeOK
<1>3. ListingsAreKnown' /\ VerdictsAreOnce' /\ ReadsAreOfAccepted'
  BY <1>1 DEF ActionsInv, ListingsAreKnown, VerdictsAreOnce, ReadsAreOfAccepted, Accepted
<1>4. TasksAreTrue' /\ StatusIsAhead'
  BY <1>1 DEF TasksAreTrue, StatusIsAhead, Accepted
<1>5. ListingIsGone' /\ RefreshedIsGone'
  BY <1>1 DEF ActionsInv, ListingIsGone, RefreshedIsGone, Accepted
<1>6. Actions!OutcomeIsTrue'
  BY DEF ActionsInv, Actions!OutcomeIsTrue, Actions!Callback
<1> QED
  BY <1>2, <1>3, <1>4, <1>5, <1>6 DEF ActionsInv

LEMMA TimeoutStep == ASSUME ActionsInv, NEW op \in Actions!Ops, Actions!ActionTimeout(op) PROVE ActionsInv'
<1>1. /\ micro = <<>> /\ Actions!Resolved(op, "failed")
      /\ UNCHANGED <<lastOp, listingOf, row, listed, pulled, connected, refreshed, waiting, hub, requests, answers>>
  BY DEF Actions!ActionTimeout, Actions!page
<1>2. connected' \in BOOLEAN
  BY <1>1 DEF ActionsInv, Shapes, Actions!TypeOK
<1> QED
  BY <1>1, <1>2, ResolvedKeeps, FailureKeeps

LEMMA RequestFailsStep == ASSUME ActionsInv, NEW r \in Actions!Requests, Actions!RequestFails(r) PROVE ActionsInv'
<1>1. /\ micro = <<>> /\ r \in waiting /\ waiting' = waiting \ {r}
      /\ UNCHANGED <<lastOp, listingOf, row, listed, pulled, connected, refreshed, hub, requests, answers>>
  BY DEF Actions!RequestFails, Actions!page
<1>2. connected' \in BOOLEAN
  BY <1>1 DEF ActionsInv, Shapes, Actions!TypeOK
<1>3. CASE r.type = "resolve"
  <2>1. r.op \in Actions!Ops /\ Actions!Resolved(r.op, "failed")
    BY <1>3, RequestShapes DEF Actions!RequestFails
  <2> QED
    BY <1>1, <1>2, <2>1, ResolvedKeeps, FailureKeeps
<1>4. CASE r.type = "status"
  <2>1. r.op \in 0 .. MaxOps /\ r = Actions!StatusOf(r.op) /\ micro' = Actions!FailedRead(r.op) /\ pending' = pending
    BY <1>4, RequestShapes DEF Actions!RequestFails
  <2>2. pending' \subseteq Actions!Ops
    BY <2>1 DEF ActionsInv, Shapes, Actions!TypeOK
  <2>3. CASE r.op = 0
    <3>1. micro' = <<>>
      BY <2>1, <2>3 DEF Actions!FailedRead
    <3> QED
      BY <1>1, <1>2, <2>1, <2>2, <3>1, FailureKeeps
  <2>4. CASE r.op # 0
    <3> DEFINE t == [kind |-> "refresh", op |-> r.op, ok |-> FALSE]
    <3>1. r.op \in Actions!Ops /\ Accepted(r.op)
      BY <1>1, <2>1, <2>4, AppBoundsAssumption DEF ActionsInv, ReadsAreOfAccepted, Actions!Ops
    <3>2. t \in Tasks
      BY <3>1 DEF Tasks
    <3>3. micro' = <<t>>
      BY <2>1, <2>4 DEF Actions!FailedRead
    <3>4. \E op \in Actions!Ops : Accepted(op) /\ t = [kind |-> "refresh", op |-> op, ok |-> FALSE]
      BY <3>1
    <3> HIDE DEF t
    <3>5. /\ micro' \in Seq(Tasks)
          /\ \A i \in DOMAIN micro' : micro'[i] = t
      BY <3>2, <3>3
    <3> QED
      BY <1>1, <1>2, <2>1, <2>2, <3>4, <3>5, FailureKeeps
  <2> QED
    BY <2>3, <2>4
<1> QED
  BY <1>3, <1>4, RequestShapes

\* SetToSeq puts every element of a finite set in line.
LEMMA SetToSeqIsOnto ==
  ASSUME NEW S, IsFiniteSet(S)
  PROVE  Actions!SetToSeq(S) \in Seq(S) /\ \A x \in S : \E i \in DOMAIN Actions!SetToSeq(S) : Actions!SetToSeq(S)[i] = x
<1> DEFINE n == Cardinality(S)
<1>1. n \in Nat /\ ExistsBijection(1 .. n, S) /\ Actions!Cardinality(S) = n
  BY FS_CardinalityType DEF Actions!Cardinality, Cardinality
<1>2. PICK f \in [1 .. n -> S] : IsInjective(f)
  BY <1>1 DEF ExistsBijection, Bijection, Injection
<1>3. Actions!SetToSeq(S) \in [1 .. n -> S] /\ IsInjective(Actions!SetToSeq(S))
  <2>1. \A h : Actions!IsInjective(h) <=> IsInjective(h)
    BY DEF Actions!IsInjective, IsInjective
  <2> QED
    BY <1>1, <1>2, <2>1 DEF Actions!SetToSeq
<1> DEFINE g == Actions!SetToSeq(S)
<1> HIDE DEF g
<1>4. g \in Injection(1 .. n, S)
  BY <1>3 DEF Injection, g
<1>5. IsFiniteSet(1 .. n) /\ Cardinality(1 .. n) = n
  BY <1>1, FS_Interval
<1>6. g \in Surjection(1 .. n, S)
  BY <1>4, <1>5, FS_Injection
<1>7. \A x \in S : \E i \in 1 .. n : g[i] = x
  BY <1>6 DEF Surjection
<1>8. g \in Seq(S) /\ DOMAIN g = 1 .. n
  BY <1>1, <1>3 DEF g
<1> QED
  BY <1>7, <1>8 DEF g

LEMMA UnmountStep == ASSUME ActionsInv, Actions!Unmount PROVE ActionsInv'
<1> DEFINE S == {Actions!Callback(op, "failed") : op \in pending}
<1>1. /\ micro = <<>> /\ connected' = FALSE /\ pending' = {} /\ micro' = Actions!SetToSeq(S)
      /\ UNCHANGED <<lastOp, listingOf, row, listed, waiting, pulled, hub, requests, answers, refreshed>>
  BY DEF Actions!Unmount
<1>2. IsFiniteSet(pending)
  <2>1. IsFiniteSet(Actions!Ops)
    BY FS_Interval, AppBoundsAssumption DEF Actions!Ops
  <2>2. pending \in SUBSET Actions!Ops
    BY DEF ActionsInv, Shapes, Actions!TypeOK
  <2> QED
    BY <2>1, <2>2, FS_Subset
<1>3. IsFiniteSet(S)
  <2> DEFINE f == [op \in pending |-> Actions!Callback(op, "failed")]
  <2>1. f \in Surjection(pending, S)
    BY DEF Surjection
  <2> HIDE DEF f, S
  <2> QED
    BY <1>2, <2>1, FS_Surjection
<1>4. micro' \in Seq(S) /\ \A x \in S : \E i \in DOMAIN micro' : micro'[i] = x
  BY <1>1, <1>3, SetToSeqIsOnto
<1>5. \A x \in S : x \in Tasks /\ \E op \in Actions!Ops : x = Actions!Callback(op, "failed")
  BY DEF ActionsInv, Shapes, Actions!TypeOK, Tasks, Actions!Callback
<1>6. \A op \in pending : Actions!Callback(op, "failed") \in S
  OBVIOUS
<1> HIDE DEF S
<1>7. micro' \in Seq(Tasks) /\ \A i \in DOMAIN micro' : micro'[i] \in S
  BY <1>4, <1>5
<1> QED
  BY <1>1, <1>4, <1>5, <1>6, <1>7, FailureKeeps DEF Actions!Ops

\* An answer that reaches the page, whichever it is; the others stay under way.
LEMMA AnswerStep == ASSUME ActionsInv, NEW a \in answers, Actions!AnswerArrives(a) PROVE ActionsInv'
<1> DEFINE r == [type |-> a.type, op |-> a.op]
<1>1. /\ micro = <<>> /\ answers' = answers \ {a}
      /\ UNCHANGED <<lastOp, listingOf, row, listed, pulled, connected, refreshed, pending, hub>>
  BY DEF Actions!AnswerArrives, Actions!page
<1>2. a \in Answers
  BY DEF ActionsInv, Shapes
<1>3. /\ a.listing <= hub.listings /\ a.listing \in 0 .. MaxListings /\ a.op \in 0 .. MaxOps /\ a.ok \in BOOLEAN
      /\ a.type \in {"resolve", "status"}
      /\ a.type = "resolve" => /\ a.op \in Actions!Ops
                              /\ hub.verdict[a.op] = IF a.ok THEN "accepted" ELSE "refused"
      /\ a.type = "status" /\ a.op \in Actions!Ops => Accepted(a.op) /\ a.listing # listingOf[a.op]
  BY <1>2 DEF ActionsInv, ListingsAreKnown, VerdictsAreOnce, ReadsAreOfAccepted, Answers
<1>4. \/ UNCHANGED <<micro, waiting, requests>>
      \/ /\ a.type = "status"
         /\ micro' = IF a.ok THEN Actions!StatusFrames(a.op, a.listing) ELSE Actions!FailedRead(a.op)
         /\ waiting' = waiting \ {r} /\ requests' = requests
      \/ /\ a.type = "resolve"
         /\ micro' = <<[kind |-> "result", op |-> a.op, ok |-> a.ok]>>
         /\ waiting' = (waiting \ {r}) \cup (IF a.ok THEN {Actions!StatusOf(a.op)} ELSE {})
         /\ requests' = requests \cup (IF a.ok THEN {Actions!StatusOf(a.op)} ELSE {})
  BY <1>3 DEF Actions!AnswerArrives
<1> HIDE DEF r
<1>5. \/ waiting' \subseteq waiting /\ requests' = requests
      \/ /\ a.type = "resolve" /\ a.ok
         /\ waiting' \subseteq waiting \cup {Actions!StatusOf(a.op)} /\ requests' = requests \cup {Actions!StatusOf(a.op)}
  BY <1>4
<1>6. /\ micro' \in Seq(Tasks)
      /\ \A i \in DOMAIN micro' :
           \/ /\ micro'[i].kind = "result" /\ a.type = "resolve"
              /\ micro'[i].op = a.op /\ micro'[i].ok = a.ok
           \/ /\ micro'[i].kind = "status" /\ a.type = "status" /\ micro'[i].listing = a.listing
           \/ /\ micro'[i].kind = "refresh" /\ a.type = "status"
              /\ micro'[i].op = a.op /\ a.op \in Actions!Ops
              /\ micro'[i].ok => i = 2 /\ 1 \in DOMAIN micro' /\ micro'[1].kind = "status" /\ micro'[1].listing = a.listing
  <2>1. CASE micro' = micro
    BY <1>1, <2>1
  <2>2. CASE /\ a.type = "resolve" /\ micro' = <<[kind |-> "result", op |-> a.op, ok |-> a.ok]>>
    <3>1. [kind |-> "result", op |-> a.op, ok |-> a.ok] \in Tasks
      BY <1>3, <2>2 DEF Tasks
    <3> QED
      BY <2>2, <3>1
  <2>3. CASE /\ a.type = "status"
             /\ micro' = IF a.ok THEN Actions!StatusFrames(a.op, a.listing) ELSE Actions!FailedRead(a.op)
    <3> DEFINE s == [kind |-> "status", listing |-> a.listing]
               good == [kind |-> "refresh", op |-> a.op, ok |-> TRUE]
               bad == [kind |-> "refresh", op |-> a.op, ok |-> FALSE]
    <3>1. s \in Tasks
      BY <1>3 DEF Tasks
    <3>2. a.op # 0 => a.op \in Actions!Ops
      BY <1>3, AppBoundsAssumption DEF Actions!Ops
    <3>3. a.op # 0 => good \in Tasks /\ bad \in Tasks
      BY <3>2 DEF Tasks
    <3>4. /\ s.kind = "status" /\ s.listing = a.listing
          /\ good.kind = "refresh" /\ good.op = a.op
          /\ bad.kind = "refresh" /\ bad.op = a.op /\ ~bad.ok
      OBVIOUS
    <3>5. /\ a.ok /\ a.op = 0 => micro' = <<s>> \o <<>>
          /\ a.ok /\ a.op # 0 => micro' = <<s>> \o <<good>>
          /\ ~a.ok /\ a.op = 0 => micro' = <<>>
          /\ ~a.ok /\ a.op # 0 => micro' = <<bad>>
      BY <2>3 DEF Actions!StatusFrames, Actions!FailedRead
    <3> HIDE DEF s, good, bad
    <3>6. CASE a.ok /\ a.op # 0
      <4>1. micro' = <<s>> \o <<good>>
        BY <3>5, <3>6
      <4>2. micro' \in Seq(Tasks) /\ DOMAIN micro' = 1 .. 2 /\ micro'[1] = s /\ micro'[2] = good
        BY <3>1, <3>3, <3>6, <4>1, TwoInLine
      <4>3. \A i \in DOMAIN micro' : i = 1 \/ i = 2
        BY <4>2
      <4>4. 1 \in DOMAIN micro'
        BY <4>2
      <4> QED
        BY <2>3, <3>2, <3>4, <3>6, <4>2, <4>3, <4>4
    <3>7. CASE a.ok /\ a.op = 0
      <4>1. micro' = <<s>>
        BY <3>5, <3>7
      <4>2. micro' \in Seq(Tasks) /\ \A i \in DOMAIN micro' : micro'[i] = s
        BY <3>1, <4>1
      <4> QED
        BY <2>3, <3>4, <4>2
    <3>8. CASE ~a.ok /\ a.op = 0
      <4>1. micro' = <<>>
        BY <3>5, <3>8
      <4> QED
        BY <4>1
    <3>9. CASE ~a.ok /\ a.op # 0
      <4>1. micro' = <<bad>> /\ bad \in Tasks
        BY <3>3, <3>5, <3>9
      <4>2. micro' \in Seq(Tasks) /\ \A i \in DOMAIN micro' : micro'[i] = bad
        BY <4>1
      <4> QED
        BY <2>3, <3>2, <3>4, <3>9, <4>2
    <3> QED
      BY <3>6, <3>7, <3>8, <3>9
  <2> QED
    BY <1>4, <2>1, <2>2, <2>3
<1>7. a.type = "resolve" /\ a.ok => /\ Accepted(a.op)
                                    /\ Actions!StatusOf(a.op) \in Actions!Requests
                                    /\ Actions!StatusOf(a.op).type = "status"
                                    /\ Actions!StatusOf(a.op).op = a.op
  BY <1>3, RequestShapes DEF Accepted
<1>8. Shapes'
  BY <1>1, <1>5, <1>6, <1>7 DEF ActionsInv, Shapes, Actions!TypeOK
<1>9. ListingsAreKnown'
  BY <1>1, <1>3, <1>6 DEF ActionsInv, ListingsAreKnown
<1>10. VerdictsAreOnce'
  BY <1>1, <1>5, <1>7 DEF ActionsInv, VerdictsAreOnce
<1>11. ReadsAreOfAccepted'
  <2>1. ASSUME NEW op \in Actions!Ops, Actions!StatusOf(op) \in waiting' \cup requests'
        PROVE  Accepted(op)
    <3>1. Actions!StatusOf(op) \in waiting \cup requests \/ (a.type = "resolve" /\ a.ok /\ Actions!StatusOf(op) = Actions!StatusOf(a.op))
      BY <1>5, <2>1
    <3>2. Actions!StatusOf(op).op = op
      BY RequestShapes
    <3> QED
      BY <1>7, <3>1, <3>2 DEF ActionsInv, ReadsAreOfAccepted
  <2> QED
    BY <1>1, <2>1 DEF ActionsInv, ReadsAreOfAccepted, Accepted
<1>12. TasksAreTrue'
  <2> SUFFICES ASSUME NEW i \in DOMAIN micro'
               PROVE  /\ micro'[i].kind = "result" =>
                           hub.verdict[micro'[i].op] = IF micro'[i].ok THEN "accepted" ELSE "refused"
                      /\ micro'[i].kind # "callback"
                      /\ micro'[i].kind = "refresh" => Accepted(micro'[i].op)
    BY <1>1 DEF TasksAreTrue, Accepted
  <2> QED
    BY <1>3, <1>6
<1>13. StatusIsAhead'
  <2> SUFFICES ASSUME NEW i \in DOMAIN micro', micro'[i].kind = "refresh", micro'[i].ok
               PROVE  i = 2 /\ micro'[1].kind = "status" /\ micro'[1].listing # listingOf[micro'[i].op]
    BY <1>1 DEF StatusIsAhead
  <2> QED
    BY <1>3, <1>6
<1>14. ListingIsGone' /\ RefreshedIsGone' /\ Actions!OutcomeIsTrue'
  <2>1. Actions!OutcomeIsTrue'
    <3>1. row.state = "pending" /\ row # Actions!NoRow => row.op \in pending
      BY <1>1 DEF ActionsInv, Actions!OutcomeIsTrue
    <3> QED
      BY <1>1, <3>1 DEF ActionsInv, Actions!OutcomeIsTrue
  <2> QED
    BY <1>1, <2>1 DEF ActionsInv, ListingIsGone, RefreshedIsGone, Accepted
<1> QED
  BY <1>8, <1>9, <1>10, <1>11, <1>12, <1>13, <1>14 DEF ActionsInv

-----------------------------------------------------------------------------
(* Microtasks.                                                             *)

\* A callback that says what the Hub decided.
TrueCallback(t) ==
  /\ t \in Tasks /\ t.kind = "callback"
  /\ t.state = "refreshing" => hub.verdict[t.op] = "accepted"
  /\ t.state = "refused" => hub.verdict[t.op] = "refused"

\* A microtask is taken; the others stay in line, and a callback may join them.
LEMMA TaskTaken ==
  ASSUME ActionsInv, micro # <<>>, NEW added,
         micro' = Tail(micro) \/ (TrueCallback(added) /\ micro' = Append(Tail(micro), added)),
         UNCHANGED <<lastOp, listingOf, waiting, pulled, connected, hub, requests, answers>>
  PROVE  /\ micro' \in Seq(Tasks) /\ Head(micro) = micro[1] /\ Head(micro) \in Tasks /\ 1 \in DOMAIN micro
         /\ \A i \in DOMAIN micro' :
              \/ i + 1 \in DOMAIN micro /\ micro'[i] = micro[i + 1] /\ i \in Nat
              \/ TrueCallback(added) /\ micro'[i] = added
         /\ \A i \in DOMAIN micro : i # 1 => i - 1 \in DOMAIN micro' /\ micro[i] = micro'[i - 1]
         /\ VerdictsAreOnce' /\ ReadsAreOfAccepted' /\ TasksAreTrue' /\ ListingIsGone'
         /\ RefreshedIsGone' <=> (\A k \in refreshed' : Accepted(k.op) /\ k.listing # listingOf[k.op])
         /\ \A i \in DOMAIN micro' : micro'[i].kind = "status" => micro'[i].listing <= hub.listings
<1> DEFINE rest == Tail(micro)
<1>1. /\ rest \in Seq(Tasks) /\ Head(micro) = micro[1] /\ Head(micro) \in Tasks /\ 1 \in DOMAIN micro
      /\ \A i \in DOMAIN rest : i + 1 \in DOMAIN micro /\ rest[i] = micro[i + 1] /\ i \in Nat
      /\ \A i \in DOMAIN micro : i # 1 => i - 1 \in DOMAIN rest /\ micro[i] = rest[i - 1]
  BY TailOfLine DEF ActionsInv, Shapes
<1>2. /\ micro' \in Seq(Tasks)
      /\ \A i \in DOMAIN micro' : (i \in DOMAIN rest /\ micro'[i] = rest[i]) \/ (TrueCallback(added) /\ micro'[i] = added)
      /\ \A i \in DOMAIN rest : i \in DOMAIN micro' /\ micro'[i] = rest[i]
  <2>1. CASE micro' = rest
    BY <1>1, <2>1
  <2>2. CASE TrueCallback(added) /\ micro' = Append(rest, added)
    <3>1. added \in Tasks
      BY <2>2 DEF TrueCallback
    <3> HIDE DEF rest
    <3> QED
      BY <1>1, <2>2, <3>1, LineGrows
  <2> QED
    BY <2>1, <2>2
<1> HIDE DEF rest
<1>3. \A i \in DOMAIN micro' :
        (i + 1 \in DOMAIN micro /\ micro'[i] = micro[i + 1] /\ i \in Nat) \/ (TrueCallback(added) /\ micro'[i] = added)
  BY <1>1, <1>2
<1>4. \A i \in DOMAIN micro : i # 1 => i - 1 \in DOMAIN micro' /\ micro[i] = micro'[i - 1]
  BY <1>1, <1>2
<1>5. /\ VerdictsAreOnce' /\ ReadsAreOfAccepted'
      /\ RefreshedIsGone' <=> (\A k \in refreshed' : Accepted(k.op) /\ k.listing # listingOf[k.op])
  BY DEF ActionsInv, VerdictsAreOnce, ReadsAreOfAccepted, RefreshedIsGone, Accepted
<1>6. TasksAreTrue'
  <2> SUFFICES ASSUME NEW i \in DOMAIN micro'
               PROVE  /\ micro'[i].kind = "result" =>
                           hub.verdict[micro'[i].op] = IF micro'[i].ok THEN "accepted" ELSE "refused"
                      /\ micro'[i].kind = "callback" =>
                           /\ micro'[i].state = "refreshing" => hub.verdict[micro'[i].op] = "accepted"
                           /\ micro'[i].state = "refused" => hub.verdict[micro'[i].op] = "refused"
                      /\ micro'[i].kind = "refresh" => Accepted(micro'[i].op)
    BY DEF TasksAreTrue, Accepted
  <2>1. CASE TrueCallback(added) /\ micro'[i] = added
    BY <2>1 DEF TrueCallback
  <2>2. CASE i + 1 \in DOMAIN micro /\ micro'[i] = micro[i + 1]
    BY <2>2 DEF ActionsInv, TasksAreTrue
  <2> QED
    BY <1>3, <2>1, <2>2
<1>7. /\ ListingIsGone'
      /\ \A i \in DOMAIN micro' : micro'[i].kind = "status" => micro'[i].listing <= hub.listings
  BY <1>3 DEF ActionsInv, ListingIsGone, Accepted, ListingsAreKnown, TrueCallback
<1> QED
  BY <1>1, <1>2, <1>3, <1>4, <1>5, <1>6, <1>7

\* Such a step keeps the order of statuses and refreshes when the task taken is no status,
\* and the row when the task is no callback of its own.
LEMMA TaskKeepsOrder ==
  ASSUME ActionsInv, micro # <<>>, NEW added,
         micro' = Tail(micro) \/ (TrueCallback(added) /\ micro' = Append(Tail(micro), added)),
         UNCHANGED <<lastOp, listingOf, waiting, pulled, connected, hub, requests, answers>>,
         connected => Head(micro).kind # "status", listed' = listed
  PROVE  StatusIsAhead'
<1> SUFFICES ASSUME NEW i \in DOMAIN micro', micro'[i].kind = "refresh", micro'[i].ok
             PROVE  i = 1 /\ (connected => listed # listingOf[micro'[i].op])
  BY DEF StatusIsAhead
<1>1. i + 1 \in DOMAIN micro /\ micro'[i] = micro[i + 1] /\ i \in Nat
  BY TaskTaken DEF TrueCallback
<1>2. i # 0
  <2>1. micro' \in Seq(Tasks)
    BY TaskTaken
  <2> QED
    BY <2>1
<1>3. i = 1 /\ micro[1].kind = "status"
  BY <1>1, <1>2 DEF ActionsInv, StatusIsAhead
<1>4. Head(micro) = micro[1]
  BY TaskTaken
<1> QED
  BY <1>3, <1>4

LEMMA TaskKeepsRow ==
  ASSUME ActionsInv, micro # <<>>, NEW added,
         micro' = Tail(micro) \/ (TrueCallback(added) /\ micro' = Append(Tail(micro), added)),
         UNCHANGED <<lastOp, listingOf, waiting, pulled, connected, hub, requests, answers>>,
         row' = row,
         row.state = "pending" /\ Head(micro).kind = "callback" => Head(micro).op # row.op,
         \A op \in pending : op \in pending' \/ \E i \in DOMAIN micro' : micro'[i].kind = "callback" /\ micro'[i].op = op
  PROVE  Actions!OutcomeIsTrue'
<1>1. ASSUME NEW i \in DOMAIN micro, row.state = "pending", micro[i].kind = "callback", micro[i].op = row.op
      PROVE  \E j \in DOMAIN micro' : micro'[j].kind = "callback" /\ micro'[j].op = row.op
  <2>1. Head(micro) = micro[1] /\ \A k \in DOMAIN micro : k # 1 => k - 1 \in DOMAIN micro' /\ micro[k] = micro'[k - 1]
    BY TaskTaken
  <2>2. i # 1
    BY <1>1, <2>1
  <2> QED
    BY <1>1, <2>1, <2>2
<1> QED
  BY <1>1 DEF ActionsInv, Actions!OutcomeIsTrue

\* The row of a task that is run.
LEMMA TaskOfOp ==
  ASSUME NEW t \in Tasks
  PROVE  /\ t.kind \in {"callback", "result", "refresh", "status"}
         /\ t.kind # "status" => t.op \in Actions!Ops
         /\ t.kind = "callback" => t.state \in {"failed", "refreshing", "refused"}
         /\ t.kind \in {"result", "refresh"} => t.ok \in BOOLEAN
         /\ t.kind = "status" => t.listing \in 0 .. MaxListings
  BY DEF Tasks

LEMMA CallbackStep ==
  ASSUME ActionsInv, Actions!Microtask, Head(micro).kind = "callback"
  PROVE  ActionsInv'
<1> DEFINE t == Head(micro)
<1>1. /\ micro # <<>> /\ row' = Actions!SettledByResult(t.op, t.state) /\ micro' = Tail(micro)
      /\ UNCHANGED <<listed, pending, refreshed>>
      /\ UNCHANGED <<lastOp, listingOf, waiting, pulled, connected, hub, requests, answers>>
  BY DEF Actions!Microtask, Actions!RunCallback
<1>2. /\ micro' \in Seq(Tasks) /\ t = micro[1] /\ t \in Tasks /\ 1 \in DOMAIN micro
      /\ \A i \in DOMAIN micro : i # 1 => i - 1 \in DOMAIN micro' /\ micro[i] = micro'[i - 1]
      /\ VerdictsAreOnce' /\ ReadsAreOfAccepted' /\ TasksAreTrue' /\ ListingIsGone'
      /\ RefreshedIsGone' <=> (\A k \in refreshed' : Accepted(k.op) /\ k.listing # listingOf[k.op])
      /\ \A i \in DOMAIN micro' : micro'[i].kind = "status" => micro'[i].listing <= hub.listings
  BY <1>1, TaskTaken
<1>3. t.op \in Actions!Ops /\ t.state \in {"failed", "refreshing", "refused"}
  BY <1>2, TaskOfOp
<1>4. StatusIsAhead'
  BY <1>1, TaskKeepsOrder
<1> HIDE DEF t
<1>5. row' \in Actions!Rows
  BY <1>1, <1>3 DEF ActionsInv, Shapes, Actions!TypeOK, Actions!SettledByResult, Actions!Rows, Actions!RowStates
<1>6. Shapes'
  BY <1>1, <1>2, <1>5 DEF ActionsInv, Shapes, Actions!TypeOK
<1>7. ListingsAreKnown' /\ RefreshedIsGone'
  BY <1>1, <1>2 DEF ActionsInv, Shapes, Actions!TypeOK, ListingsAreKnown, RefreshedIsGone
<1>8. Actions!OutcomeIsTrue'
  <2>1. CASE row.op = t.op /\ row.state = "pending"
    <3>1. row' = [row EXCEPT !.state = t.state]
      BY <1>1, <2>1 DEF Actions!SettledByResult
    <3>2. row'.op = row.op /\ row'.state = t.state /\ row # Actions!NoRow
      BY <1>3, <2>1, <3>1 DEF ActionsInv, Shapes, Actions!TypeOK, Actions!Rows, Actions!NoRow, Actions!Ops
    <3>3. /\ t.state = "refreshing" => hub.verdict[t.op] = "accepted"
          /\ t.state = "refused" => hub.verdict[t.op] = "refused"
      <4>1. micro[1].kind = "callback"
        BY <1>2 DEF t
      <4> QED
        BY <1>2, <4>1 DEF ActionsInv, TasksAreTrue
    <3> QED
      BY <1>1, <1>3, <2>1, <3>2, <3>3 DEF ActionsInv, Actions!OutcomeIsTrue
  <2>2. CASE ~(row.op = t.op /\ row.state = "pending")
    <3>1. row' = row
      BY <1>1, <2>2 DEF Actions!SettledByResult
    <3> QED
      BY <1>1, <2>2, <3>1, TaskKeepsRow DEF t
  <2> QED
    BY <2>1, <2>2
<1> QED
  BY <1>2, <1>4, <1>6, <1>7, <1>8 DEF ActionsInv

LEMMA ResultStep ==
  ASSUME ActionsInv, micro # <<>>, Head(micro).kind = "result", Actions!DeliverResult(Head(micro)),
         UNCHANGED <<lastOp, listingOf, waiting, pulled, connected, hub, requests, answers>>
  PROVE  ActionsInv'
<1> DEFINE t == Head(micro)
           c == Actions!Callback(t.op, IF t.ok THEN "refreshing" ELSE "refused")
<1>1. t \in Tasks /\ t = micro[1] /\ 1 \in DOMAIN micro
  BY TailOfLine DEF ActionsInv, Shapes
<1>2. t.op \in Actions!Ops /\ t.ok \in BOOLEAN
  BY <1>1, TaskOfOp
<1>3. hub.verdict[t.op] = IF t.ok THEN "accepted" ELSE "refused"
  BY <1>1 DEF ActionsInv, TasksAreTrue
<1>4. \/ t.op \in pending /\ pending' = pending \ {t.op} /\ micro' = Append(Tail(micro), c)
      \/ pending' = pending /\ micro' = Tail(micro)
  BY DEF Actions!DeliverResult
<1>5. row' = row /\ listed' = listed /\ refreshed' = refreshed
  BY DEF Actions!DeliverResult
<1>6. TrueCallback(c) /\ c.op = t.op
  <2>1. c \in Tasks
    BY <1>2 DEF Actions!Callback, Tasks
  <2>2. c.kind = "callback" /\ c.op = t.op /\ c.state = IF t.ok THEN "refreshing" ELSE "refused"
    BY DEF Actions!Callback
  <2> HIDE DEF c, t
  <2> QED
    BY <1>2, <1>3, <2>1, <2>2 DEF TrueCallback
<1>7. micro' = Append(Tail(micro), c) => \E i \in DOMAIN micro' : micro'[i].kind = "callback" /\ micro'[i].op = t.op
  <2>1. Tail(micro) \in Seq(Tasks) /\ c \in Tasks /\ c.kind = "callback"
    BY <1>6 DEF TrueCallback, ActionsInv, Shapes
  <2> HIDE DEF c, t
  <2> QED
    BY <1>6, <2>1, LineGrows
<1> HIDE DEF t, c
<1>8. micro' = Tail(micro) \/ (TrueCallback(c) /\ micro' = Append(Tail(micro), c))
  BY <1>4, <1>6
<1>9. Head(micro).kind # "status" /\ Head(micro).kind # "callback"
  OBVIOUS
<1>10. /\ micro' \in Seq(Tasks)
       /\ VerdictsAreOnce' /\ ReadsAreOfAccepted' /\ TasksAreTrue' /\ ListingIsGone'
       /\ RefreshedIsGone' <=> (\A k \in refreshed' : Accepted(k.op) /\ k.listing # listingOf[k.op])
       /\ \A i \in DOMAIN micro' : micro'[i].kind = "status" => micro'[i].listing <= hub.listings
  BY <1>8, TaskTaken
<1>11. StatusIsAhead'
  BY <1>5, <1>8, <1>9, TaskKeepsOrder
<1>12. Actions!OutcomeIsTrue'
  <2>1. \A op \in pending : op \in pending' \/ \E i \in DOMAIN micro' : micro'[i].kind = "callback" /\ micro'[i].op = op
    BY <1>4, <1>7
  <2> QED
    BY <1>5, <1>8, <1>9, <2>1, TaskKeepsRow
<1>13. Shapes'
  BY <1>4, <1>5, <1>10 DEF ActionsInv, Shapes, Actions!TypeOK
<1>14. ListingsAreKnown' /\ RefreshedIsGone'
  BY <1>5, <1>10 DEF ActionsInv, Shapes, Actions!TypeOK, ListingsAreKnown, RefreshedIsGone
<1> QED
  BY <1>10, <1>11, <1>12, <1>13, <1>14 DEF ActionsInv

\* A frame that no page receives.
LEMMA DropStep ==
  ASSUME ActionsInv, micro # <<>>, Head(micro).kind # "callback", ~connected, micro' = Tail(micro),
         UNCHANGED <<row, listed, pending, refreshed>>,
         UNCHANGED <<lastOp, listingOf, waiting, pulled, connected, hub, requests, answers>>
  PROVE  ActionsInv'
<1>1. /\ micro' \in Seq(Tasks)
      /\ VerdictsAreOnce' /\ ReadsAreOfAccepted' /\ TasksAreTrue' /\ ListingIsGone'
      /\ RefreshedIsGone' <=> (\A k \in refreshed' : Accepted(k.op) /\ k.listing # listingOf[k.op])
      /\ \A i \in DOMAIN micro' : micro'[i].kind = "status" => micro'[i].listing <= hub.listings
  BY TaskTaken
<1>2. StatusIsAhead' /\ Actions!OutcomeIsTrue'
  BY TaskKeepsOrder, TaskKeepsRow
<1>3. Shapes'
  BY <1>1 DEF ActionsInv, Shapes, Actions!TypeOK
<1>4. ListingsAreKnown' /\ RefreshedIsGone'
  BY <1>1 DEF ActionsInv, Shapes, Actions!TypeOK, ListingsAreKnown, RefreshedIsGone
<1> QED
  BY <1>1, <1>2, <1>3, <1>4 DEF ActionsInv

\* A status replaces the list, whichever read it answers: with the word of a clean read
\* behind it, it is that read, without the listing of the operation.
LEMMA StatusStep ==
  ASSUME ActionsInv, micro # <<>>, Head(micro).kind = "status", Actions!DeliverStatus(Head(micro)),
         UNCHANGED <<lastOp, listingOf, waiting, pulled, connected, hub, requests, answers>>
  PROVE  ActionsInv'
<1> DEFINE t == Head(micro)
<1>1. listed' = t.listing /\ micro' = Tail(micro) /\ row' = row /\ pending' = pending /\ refreshed' = refreshed
  BY DEF Actions!DeliverStatus
<1>2. /\ micro' \in Seq(Tasks) /\ t = micro[1] /\ t \in Tasks /\ 1 \in DOMAIN micro
      /\ \A i \in DOMAIN micro' : (i + 1 \in DOMAIN micro /\ micro'[i] = micro[i + 1] /\ i \in Nat)
                                 \/ (TrueCallback(0) /\ micro'[i] = 0)
      /\ VerdictsAreOnce' /\ ReadsAreOfAccepted' /\ TasksAreTrue' /\ ListingIsGone'
      /\ RefreshedIsGone' <=> (\A k \in refreshed' : Accepted(k.op) /\ k.listing # listingOf[k.op])
      /\ \A i \in DOMAIN micro' : micro'[i].kind = "status" => micro'[i].listing <= hub.listings
  BY <1>1, TaskTaken
<1>3. t.listing \in 0 .. MaxListings /\ t.listing <= hub.listings
  BY <1>2, TaskOfOp DEF ActionsInv, ListingsAreKnown
<1>5. Actions!OutcomeIsTrue'
  BY <1>1, TaskKeepsRow
<1> HIDE DEF t
<1>6. Shapes'
  BY <1>1, <1>2, <1>3 DEF ActionsInv, Shapes, Actions!TypeOK
<1>7. ListingsAreKnown'
  BY <1>1, <1>2, <1>3 DEF ActionsInv, ListingsAreKnown
<1>8. RefreshedIsGone'
  BY <1>1, <1>2 DEF ActionsInv, RefreshedIsGone
<1>9. StatusIsAhead'
  <2> SUFFICES ASSUME NEW i \in DOMAIN micro', micro'[i].kind = "refresh", micro'[i].ok
               PROVE  i = 1 /\ listed' # listingOf[micro'[i].op]
    BY DEF StatusIsAhead
  <2>1. i + 1 \in DOMAIN micro /\ micro'[i] = micro[i + 1] /\ i \in Nat /\ i # 0
    BY <1>2 DEF TrueCallback
  <2>2. i = 1 /\ micro[1].listing # listingOf[micro[i + 1].op]
    BY <2>1 DEF ActionsInv, StatusIsAhead
  <2> QED
    BY <1>1, <1>2, <2>1, <2>2
<1> QED
  BY <1>2, <1>5, <1>6, <1>7, <1>8, <1>9 DEF ActionsInv

\* The word that the list was read again.
LEMMA RefreshStep ==
  ASSUME ActionsInv, micro # <<>>, connected, Head(micro).kind = "refresh", Actions!DeliverRefresh(Head(micro)),
         UNCHANGED <<lastOp, listingOf, waiting, pulled, connected, hub, requests, answers>>
  PROVE  ActionsInv'
<1> DEFINE t == Head(micro)
<1>1. /\ row' = Actions!SettledByRefresh(t.op, t.ok) /\ refreshed' = (IF t.ok THEN refreshed \cup {[op |-> t.op, listing |-> listed]} ELSE refreshed)
      /\ micro' = Tail(micro) /\ listed' = listed /\ pending' = pending
  BY DEF Actions!DeliverRefresh
<1>2. /\ micro' \in Seq(Tasks) /\ t = micro[1] /\ t \in Tasks /\ 1 \in DOMAIN micro
      /\ VerdictsAreOnce' /\ ReadsAreOfAccepted' /\ TasksAreTrue' /\ ListingIsGone'
      /\ RefreshedIsGone' <=> (\A k \in refreshed' : Accepted(k.op) /\ k.listing # listingOf[k.op])
      /\ \A i \in DOMAIN micro' : micro'[i].kind = "status" => micro'[i].listing <= hub.listings
  BY <1>1, TaskTaken
<1>3. t.op \in Actions!Ops /\ t.ok \in BOOLEAN
  BY <1>2, TaskOfOp
<1>4. Accepted(t.op)
  BY <1>2 DEF ActionsInv, TasksAreTrue
<1>5. t.ok => listed # listingOf[t.op]
  BY <1>2 DEF ActionsInv, StatusIsAhead
<1>6. StatusIsAhead'
  BY <1>1, TaskKeepsOrder
<1>7. Head(micro).kind # "callback"
  OBVIOUS
<1>8. row' = row => Actions!OutcomeIsTrue'
  BY <1>1, <1>7, TaskKeepsRow
<1> HIDE DEF t
<1>9. row' \in {row, Actions!NoRow, [row EXCEPT !.state = "resolved_stale"]}
      /\ (row' # row /\ row' # Actions!NoRow => row.op = t.op /\ row.state \in {"pending", "refreshing"})
  BY <1>1 DEF Actions!SettledByRefresh
<1>10. Actions!NoRow \in Actions!Rows /\ [row EXCEPT !.state = "resolved_stale"] \in Actions!Rows
  <2>1. Actions!NoRow \in Actions!Rows
    BY AppBoundsAssumption DEF Actions!Rows, Actions!RowStates, Actions!NoRow
  <2>2. row \in Actions!Rows
    BY DEF ActionsInv, Shapes, Actions!TypeOK
  <2>3. "resolved_stale" \in Actions!RowStates
    BY DEF Actions!RowStates
  <2>4. [row EXCEPT !.state = "resolved_stale"] \in Actions!Rows
    BY <2>2, <2>3 DEF Actions!Rows
  <2> QED
    BY <2>1, <2>4
<1>11. Shapes'
  BY <1>1, <1>2, <1>3, <1>9, <1>10 DEF ActionsInv, Shapes, Actions!TypeOK
<1>12. ListingsAreKnown'
  BY <1>1, <1>2 DEF ActionsInv, ListingsAreKnown
<1>13. RefreshedIsGone'
  <2> DEFINE c == [op |-> t.op, listing |-> listed]
  <2>1. c.op = t.op /\ c.listing = listed /\ refreshed' = IF t.ok THEN refreshed \cup {c} ELSE refreshed
    BY <1>1
  <2> HIDE DEF c
  <2> QED
    BY <1>2, <1>4, <1>5, <2>1 DEF ActionsInv, RefreshedIsGone
<1>14. Actions!OutcomeIsTrue'
  <2>1. CASE row' = Actions!NoRow
    BY <2>1 DEF Actions!OutcomeIsTrue, Actions!NoRow
  <2>2. CASE row' # row /\ row' # Actions!NoRow
    <3>1. row' = [row EXCEPT !.state = "resolved_stale"] /\ row.op = t.op /\ row.state \in {"pending", "refreshing"}
      BY <1>9, <2>2
    <3>2. row # Actions!NoRow /\ row'.op = row.op /\ row'.state = "resolved_stale"
      BY <3>1 DEF ActionsInv, Shapes, Actions!TypeOK, Actions!Rows, Actions!NoRow
    <3> QED
      BY <1>4, <3>1, <3>2 DEF ActionsInv, Actions!OutcomeIsTrue, Accepted
  <2> QED
    BY <1>8, <2>1, <2>2
<1> QED
  BY <1>2, <1>6, <1>11, <1>12, <1>13, <1>14 DEF ActionsInv

LEMMA MicrotaskStep == ASSUME ActionsInv, Actions!Microtask PROVE ActionsInv'
<1>1. CASE Head(micro).kind = "callback"
  BY <1>1, CallbackStep
<1>2. CASE Head(micro).kind # "callback"
  <2> DEFINE t == Head(micro)
  <2>1. /\ micro # <<>> /\ UNCHANGED <<lastOp, listingOf, waiting, pulled, connected, hub, requests, answers>>
        /\ \/ ~connected /\ micro' = Tail(micro) /\ UNCHANGED <<row, listed, pending, refreshed>>
           \/ connected /\ t.kind = "result" /\ Actions!DeliverResult(t)
           \/ connected /\ t.kind = "status" /\ Actions!DeliverStatus(t)
           \/ connected /\ t.kind = "refresh" /\ Actions!DeliverRefresh(t)
    BY <1>2 DEF Actions!Microtask
  <2> QED
    BY <1>2, <2>1, DropStep, ResultStep, StatusStep, RefreshStep
<1> QED
  BY <1>1, <1>2
-----------------------------------------------------------------------------
(* The Hub.                                                                *)

\* The Hub lists the target again, at a time of its own.
LEMMA QuarantinesStep == ASSUME ActionsInv, Actions!HubQuarantines PROVE ActionsInv'
<1>1. /\ hub.listing = 0 /\ hub.listings < MaxListings
      /\ hub' = [hub EXCEPT !.listing = hub.listings + 1, !.listings = @ + 1]
      /\ UNCHANGED <<lastOp, listingOf, row, listed, pulled, connected, refreshed>>
      /\ UNCHANGED <<pending, waiting, micro, requests, answers>>
  BY DEF Actions!HubQuarantines, Actions!page
<1>2. /\ hub' \in [listing : 0 .. MaxListings, listings : 0 .. MaxListings, verdict : [Actions!Ops -> Verdicts]]
      /\ hub'.verdict = hub.verdict /\ hub'.listing = hub.listings + 1 /\ hub'.listings = hub.listings + 1
      /\ hub.listings \in Nat
  <2> DEFINE V == [Actions!Ops -> Verdicts]
  <2>1. hub \in [listing : 0 .. MaxListings, listings : 0 .. MaxListings, verdict : V]
    BY DEF ActionsInv, Shapes
  <2> HIDE DEF V
  <2>2. /\ hub' \in [listing : 0 .. MaxListings, listings : 0 .. MaxListings, verdict : V]
        /\ hub'.verdict = hub.verdict /\ hub'.listing = hub.listings + 1 /\ hub'.listings = hub.listings + 1
        /\ hub.listings \in Nat
    <3>1. hub.listings \in Nat /\ hub.listings + 1 \in 0 .. MaxListings
      BY <1>1, <2>1, AppBoundsAssumption
    <3> DEFINE n == hub.listings + 1
    <3>2. hub' = [[hub EXCEPT !.listing = n] EXCEPT !.listings = n]
      BY <1>1, <2>1
    <3> HIDE DEF n
    <3>3. /\ n \in 0 .. MaxListings => hub' \in [listing : 0 .. MaxListings, listings : 0 .. MaxListings, verdict : V]
          /\ hub'.verdict = hub.verdict /\ hub'.listing = n /\ hub'.listings = n
      BY <2>1, <3>2
    <3> QED
      BY <3>1, <3>3 DEF n
  <2> QED
    BY <2>2 DEF V
<1>3. Shapes'
  BY <1>1, <1>2 DEF ActionsInv, Shapes, Actions!TypeOK
<1>4. ListingsAreKnown'
  <2>1. \A a \in answers : a.listing \in Nat
    BY DEF ActionsInv, Shapes, Answers
  <2>2. \A i \in DOMAIN micro : micro[i].kind = "status" => micro[i].listing \in Nat
    <3>1. \A i \in DOMAIN micro : micro[i] \in Tasks
      BY DEF ActionsInv, Shapes
    <3> QED
      BY <3>1, TaskOfOp
  <2>3. listed \in Nat /\ hub.listing <= hub.listings
    BY DEF ActionsInv, Shapes, Actions!TypeOK, ListingsAreKnown
  <2>4. \A op \in Actions!Ops : IF op <= lastOp THEN listingOf[op] \in 1 .. hub'.listings ELSE hub.verdict[op] = "none"
    BY <1>2 DEF ActionsInv, ListingsAreKnown
  <2>5. /\ listed <= hub'.listings /\ hub'.listing <= hub'.listings
        /\ \A a \in answers : a.listing <= hub'.listings
        /\ \A i \in DOMAIN micro : micro[i].kind = "status" => micro[i].listing <= hub'.listings
    BY <1>2, <2>1, <2>2, <2>3 DEF ActionsInv, ListingsAreKnown
  <2> QED
    BY <1>1, <1>2, <2>4, <2>5 DEF ListingsAreKnown
<1>5. VerdictsAreOnce' /\ ReadsAreOfAccepted' /\ TasksAreTrue'
  BY <1>1, <1>2 DEF ActionsInv, VerdictsAreOnce, ReadsAreOfAccepted, Accepted, TasksAreTrue
<1>6. ListingIsGone'
  <2>1. \A op \in Actions!Ops : hub.verdict[op] = "accepted" => hub'.listing # listingOf[op]
    BY <1>2 DEF ActionsInv, ListingsAreKnown
  <2> QED
    BY <1>1, <1>2, <2>1 DEF ActionsInv, ListingIsGone, Accepted
<1>7. StatusIsAhead' /\ RefreshedIsGone' /\ Actions!OutcomeIsTrue'
  BY <1>1, <1>2 DEF ActionsInv, StatusIsAhead, RefreshedIsGone, Accepted, Actions!OutcomeIsTrue
<1> QED
  BY <1>3, <1>4, <1>5, <1>6, <1>7 DEF ActionsInv

\* The Hub reads the list for a status, whichever of those it was sent.
LEMMA StatusTakenStep ==
  ASSUME ActionsInv, NEW r \in requests, Actions!HubTakes(r), r.type = "status"
  PROVE  ActionsInv'
<1>1. /\ requests' = requests \ {r} /\ hub' = hub
      /\ UNCHANGED <<lastOp, listingOf, row, listed, pulled, connected, refreshed>>
      /\ UNCHANGED <<pending, waiting, micro>>
  BY DEF Actions!HubTakes, Actions!page
<1>2. PICK ok \in BOOLEAN : answers' = answers \cup {[type |-> "status", op |-> r.op, ok |-> ok, listing |-> hub.listing]}
  BY DEF Actions!HubTakes
<1>3. r \in Actions!Requests /\ r.op \in 0 .. MaxOps /\ r = Actions!StatusOf(r.op)
  <2>1. r \in Actions!Requests
    BY DEF ActionsInv, Shapes, Actions!TypeOK
  <2> QED
    BY <2>1, RequestShapes
<1> DEFINE e == [type |-> "status", op |-> r.op, ok |-> ok, listing |-> hub.listing]
<1>4. e \in Answers
  BY <1>3 DEF Answers, ActionsInv, Shapes
<1>5. e.type = "status" /\ e.op = r.op /\ e.listing = hub.listing /\ answers' = answers \cup {e}
  BY <1>2
<1> HIDE DEF e
<1>6. Shapes'
  BY <1>1, <1>4, <1>5 DEF ActionsInv, Shapes, Actions!TypeOK
<1>7. ListingsAreKnown' /\ VerdictsAreOnce'
  BY <1>1, <1>5 DEF ActionsInv, ListingsAreKnown, VerdictsAreOnce
<1>8. ReadsAreOfAccepted'
  <2>1. e.op \in Actions!Ops => Accepted(e.op) /\ e.listing # listingOf[e.op]
    BY <1>3, <1>5 DEF ActionsInv, ReadsAreOfAccepted, ListingIsGone
  <2> QED
    BY <1>1, <1>5, <2>1 DEF ActionsInv, ReadsAreOfAccepted, Accepted
<1>9. TasksAreTrue' /\ ListingIsGone' /\ StatusIsAhead' /\ RefreshedIsGone' /\ Actions!OutcomeIsTrue'
  BY <1>1 DEF ActionsInv, TasksAreTrue, ListingIsGone, StatusIsAhead, RefreshedIsGone, Accepted, Actions!OutcomeIsTrue
<1> QED
  BY <1>6, <1>7, <1>8, <1>9 DEF ActionsInv

\* The Hub decides an operation: it has no listing any more, so not the operation's.
LEMMA ResolveTakenStep ==
  ASSUME ActionsInv, NEW r \in requests, Actions!HubTakes(r), r.type = "resolve"
  PROVE  ActionsInv'
<1> DEFINE q == r.op
           ok == hub.listing # 0
           v == IF ok THEN "accepted" ELSE "refused"
           e == [type |-> "resolve", op |-> q, ok |-> ok, listing |-> 0]
<1>1. /\ requests' = requests \ {r}
      /\ hub' = [hub EXCEPT !.listing = 0, !.verdict[q] = v]
      /\ answers' = answers \cup {e}
      /\ UNCHANGED <<lastOp, listingOf, row, listed, pulled, connected, refreshed>>
      /\ UNCHANGED <<pending, waiting, micro>>
  BY DEF Actions!HubTakes, Actions!page
<1>2. /\ q \in Actions!Ops /\ q <= lastOp /\ hub.verdict[q] = "none" /\ q \in 0 .. MaxOps
      /\ r = Actions!ResolveOf(q)
  <2>1. r \in Actions!Requests
    BY DEF ActionsInv, Shapes, Actions!TypeOK
  <2> QED
    BY <2>1, RequestShapes, AppBoundsAssumption DEF ActionsInv, VerdictsAreOnce, Actions!Ops
<1>3. e \in Answers /\ e.type = "resolve" /\ e.op = q /\ e.listing = 0 /\ e.ok = ok
  BY <1>2, AppBoundsAssumption DEF Answers
<1>4. v \in {"accepted", "refused"}
  OBVIOUS
<1>5. /\ hub' \in [listing : 0 .. MaxListings, listings : 0 .. MaxListings, verdict : [Actions!Ops -> Verdicts]]
      /\ hub'.verdict = [hub.verdict EXCEPT ![q] = v] /\ hub'.listing = 0 /\ hub'.listings = hub.listings
      /\ hub.listings \in Nat
  <2> DEFINE V == [Actions!Ops -> Verdicts]
             w == [hub.verdict EXCEPT ![q] = v]
  <2>1. hub \in [listing : 0 .. MaxListings, listings : 0 .. MaxListings, verdict : V]
    BY DEF ActionsInv, Shapes
  <2>2. w \in V
    BY <1>2, <1>4, <2>1 DEF Verdicts
  <2>3. hub' = [[hub EXCEPT !.listing = 0] EXCEPT !.verdict = w]
    BY <1>1, <2>1
  <2> HIDE DEF V, w, v, q
  <2>4. /\ hub' \in [listing : 0 .. MaxListings, listings : 0 .. MaxListings, verdict : V]
        /\ hub'.verdict = w /\ hub'.listing = 0 /\ hub'.listings = hub.listings /\ hub.listings \in Nat
    <3>1. 0 \in 0 .. MaxListings /\ hub.listings \in Nat
      BY <2>1, AppBoundsAssumption
    <3> DEFINE z == 0
    <3>2. z \in 0 .. MaxListings /\ hub' = [[hub EXCEPT !.listing = z] EXCEPT !.verdict = w]
      BY <2>3, <3>1
    <3> HIDE DEF z
    <3>3. /\ hub' \in [listing : 0 .. MaxListings, listings : 0 .. MaxListings, verdict : V]
          /\ hub'.verdict = w /\ hub'.listing = z /\ hub'.listings = hub.listings
      BY <2>1, <2>2, <3>2
    <3> QED
      BY <3>1, <3>3 DEF z
  <2> QED
    BY <2>4 DEF V, w
<1>6. /\ hub'.verdict[q] = v
      /\ \A op \in Actions!Ops : op # q => hub'.verdict[op] = hub.verdict[op]
      /\ \A op \in Actions!Ops : hub.verdict[op] # "none" => op # q /\ hub'.verdict[op] = hub.verdict[op]
  <2>1. hub.verdict \in [Actions!Ops -> Verdicts]
    BY DEF ActionsInv, Shapes
  <2> QED
    BY <1>2, <1>5, <2>1
<1>7. (IF e.ok THEN "accepted" ELSE "refused") = v
  BY <1>3
<1> HIDE DEF e, v, ok, q
<1>8. \A op \in Actions!Ops : Accepted(op) => Accepted(op)'
  BY <1>6 DEF Accepted
<1>9. Shapes'
  BY <1>1, <1>3, <1>5 DEF ActionsInv, Shapes, Actions!TypeOK
<1>10. ListingsAreKnown'
  <2>1. \A a \in answers' : a.listing <= hub.listings
    BY <1>1, <1>3, <1>5 DEF ActionsInv, ListingsAreKnown
  <2>2. \A op \in Actions!Ops : IF op <= lastOp THEN listingOf[op] \in 1 .. hub.listings ELSE hub'.verdict[op] = "none"
    BY <1>2, <1>6 DEF ActionsInv, ListingsAreKnown
  <2> QED
    BY <1>1, <1>5, <2>1, <2>2 DEF ActionsInv, ListingsAreKnown
<1>11. VerdictsAreOnce'
  <2>1. ASSUME NEW s \in requests', s.type = "resolve"
        PROVE  s.op <= lastOp /\ hub'.verdict[s.op] = "none"
    <3>1. s \in requests /\ s \in Actions!Requests /\ s # r
      BY <1>1 DEF ActionsInv, Shapes, Actions!TypeOK
    <3>2. s.op \in Actions!Ops /\ s = Actions!ResolveOf(s.op)
      BY <2>1, <3>1, RequestShapes
    <3>3. s.op # q
      BY <1>2, <3>1, <3>2
    <3> QED
      BY <1>6, <2>1, <3>1, <3>2, <3>3 DEF ActionsInv, VerdictsAreOnce
  <2>2. ASSUME NEW a \in answers', a.type = "resolve"
        PROVE  a.op \in Actions!Ops /\ hub'.verdict[a.op] = IF a.ok THEN "accepted" ELSE "refused"
    <3>1. CASE a \in answers
      <4>1. a.op \in Actions!Ops /\ hub.verdict[a.op] = IF a.ok THEN "accepted" ELSE "refused"
        BY <2>2, <3>1 DEF ActionsInv, VerdictsAreOnce
      <4> QED
        BY <1>6, <4>1
    <3>2. CASE a = e
      BY <1>2, <1>3, <1>6, <1>7, <3>2
    <3> QED
      BY <1>1, <3>1, <3>2
  <2> QED
    BY <1>1, <2>1, <2>2 DEF VerdictsAreOnce
<1>12. ReadsAreOfAccepted'
  <2>1. \A op \in Actions!Ops : Actions!StatusOf(op) \in waiting' \cup requests' => Accepted(op)'
    BY <1>1, <1>8 DEF ActionsInv, ReadsAreOfAccepted
  <2>2. \A a \in answers' : a.type = "status" /\ a.op \in Actions!Ops => Accepted(a.op)' /\ a.listing # listingOf[a.op]
    <3> SUFFICES ASSUME NEW a \in answers', a.type = "status", a.op \in Actions!Ops
                 PROVE  Accepted(a.op)' /\ a.listing # listingOf[a.op]
      BY DEF Accepted
    <3>1. a \in answers
      BY <1>1, <1>3
    <3>2. Accepted(a.op) /\ a.listing # listingOf[a.op]
      BY <3>1 DEF ActionsInv, ReadsAreOfAccepted
    <3> QED
      BY <1>6, <3>2 DEF Accepted
  <2> QED
    BY <1>1, <2>1, <2>2 DEF ReadsAreOfAccepted
<1>13. TasksAreTrue'
  <2> SUFFICES ASSUME NEW i \in DOMAIN micro
               PROVE  /\ micro[i].kind = "result" =>
                           hub'.verdict[micro[i].op] = IF micro[i].ok THEN "accepted" ELSE "refused"
                      /\ micro[i].kind = "callback" =>
                           /\ micro[i].state = "refreshing" => hub'.verdict[micro[i].op] = "accepted"
                           /\ micro[i].state = "refused" => hub'.verdict[micro[i].op] = "refused"
                      /\ micro[i].kind = "refresh" => hub'.verdict[micro[i].op] = "accepted"
    BY <1>1 DEF TasksAreTrue, Accepted
  <2>1. micro[i] \in Tasks
    BY DEF ActionsInv, Shapes
  <2>2. CASE micro[i].kind = "status"
    BY <2>2
  <2>3. CASE micro[i].kind # "status"
    <3>1. micro[i].op \in Actions!Ops
      BY <2>1, <2>3, TaskOfOp
    <3> QED
      BY <1>6, <3>1 DEF ActionsInv, TasksAreTrue, Accepted
  <2> QED
    BY <2>2, <2>3
<1>14. ListingIsGone'
  <2> SUFFICES ASSUME NEW op \in Actions!Ops, hub'.verdict[op] = "accepted"
               PROVE  hub'.listing # listingOf[op]
    BY <1>1 DEF ListingIsGone, Accepted
  <2>1. op <= lastOp
    BY <1>2, <1>6 DEF ActionsInv, ListingsAreKnown
  <2>2. listingOf[op] \in 1 .. hub.listings
    BY <2>1 DEF ActionsInv, ListingsAreKnown
  <2> QED
    BY <1>5, <2>2
<1>15. StatusIsAhead' /\ RefreshedIsGone'
  <2>1. \A c \in refreshed : c.op \in Actions!Ops
    BY DEF ActionsInv, Shapes, Actions!TypeOK
  <2>2. StatusIsAhead'
    BY <1>1 DEF ActionsInv, StatusIsAhead
  <2> SUFFICES ASSUME NEW c \in refreshed PROVE hub'.verdict[c.op] = "accepted" /\ c.listing # listingOf[c.op]
    BY <1>1, <2>2 DEF RefreshedIsGone, Accepted
  <2> QED
    BY <1>6, <2>1 DEF ActionsInv, RefreshedIsGone, Accepted
<1>16. Actions!OutcomeIsTrue'
  <2>1. row.state \in {"refused", "refreshing", "resolved_stale"} /\ row # Actions!NoRow => row.op \in Actions!Ops
    BY <1>2 DEF ActionsInv, Shapes, Actions!TypeOK, Actions!OutcomeIsTrue, Actions!Ops
  <2> QED
    BY <1>1, <1>6, <2>1 DEF ActionsInv, Actions!OutcomeIsTrue
<1> QED
  BY <1>9, <1>10, <1>11, <1>12, <1>13, <1>14, <1>15, <1>16 DEF ActionsInv

LEMMA ActionsNext ==
  ASSUME ActionsInv, [Actions!Next]_(Actions!vars)
  PROVE  ActionsInv'
<1>1. CASE Actions!Next
  <2>1. ASSUME NEW r \in requests, Actions!HubTakes(r) PROVE ActionsInv'
    <3>1. r \in Actions!Requests
      BY DEF ActionsInv, Shapes, Actions!TypeOK
    <3> QED
      BY <2>1, <3>1, RequestShapes, StatusTakenStep, ResolveTakenStep
  <2> QED
    BY <1>1, <2>1, ResolveStep, PullStep, AnswerStep, UnmountStep, MicrotaskStep, TimeoutStep,
       RequestFailsStep, QuarantinesStep DEF Actions!Next
<1>2. CASE UNCHANGED Actions!vars
  BY <1>2 DEF Actions!vars, ActionsInv, Shapes, Actions!TypeOK, ListingsAreKnown, VerdictsAreOnce,
     ReadsAreOfAccepted, Accepted, TasksAreTrue,
     ListingIsGone, StatusIsAhead, RefreshedIsGone, Actions!OutcomeIsTrue
<1> QED
  BY <1>1, <1>2

LEMMA ActionsImplied == ASSUME ActionsInv PROVE Actions!TypeOK /\ Actions!OutcomeIsTrue /\ Actions!ClearedByItsRead
  BY DEF ActionsInv, Shapes, RefreshedIsGone, Actions!ClearedByItsRead

\* actions.ts, hubTransport.ts, useHubActions: the invariant holds for any number of
\* operations and listings, whatever times out or is lost, and in whatever order the Hub
\* completes what it was sent.
THEOREM ActionsInductive == Actions!Spec => []ActionsInv
<1>1. Actions!Init => ActionsInv
  BY ActionsInit
<1>2. ActionsInv /\ [Actions!Next]_(Actions!vars) => ActionsInv'
  BY ActionsNext
<1> QED
  BY <1>1, <1>2, PTL DEF Actions!Spec

-----------------------------------------------------------------------------
(* The demand of the plugin surface.  Every effect and every settled render ends in a  *)
(* sync of the demand, so the sync is proved once.                                     *)

\* A route that can be rendered is the claimed one: the effects of its commit claimed it.
ReadyIsClaimed == route \in ready => claimed = route

\* A rendered surface is some route's.
RenderedHasRoute == surface.phase = "rendered" => surface.key # NoRoute

SurfacesInv == Surfaces!TypeOK /\ Surfaces!RefsAreHolders /\ Surfaces!DemandFollowsClaim /\ ReadyIsClaimed /\ RenderedHasRoute

-----------------------------------------------------------------------------
(* The sync of the demand.                                                 *)

\* syncEntityOptionsDemand gives back what no longer is demanded, takes what is new, and
\* leaves the other holder its own.
LEMMA SyncCounts ==
  ASSUME Surfaces!TypeOK, Surfaces!RefsAreHolders, demanded.key = NoRoute => demanded.families = {},
         NEW key \in Surfaces!Keys, NEW root \in SUBSET Surfaces!AllFamilies, Surfaces!SyncDemand(key, root), other' = other
  PROVE  /\ demanded' \in [key : Surfaces!Keys, families : SUBSET Surfaces!AllFamilies]
         /\ refCount' \in [Families -> Nat]
         /\ Surfaces!RefsAreHolders'
         /\ demanded'.key = key
         /\ demanded'.families = IF key = NoRoute THEN {} ELSE root
<1> DEFINE kept == IF demanded.key # key THEN {} ELSE demanded.families
           gone == Surfaces!Abandoned(key)
           added == IF key = NoRoute THEN {} ELSE Surfaces!Demands(root, kept)
           dropped == IF key = NoRoute THEN {} ELSE Surfaces!Releases(root, kept)
           After1(f) == IF f \in gone THEN Surfaces!Released(f, refCount[f]) ELSE refCount[f]
           After2(f) == IF f \in added THEN Surfaces!Ensured(f, After1(f)) ELSE After1(f)
           After(f) == IF f \in dropped THEN Surfaces!Released(f, After2(f)) ELSE After2(f)
           now == IF key = NoRoute THEN {} ELSE root
<1>1. /\ refCount' = [f \in Families |-> After(f)]
      /\ demanded' = IF key = NoRoute THEN Surfaces!NoDemand ELSE [key |-> key, families |-> root]
  BY DEF Surfaces!SyncDemand
<1>2. demanded'.key = key /\ demanded'.families = now
  BY <1>1 DEF Surfaces!NoDemand
<1>3. demanded' \in [key : Surfaces!Keys, families : SUBSET Surfaces!AllFamilies]
  BY <1>1 DEF Surfaces!NoDemand
<1>4. ASSUME NEW f \in Families
      PROVE  After(f) = (IF f \in now THEN 1 ELSE 0) + (IF f \in other THEN 1 ELSE 0)
  <2>1. f \notin ProcessWide
    BY RoutesAssumption
  <2>2. refCount[f] = (IF f \in demanded.families THEN 1 ELSE 0) + (IF f \in other THEN 1 ELSE 0)
    BY DEF Surfaces!RefsAreHolders
  <2>3. CASE demanded.key # key
    <3>1. /\ f \in gone <=> f \in demanded.families
          /\ f \in added <=> f \in now
          /\ f \notin dropped
      BY <2>1, <2>3 DEF Surfaces!Abandoned, Surfaces!Demands, Surfaces!Releases
    <3>2. After1(f) = IF f \in other THEN 1 ELSE 0
      BY <2>2, <3>1 DEF Surfaces!Released
    <3> QED
      BY <3>1, <3>2 DEF Surfaces!Ensured
  <2>4. CASE demanded.key = key
    <3>1. /\ f \notin gone
          /\ f \in added <=> f \in now /\ f \notin demanded.families
          /\ f \in dropped <=> key # NoRoute /\ f \in demanded.families /\ f \notin root
          /\ key = NoRoute => f \notin demanded.families
      BY <2>1, <2>4 DEF Surfaces!Abandoned, Surfaces!Demands, Surfaces!Releases
    <3>2. After1(f) = refCount[f]
      BY <3>1
    <3> QED
      BY <2>2, <3>1, <3>2 DEF Surfaces!Ensured, Surfaces!Released
  <2> QED
    BY <2>3, <2>4
<1>5. refCount' \in [Families -> Nat]
  BY <1>1, <1>4
<1>6. Surfaces!RefsAreHolders'
  BY <1>1, <1>2, <1>4 DEF Surfaces!RefsAreHolders
<1> QED
  BY <1>2, <1>3, <1>5, <1>6

\* The demand that is nobody's is empty, in every state of the invariant.
LEMMA NoDemandOfNobody ==
  ASSUME SurfacesInv
  PROVE  demanded.key = NoRoute => demanded.families = {}
  BY DEF SurfacesInv, Surfaces!DemandFollowsClaim

-----------------------------------------------------------------------------
(* Commits, renders, actions and the other holder.                         *)

\* The effects of a commit, whatever its route and descriptors.
LEMMA EffectsKeep ==
  ASSUME SurfacesInv, NEW r \in Surfaces!Keys, NEW descriptors \in SUBSET Routes,
         Surfaces!RunEffects(r, descriptors), route' = r, ready' = descriptors,
         other' = other, acting' = acting
  PROVE  SurfacesInv'
<1>1. {} \in SUBSET Surfaces!AllFamilies /\ NoRoute \in Surfaces!Keys
  BY DEF Surfaces!Keys
<1>2. CASE r = NoRoute
  <2>1. /\ claimed' = NoRoute /\ Surfaces!SyncDemand(NoRoute, {})
        /\ UNCHANGED <<surface, dirty, renders, lastRender>>
    BY <1>2 DEF Surfaces!RunEffects, Surfaces!ClaimLeft
  <2>2. /\ demanded' \in [key : Surfaces!Keys, families : SUBSET Surfaces!AllFamilies]
        /\ refCount' \in [Families -> Nat] /\ Surfaces!RefsAreHolders'
        /\ demanded'.key = NoRoute /\ demanded'.families = {}
    BY <1>1, <2>1, SyncCounts, NoDemandOfNobody DEF SurfacesInv
  <2>3. Surfaces!TypeOK'
    BY <1>1, <2>1, <2>2 DEF SurfacesInv, Surfaces!TypeOK
  <2>4. Surfaces!DemandFollowsClaim' /\ ReadyIsClaimed' /\ RenderedHasRoute'
    BY <1>2, <2>1, <2>2 DEF SurfacesInv, Surfaces!DemandFollowsClaim, ReadyIsClaimed, RenderedHasRoute
  <2> QED
    BY <2>2, <2>3, <2>4 DEF SurfacesInv
<1>3. CASE r # NoRoute /\ r \in descriptors /\ Surfaces!Claims(r)
  <2> DEFINE n == lastRender + 1
             s == [key |-> r, phase |-> "rendering", root |-> {}, by |-> n]
  <2>1. /\ lastRender' = n /\ claimed' = r /\ surface' = s /\ dirty' = TRUE
        /\ renders' = renders \cup {[id |-> n, key |-> r]} /\ Surfaces!SyncDemand(r, {})
    BY <1>3 DEF Surfaces!RunEffects
  <2>2. /\ demanded' \in [key : Surfaces!Keys, families : SUBSET Surfaces!AllFamilies]
        /\ refCount' \in [Families -> Nat] /\ Surfaces!RefsAreHolders'
        /\ demanded'.key = r /\ demanded'.families = {}
    BY <1>1, <2>1, SyncCounts, NoDemandOfNobody DEF SurfacesInv
  <2>3. n \in Nat /\ r \in Routes
    BY <1>3 DEF SurfacesInv, Surfaces!TypeOK
  <2>4. s \in [key : Surfaces!Keys, phase : Surfaces!Phases, root : SUBSET Surfaces!AllFamilies, by : Nat]
    BY <1>1, <2>3 DEF Surfaces!Phases
  <2>5. renders' \subseteq [id : Nat, key : Routes]
    BY <2>1, <2>3 DEF SurfacesInv, Surfaces!TypeOK
  <2>6. s.key = r /\ s.phase # "rendered"
    OBVIOUS
  <2> HIDE DEF s, n
  <2>7. Surfaces!TypeOK'
    BY <2>1, <2>2, <2>3, <2>4, <2>5 DEF SurfacesInv, Surfaces!TypeOK
  <2>8. Surfaces!DemandFollowsClaim' /\ ReadyIsClaimed' /\ RenderedHasRoute'
    BY <1>3, <2>1, <2>2, <2>6 DEF Surfaces!DemandFollowsClaim, ReadyIsClaimed, RenderedHasRoute
  <2> QED
    BY <2>2, <2>7, <2>8 DEF SurfacesInv
<1>4. CASE r # NoRoute /\ ~(r \in descriptors /\ Surfaces!Claims(r))
  <2>1. UNCHANGED <<claimed, surface, dirty, demanded, refCount, renders, lastRender>>
    BY <1>4 DEF Surfaces!RunEffects
  <2>2. Surfaces!TypeOK' /\ Surfaces!RefsAreHolders' /\ Surfaces!DemandFollowsClaim' /\ RenderedHasRoute'
    BY <2>1 DEF SurfacesInv, Surfaces!TypeOK, Surfaces!RefsAreHolders, Surfaces!DemandFollowsClaim, RenderedHasRoute
  <2>3. ReadyIsClaimed'
    BY <1>4, <2>1 DEF ReadyIsClaimed, Surfaces!Claims
  <2> QED
    BY <2>2, <2>3 DEF SurfacesInv
<1> QED
  BY <1>2, <1>3, <1>4

LEMMA NavigateStep == ASSUME SurfacesInv, NEW r \in Surfaces!Keys, Surfaces!Navigate(r) PROVE SurfacesInv'
<1>1. /\ Surfaces!RunEffects(r, ready) /\ route' = r /\ ready' = ready
      /\ other' = other /\ acting' = acting
  BY DEF Surfaces!Navigate
<1>2. ready \in SUBSET Routes
  BY DEF SurfacesInv, Surfaces!TypeOK
<1> QED
  BY <1>1, <1>2, EffectsKeep

LEMMA DescriptorStep == ASSUME SurfacesInv, NEW r \in Routes, Surfaces!DescriptorChanges(r) PROVE SurfacesInv'
<1> DEFINE d == IF r \in ready THEN ready \ {r} ELSE ready \cup {r}
<1>1. /\ Surfaces!RunEffects(route, d) /\ route' = route /\ ready' = d
      /\ other' = other /\ acting' = acting
  BY DEF Surfaces!DescriptorChanges
<1>2. d \in SUBSET Routes /\ route \in Surfaces!Keys
  BY DEF SurfacesInv, Surfaces!TypeOK
<1> HIDE DEF d
<1> QED
  BY <1>1, <1>2, EffectsKeep

LEMMA CompletesStep ==
  ASSUME SurfacesInv, NEW x \in renders, NEW phase \in {"rendered", "error"},
         NEW root \in SUBSET Surfaces!AllFamilies, Surfaces!Completes(x, phase, root)
  PROVE  SurfacesInv'
<1>1. /\ x.key \in Routes /\ x.id \in Nat /\ x.key # NoRoute /\ x.key \in Surfaces!Keys
  BY RoutesAssumption DEF SurfacesInv, Surfaces!TypeOK, Surfaces!Keys
<1>2. /\ renders' = renders \ {x} /\ UNCHANGED <<route, ready, claimed, other, lastRender, acting>>
      /\ renders' \subseteq [id : Nat, key : Routes]
  BY DEF Surfaces!Completes, SurfacesInv, Surfaces!TypeOK
<1>3. CASE claimed = x.key
  <2> DEFINE s == [key |-> x.key, phase |-> phase, root |-> root, by |-> x.id]
  <2>1. surface' = s /\ dirty' = TRUE
    BY <1>3 DEF Surfaces!Completes, Surfaces!CompletionCurrent, Surfaces!RenderCompleted
  <2>2. s \in [key : Surfaces!Keys, phase : Surfaces!Phases, root : SUBSET Surfaces!AllFamilies, by : Nat] /\ s.key = x.key
    BY <1>1 DEF Surfaces!Phases
  <2> HIDE DEF s
  <2>3. CASE phase = "rendered"
    <3>1. Surfaces!SyncDemand(x.key, root)
      BY <1>3, <2>3 DEF Surfaces!Completes, Surfaces!CompletionCurrent
    <3>2. /\ demanded' \in [key : Surfaces!Keys, families : SUBSET Surfaces!AllFamilies]
          /\ refCount' \in [Families -> Nat] /\ Surfaces!RefsAreHolders'
          /\ demanded'.key = x.key
      BY <1>1, <1>2, <3>1, SyncCounts, NoDemandOfNobody DEF SurfacesInv
    <3>3. Surfaces!TypeOK'
      BY <1>2, <2>1, <2>2, <3>2 DEF SurfacesInv, Surfaces!TypeOK
    <3>4. Surfaces!DemandFollowsClaim' /\ ReadyIsClaimed' /\ RenderedHasRoute'
      BY <1>1, <1>2, <1>3, <2>1, <2>2, <3>2
         DEF SurfacesInv, Surfaces!DemandFollowsClaim, ReadyIsClaimed, RenderedHasRoute
    <3> QED
      BY <3>2, <3>3, <3>4 DEF SurfacesInv
  <2>4. CASE phase # "rendered"
    <3>1. UNCHANGED <<demanded, refCount>>
      BY <1>3, <2>4 DEF Surfaces!Completes, Surfaces!CompletionCurrent
    <3>2. Surfaces!TypeOK'
      BY <1>2, <2>1, <2>2, <3>1 DEF SurfacesInv, Surfaces!TypeOK
    <3>3. Surfaces!RefsAreHolders' /\ Surfaces!DemandFollowsClaim' /\ ReadyIsClaimed' /\ RenderedHasRoute'
      BY <1>1, <1>2, <1>3, <2>1, <2>2, <3>1
         DEF SurfacesInv, Surfaces!RefsAreHolders, Surfaces!DemandFollowsClaim, ReadyIsClaimed, RenderedHasRoute
    <3> QED
      BY <3>2, <3>3 DEF SurfacesInv
  <2> QED
    BY <2>3, <2>4
<1>4. CASE claimed # x.key
  <2>1. UNCHANGED <<surface, dirty, demanded, refCount>>
    BY <1>4 DEF Surfaces!Completes, Surfaces!CompletionCurrent
  <2> QED
    BY <1>2, <2>1
       DEF SurfacesInv, Surfaces!TypeOK, Surfaces!RefsAreHolders, Surfaces!DemandFollowsClaim, ReadyIsClaimed, RenderedHasRoute
<1> QED
  BY <1>3, <1>4

LEMMA ActionResultStep ==
  ASSUME SurfacesInv, NEW r \in Routes, NEW root \in SUBSET Surfaces!AllFamilies, Surfaces!ActionResult(r, root)
  PROVE  SurfacesInv'
<1>1. /\ acting' \subseteq Routes
      /\ UNCHANGED <<route, ready, claimed, demanded, refCount, other, renders, lastRender>>
  BY DEF Surfaces!ActionResult, SurfacesInv, Surfaces!TypeOK
<1>2. /\ surface' \in [key : Surfaces!Keys, phase : Surfaces!Phases, root : SUBSET Surfaces!AllFamilies, by : Nat]
      /\ surface'.key = surface.key /\ surface'.phase = surface.phase /\ dirty' \in BOOLEAN
      /\ dirty' \/ (surface' = surface /\ dirty' = dirty)
  BY DEF Surfaces!ActionResult, SurfacesInv, Surfaces!TypeOK
<1>3. Surfaces!TypeOK'
  BY <1>1, <1>2 DEF SurfacesInv, Surfaces!TypeOK
<1> QED
  BY <1>1, <1>2, <1>3 DEF SurfacesInv, Surfaces!RefsAreHolders, Surfaces!DemandFollowsClaim, ReadyIsClaimed, RenderedHasRoute

LEMMA SurfaceEffectStep == ASSUME SurfacesInv, Surfaces!SurfaceEffect PROVE SurfacesInv'
<1>1. /\ dirty' = FALSE
      /\ UNCHANGED <<route, ready, claimed, surface, other, renders, lastRender, acting>>
  BY DEF Surfaces!SurfaceEffect
<1>2. surface.key \in Surfaces!Keys /\ surface.root \in SUBSET Surfaces!AllFamilies
  BY DEF SurfacesInv, Surfaces!TypeOK
<1>3. CASE surface.phase = "rendered" /\ claimed = surface.key
  <2>1. Surfaces!SyncDemand(surface.key, surface.root)
    BY <1>3 DEF Surfaces!SurfaceEffect, Surfaces!CompletionCurrent
  <2>2. /\ demanded' \in [key : Surfaces!Keys, families : SUBSET Surfaces!AllFamilies]
        /\ refCount' \in [Families -> Nat] /\ Surfaces!RefsAreHolders'
        /\ demanded'.key = surface.key
        /\ demanded'.families = IF surface.key = NoRoute THEN {} ELSE surface.root
    BY <1>1, <1>2, <2>1, SyncCounts, NoDemandOfNobody DEF SurfacesInv
  <2>3. Surfaces!TypeOK'
    BY <1>1, <2>2 DEF SurfacesInv, Surfaces!TypeOK
  <2>4. Surfaces!DemandFollowsClaim' /\ ReadyIsClaimed' /\ RenderedHasRoute'
    BY <1>1, <1>3, <2>2 DEF SurfacesInv, Surfaces!DemandFollowsClaim, ReadyIsClaimed, RenderedHasRoute
  <2> QED
    BY <2>2, <2>3, <2>4 DEF SurfacesInv
<1>4. CASE ~(surface.phase = "rendered" /\ claimed = surface.key)
  <2>1. UNCHANGED <<demanded, refCount>>
    BY <1>4 DEF Surfaces!SurfaceEffect, Surfaces!CompletionCurrent
  <2>2. Surfaces!TypeOK'
    BY <1>1, <2>1 DEF SurfacesInv, Surfaces!TypeOK
  <2> QED
    BY <1>1, <1>4, <2>1, <2>2
       DEF SurfacesInv, Surfaces!RefsAreHolders, Surfaces!DemandFollowsClaim, ReadyIsClaimed, RenderedHasRoute
<1> QED
  BY <1>3, <1>4

\* The other holder takes and gives back what is its own.
LEMMA OtherHolderStep ==
  ASSUME SurfacesInv, NEW f \in Families, Surfaces!OtherDemands(f) \/ Surfaces!OtherReleases(f) PROVE SurfacesInv'
<1>1. UNCHANGED <<route, ready, claimed, surface, dirty, demanded, renders, lastRender, acting>>
  BY DEF Surfaces!OtherDemands, Surfaces!OtherReleases
<1>2. refCount \in [Families -> Nat]
      /\ \A g \in Families :
           refCount[g] = (IF g \in demanded.families THEN 1 ELSE 0) + (IF g \in other THEN 1 ELSE 0)
  BY DEF SurfacesInv, Surfaces!TypeOK, Surfaces!RefsAreHolders
<1>3. CASE Surfaces!OtherDemands(f)
  <2>1. f \notin other /\ other' = other \cup {f} /\ refCount' = [refCount EXCEPT ![f] = @ + 1]
    BY <1>3 DEF Surfaces!OtherDemands, Surfaces!Ensured
  <2>2. refCount' \in [Families -> Nat] /\ other' \subseteq Families
    BY <1>2, <2>1 DEF SurfacesInv, Surfaces!TypeOK
  <2>3. Surfaces!RefsAreHolders'
    BY <1>1, <1>2, <2>1 DEF Surfaces!RefsAreHolders
  <2> QED
    BY <1>1, <2>2, <2>3 DEF SurfacesInv, Surfaces!TypeOK, Surfaces!DemandFollowsClaim, ReadyIsClaimed, RenderedHasRoute
<1>4. CASE Surfaces!OtherReleases(f)
  <2>1. f \in other /\ other' = other \ {f}
        /\ refCount' = [refCount EXCEPT ![f] = IF @ > 0 THEN @ - 1 ELSE 0]
    BY <1>4 DEF Surfaces!OtherReleases, Surfaces!Released
  <2>2. refCount' \in [Families -> Nat] /\ other' \subseteq Families
    BY <1>2, <2>1 DEF SurfacesInv, Surfaces!TypeOK
  <2>3. Surfaces!RefsAreHolders'
    BY <1>1, <1>2, <2>1 DEF Surfaces!RefsAreHolders
  <2> QED
    BY <1>1, <2>2, <2>3 DEF SurfacesInv, Surfaces!TypeOK, Surfaces!DemandFollowsClaim, ReadyIsClaimed, RenderedHasRoute
<1> QED
  BY <1>3, <1>4

-----------------------------------------------------------------------------
(* The demand of the surface, alone.                                       *)

LEMMA SurfacesInit == ASSUME Surfaces!Init PROVE SurfacesInv
<1>1. Surfaces!TypeOK
  BY DEF Surfaces!Init, Surfaces!TypeOK, Surfaces!Keys, Surfaces!NoSurface, Surfaces!NoDemand, Surfaces!Phases
<1>2. Surfaces!RefsAreHolders /\ Surfaces!DemandFollowsClaim
  BY DEF Surfaces!Init, Surfaces!RefsAreHolders, Surfaces!DemandFollowsClaim, Surfaces!NoDemand
<1>3. ReadyIsClaimed /\ RenderedHasRoute
  BY RoutesAssumption DEF Surfaces!Init, ReadyIsClaimed, RenderedHasRoute, Surfaces!NoSurface
<1> QED
  BY <1>1, <1>2, <1>3 DEF SurfacesInv

LEMMA SurfacesNext == ASSUME SurfacesInv, [Surfaces!Next]_(Surfaces!vars) PROVE SurfacesInv'
<1>1. ASSUME NEW r \in Surfaces!Keys, Surfaces!Navigate(r) PROVE SurfacesInv'
  BY <1>1, NavigateStep
<1>2. ASSUME NEW r \in Routes, Surfaces!DescriptorChanges(r) PROVE SurfacesInv'
  BY <1>2, DescriptorStep
<1>3. ASSUME NEW x \in renders, Surfaces!Settles(x) PROVE SurfacesInv'
  BY <1>3, CompletesStep DEF Surfaces!Settles
<1>4. CASE Surfaces!Act
  <2>1. surface.key \in Routes
    BY <1>4 DEF Surfaces!Act, SurfacesInv, Surfaces!TypeOK, Surfaces!Keys, RenderedHasRoute
  <2> QED
    BY <1>4, <2>1 DEF Surfaces!Act, SurfacesInv, Surfaces!TypeOK, Surfaces!RefsAreHolders,
       Surfaces!DemandFollowsClaim, ReadyIsClaimed,
       RenderedHasRoute
<1>5. ASSUME NEW r \in Routes, NEW root \in SUBSET Surfaces!AllFamilies, Surfaces!ActionResult(r, root) PROVE SurfacesInv'
  BY <1>5, ActionResultStep
<1>6. CASE Surfaces!SurfaceEffect
  BY <1>6, SurfaceEffectStep
<1>7. ASSUME NEW f \in Families, Surfaces!OtherDemands(f) \/ Surfaces!OtherReleases(f) PROVE SurfacesInv'
  BY <1>7, OtherHolderStep
<1>8. CASE UNCHANGED Surfaces!vars
  BY <1>8
     DEF Surfaces!vars, SurfacesInv, Surfaces!TypeOK, Surfaces!RefsAreHolders, Surfaces!DemandFollowsClaim, ReadyIsClaimed, RenderedHasRoute
<1> QED
  BY <1>1, <1>2, <1>3, <1>4, <1>5, <1>6, <1>7, <1>8 DEF Surfaces!Next

\* The invariant holds over any routes and families, and any order in which renders,
\* action results, effects and the other holder come.
THEOREM SurfacesInductive == Surfaces!Spec => []SurfacesInv
<1>1. Surfaces!Init => SurfacesInv
  BY SurfacesInit
<1>2. SurfacesInv /\ [Surfaces!Next]_(Surfaces!vars) => SurfacesInv'
  BY SurfacesNext
<1> QED
  BY <1>1, <1>2, PTL DEF Surfaces!Spec

\* ensureGenericEntitySubscription, releaseGenericEntitySubscription: the count of a
\* family is the number of its holders, so a subscription is closed with its last one.
THEOREM CountsAreHolders == Surfaces!Spec => []Surfaces!RefsAreHolders
<1>1. SurfacesInv => Surfaces!RefsAreHolders
  BY DEF SurfacesInv
<1> QED
  BY <1>1, SurfacesInductive, PTL

\* syncEntityOptionsDemand, isPluginRouteCompletionCurrent: demand and surface are those
\* of the claim, whichever render settles after it.
THEOREM DemandIsClaimed == Surfaces!Spec => []Surfaces!DemandFollowsClaim
<1>1. SurfacesInv => Surfaces!DemandFollowsClaim
  BY DEF SurfacesInv
<1> QED
  BY <1>1, SurfacesInductive, PTL

\* claimPluginRouteRender: a route whose descriptor can launch shows its own surface, and
\* no late render of another route takes its place.
THEOREM OwnSurface == Surfaces!Spec => []Surfaces!RouteShowsItsSurface
<1>1. SurfacesInv => Surfaces!RouteShowsItsSurface
  BY RoutesAssumption DEF SurfacesInv, Surfaces!TypeOK, ReadyIsClaimed, Surfaces!DemandFollowsClaim,
     Surfaces!RouteShowsItsSurface
<1> QED
  BY <1>1, SurfacesInductive, PTL

-----------------------------------------------------------------------------
(* The page.                                                               *)

\* A step of the page is a step of one part, and the others stand still.
LEMMA PartsStep ==
  ASSUME [AppNext]_appVars
  PROVE  /\ [Next]_vars /\ [Mounts!Next]_(Mounts!vars)
         /\ [Actions!Next]_(Actions!vars) /\ [Surfaces!Next]_(Surfaces!vars)
<1>1. UNCHANGED mountVars => UNCHANGED Mounts!vars
  BY DEF mountVars, Mounts!vars
<1>2. UNCHANGED actionVars => UNCHANGED Actions!vars
  BY DEF actionVars, Actions!vars
<1>3. UNCHANGED surfaceVars => UNCHANGED Surfaces!vars
  BY DEF surfaceVars, Surfaces!vars
<1>4. CASE LogsOnly /\ Next
  BY <1>1, <1>2, <1>3, <1>4 DEF LogsOnly
<1>5. CASE MountsOnly /\ Mounts!Next
  BY <1>2, <1>3, <1>5 DEF MountsOnly
<1>6. CASE ActionsOnly /\ Actions!Next
  BY <1>1, <1>3, <1>6 DEF ActionsOnly
<1>7. CASE SurfacesOnly /\ Surfaces!Next
  BY <1>1, <1>2, <1>7 DEF SurfacesOnly
<1>8. CASE UNCHANGED appVars
  BY <1>1, <1>2, <1>3, <1>8 DEF appVars
<1> QED
  BY <1>4, <1>5, <1>6, <1>7, <1>8 DEF AppNext

\* useHubTransport, useHubActions and the views: a run of the page, the steps of its
\* other parts left out, is a run of each of its parts.
THEOREM PartsRun == AppSpec => Spec /\ Mounts!Spec /\ Actions!Spec /\ Surfaces!Spec
<1>1. AppInit => Init /\ Mounts!Init /\ Actions!Init /\ Surfaces!Init
  BY DEF AppInit
<1>2. [AppNext]_appVars => /\ [Next]_vars /\ [Mounts!Next]_(Mounts!vars)
                           /\ [Actions!Next]_(Actions!vars) /\ [Surfaces!Next]_(Surfaces!vars)
  BY PartsStep
<1> QED
  BY <1>1, <1>2, PTL DEF AppSpec, Spec, Mounts!Spec, Actions!Spec, Surfaces!Spec

\* Every part keeps the shape the code gives its state.
THEOREM PageTypes == AppSpec => []TypesOK
<1>1. MountsInv /\ ActionsInv /\ SurfacesInv => Mounts!TypeOK /\ Actions!TypeOK /\ Surfaces!TypeOK
  BY DEF MountsInv, ActionsInv, Shapes, SurfacesInv
<1>2. IInv => TypeOK
  BY DEF IInv
<1>3. TypeOK /\ Mounts!TypeOK /\ Actions!TypeOK /\ Surfaces!TypeOK => TypesOK
  BY DEF TypesOK
<1> QED
  BY <1>1, <1>2, <1>3, PartsRun, Inductive, MountsInductive, ActionsInductive, SurfacesInductive, PTL

\* unmount, TerminalViewHost: the terminal the user looks at keeps its renderer, and a
\* view that was left released each of its subscriptions once, whatever mount, attach and
\* unmount of whichever view go on late.
THEOREM PageMounts == AppSpec => []MountsAreFenced
<1>1. MountsInv => MountsAreFenced
  BY MountsImplied DEF MountsInv, MountsAreFenced
<1> QED
  BY <1>1, PartsRun, MountsInductive, PTL

\* hubQuarantines.ts, hubTransport.ts: what a row says of its operation is what the Hub
\* decided, and at the moment a clean read clears the row the list shown is that read,
\* without the listing resolved, in whatever order the Hub completes requests.
THEOREM PageRows == AppSpec => []RowIsTrue
<1>1. ActionsInv => RowIsTrue
  BY ActionsImplied DEF RowIsTrue
<1> QED
  BY <1>1, PartsRun, ActionsInductive, PTL

\* syncEntityOptionsDemand, claimPluginRouteRender: on the page too, counts are holders,
\* demand, claim and surface agree, and a route shows its own surface.
THEOREM PageDemand == AppSpec => []DemandIsOfTheRoute
<1>1. Surfaces!RefsAreHolders /\ Surfaces!DemandFollowsClaim /\ Surfaces!RouteShowsItsSurface => DemandIsOfTheRoute
  BY DEF DemandIsOfTheRoute
<1> QED
  BY <1>1, PartsRun, CountsAreHolders, DemandIsClaimed, OwnSurface, PTL

\* usePluginLogs on the page: one read at a time, and a log without a hole.
THEOREM PageLogs == AppSpec => []OneRead /\ []ViewIsLog
  BY PartsRun, OneReadAtATime, ShowsTheLog, PTL
=============================================================================
