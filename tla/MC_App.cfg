\* The logs view: two packages, pages of one record, two visits, four reads, two log
\* ids and two records.
\* The terminal view: three runs of the mount effect, with a renderer that takes time.
\* Resolve: three operations over two listings of the target.
\* The surface: two routes, a family of their own and one the page holds anyway, and
\* three renders.
CONSTANTS
  Packages = {p1, p2}
  PageSize = 1
  MaxVisits = 2
  MaxReads = 4
  MaxLogs = 2
  MaxSeq = 2
  MaxHosts = 3
  SlowRenderer = TRUE
  MaxOps = 3
  MaxListings = 2
  Routes = {r1, r2}
  Families = {own}
  ProcessWide = {session}
  NoRoute = none
  MaxRenders = 3
SPECIFICATION AppSpec
INVARIANTS TypesOK ViewIsLog OneRead MountsAreFenced RowIsTrue DemandIsOfTheRoute
PROPERTIES WaitsEnd
CHECK_DEADLOCK FALSE
