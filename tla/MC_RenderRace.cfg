\* A route is left and opened again while its first render is under way.
CONSTANTS
  Routes = {a, b}
  Families = {f}
  ProcessWide = {s}
  NoRoute = NoRoute
  MaxRenders = 3
SPECIFICATION Spec
INVARIANT OlderRenderIgnored
CHECK_DEADLOCK FALSE
