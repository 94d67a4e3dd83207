--------------------------------- MODULE App ---------------------------------
(***************************************************************************)
(* The page's own state machines over the Hub bridge: the plugin logs view *)
(* (the module this one extends), the mounts of a terminal view, a Resolve *)
(* of a quarantine, and the demand of the plugin surface.  They share no   *)
(* state and call none of each other, so a behaviour belongs to one of     *)
(* them, the part, and the others keep their first state.                  *)
(***************************************************************************)
EXTENDS PluginLogs

CONSTANTS
  MaxHosts, SlowRenderer,                              \* TerminalMounts
  MaxOps, MaxListings,                                 \* HubActions
  Routes, Families, ProcessWide, NoRoute, MaxRenders   \* SurfaceDemand

ASSUME AppBoundsAssumption == MaxHosts \in Nat /\ MaxOps \in Nat /\ MaxListings \in Nat

\* No route is the absence of one; a family has a subscription of its own or is one
\* the page holds anyway.
ASSUME RoutesAssumption == NoRoute \notin Routes /\ Families \cap ProcessWide = {}

VARIABLES
  part,
  host, cancelled, stage, renderer, mounts, attachedTo, detached,
  unmounts, held, released,                                         \* TerminalMounts
  lastOp, listingOf, row, listed, pending, waiting, micro, pulled,
  connected, hub, requests, answers, refreshed,                     \* HubActions
  route, ready, claimed, surface, dirty, demanded, refCount, other,
  renders, lastRender, acting                                       \* SurfaceDemand

mountVars == <<host, cancelled, stage, renderer, mounts, attachedTo, detached, unmounts, held, released>>
actionVars == <<lastOp, listingOf, row, listed, pending, waiting, micro, pulled, connected, hub, requests,
                answers, refreshed>>
surfaceVars == <<route, ready, claimed, surface, dirty, demanded, refCount, other, renders, lastRender, acting>>
appVars == <<part, vars, mountVars, actionVars, surfaceVars>>

Mounts == INSTANCE TerminalMounts
Actions == INSTANCE HubActions
Surfaces == INSTANCE SurfaceDemand

\* A part that does not run has one first state.
AppInit ==
  /\ part \in {"logs", "mounts", "actions", "surfaces"}
  /\ Init /\ Mounts!Init /\ Actions!Init /\ Surfaces!Init
  /\ part # "logs" => package = CHOOSE p \in Packages : TRUE
  /\ part # "surfaces" => ready = {}

\* A step of one part leaves the others alone.
LogsOnly == part = "logs" /\ UNCHANGED <<part, mountVars, actionVars, surfaceVars>>
MountsOnly == part = "mounts" /\ UNCHANGED <<part, vars, actionVars, surfaceVars>>
ActionsOnly == part = "actions" /\ UNCHANGED <<part, vars, mountVars, surfaceVars>>
SurfacesOnly == part = "surfaces" /\ UNCHANGED <<part, vars, mountVars, actionVars>>

AppNext ==
  \/ LogsOnly /\ Next
  \/ MountsOnly /\ Mounts!Next
  \/ ActionsOnly /\ Actions!Next
  \/ SurfacesOnly /\ Surfaces!Next

\* The fairness of each component, as its own module states it.
AppFairness ==
  /\ WF_appVars(LogsOnly /\ \E r \in reads : Settle(r))
  /\ WF_appVars(MountsOnly /\ \E h \in Mounts!Hosts : Mounts!MountTurn(h))
  /\ WF_appVars(MountsOnly /\ \E h \in Mounts!Hosts : Mounts!Settles(h))
  /\ WF_appVars(MountsOnly /\ Mounts!UnmountSettles)
  /\ WF_appVars(ActionsOnly /\ Actions!Microtask)
  /\ WF_appVars(ActionsOnly /\ \E op \in Actions!Ops : Actions!ActionTimeout(op))
  /\ WF_appVars(ActionsOnly /\ \E r \in Actions!Requests : Actions!RequestFails(r))
  /\ WF_appVars(SurfacesOnly /\ Surfaces!SurfaceEffect)
  /\ WF_appVars(SurfacesOnly /\ \E x \in renders : Surfaces!Settles(x))

AppSpec == AppInit /\ [][AppNext]_appVars /\ AppFairness

-----------------------------------------------------------------------------
(* The properties of the instances, stated where they are defined.  The   *)
(* plugin logs view's are those of the module extended.                   *)

\* Every variable of the page's components keeps the shape the code gives it.
TypesOK == TypeOK /\ Mounts!TypeOK /\ Actions!TypeOK /\ Surfaces!TypeOK

\* unmount, TerminalViewHost: the terminal the user looks at keeps its renderer, however
\* late an unmount of an earlier view goes on; a view that was left holds no
\* subscription and released none twice.
MountsAreFenced == Mounts!CurrentRendererLives /\ Mounts!SubscriptionsReleasedOnce

\* hubQuarantines.ts, hubTransport.ts: what a row says of its operation is what the Hub
\* decided, and at the moment a clean read clears the row the list shown is that read,
\* without the listing that was resolved.
RowIsTrue == Actions!OutcomeIsTrue /\ Actions!ClearedByItsRead

\* syncEntityOptionsDemand, claimPluginRouteRender: a family's subscription is counted
\* once for each holder; demand, claim and surface agree, whatever render settles when;
\* and a route with a descriptor shows its own surface.
DemandIsOfTheRoute ==
  Surfaces!RefsAreHolders /\ Surfaces!DemandFollowsClaim /\ Surfaces!RouteShowsItsSurface

\* What a part waits for.
Waits ==
  \/ part = "logs" /\ Loading
  \/ part = "mounts" /\ Mounts!Opening
  \/ part = "actions" /\ Actions!Resolving
  \/ part = "surfaces" /\ Surfaces!Rendering

\* LoadingEnds, ViewSettles, RowSettles and RenderingEnds: a logs view shows an answer
\* or a refusal, an opened terminal view mounts or fails, a row does not say Resolving
\* for ever, and a surface shows a root or an error.
WaitsEnd == Waits ~> ~Waits
=============================================================================
