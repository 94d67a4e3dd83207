----------------------------- MODULE SurfaceDemand -----------------------------
(***************************************************************************)
(* The plugin surface of the route on the page: the claim of a render, the *)
(* surface that is shown, the entity families its options demand           *)
(* (usePluginRouteState), and the counted subscriptions of the transport   *)
(* that carry them (hubTransport).                                         *)
(*                                                                         *)
(* A route is the key of an app or settings surface.  A render's number is *)
(* the claim that dispatched it; the dispatcher settles renders in any     *)
(* order.  A surface's root is the set of families its options name.       *)
(***************************************************************************)
EXTENDS Integers, FiniteSets

CONSTANTS
  Routes,        \* route keys of plugin surfaces
  Families,      \* families with a subscription of their own
  ProcessWide,   \* families the page holds anyway: session, session_type
  NoRoute,       \* no plugin surface is on the page
  MaxRenders     \* bound of the model: renders

VARIABLES
  route,      \* the route on the page
  ready,      \* routes whose descriptor has a launch action and no diagnostic
  claimed,    \* claimedPluginRouteKey
  surface,    \* selectedPluginSurface; `by` is the render its content is from
  dirty,      \* the surface was set and the effect on it has not run
  demanded,   \* demandedFamiliesRef
  refCount,   \* genericEntitySubscriptions, 0 if there is no entry
  other,      \* families held by the other holder, demandEntityFamily of the live harness
  renders,    \* dispatched renders that are not settled
  lastRender, \* number of the last one
  acting      \* routes with a plugin action that is not settled

vars == <<route, ready, claimed, surface, dirty, demanded, refCount, other, renders, lastRender, acting>>

AllFamilies == Families \cup ProcessWide
Keys == Routes \cup {NoRoute}
Phases == {"rendering", "rendered", "error"}
NoSurface == [key |-> NoRoute, phase |-> "error", root |-> {}, by |-> 0]
NoDemand == [key |-> NoRoute, families |-> {}]

Init ==
  /\ route = NoRoute /\ claimed = NoRoute
  /\ ready \in SUBSET Routes
  /\ surface = NoSurface /\ dirty = FALSE
  /\ demanded = NoDemand
  /\ refCount = [f \in Families |-> 0]
  /\ other = {} /\ renders = {} /\ acting = {}
  /\ lastRender = 0

-----------------------------------------------------------------------------
(* Subscriptions and demand.                                               *)

\* ensureGenericEntitySubscription and releaseGenericEntitySubscription.
Ensured(f, c) == c + 1
ReleasedWhole(f, c) == 0   \* mutant: a release closes the subscription for every holder
Released(f, c) == IF c > 0 THEN c - 1 ELSE 0

\* diffEntityOptionsDemand: what a sync ensures and releases beside what a change of
\* the route releases.
DemandsAll(root, held) == root   \* mutant: families that are held are ensured again
Demands(root, held) == root \ held
ReleasesNothing(root, held) == {}   \* mutant: families the root no longer names stay
Releases(root, held) == (held \ root) \ ProcessWide
AbandonedNothing(key) == {}   \* mutant: the families of the last route stay
Abandoned(key) == IF demanded.key # key THEN demanded.families \ ProcessWide ELSE {}

\* syncEntityOptionsDemand; root is {} for a surface that is loading.
SyncDemand(key, root) ==
  LET held == IF demanded.key # key THEN {} ELSE demanded.families
      gone == Abandoned(key)
      added == IF key = NoRoute THEN {} ELSE Demands(root, held)
      dropped == IF key = NoRoute THEN {} ELSE Releases(root, held)
      After1(f) == IF f \in gone THEN Released(f, refCount[f]) ELSE refCount[f]
      After2(f) == IF f \in added THEN Ensured(f, After1(f)) ELSE After1(f)
  IN /\ refCount' = [f \in Families |-> IF f \in dropped THEN Released(f, After2(f)) ELSE After2(f)]
     /\ demanded' = IF key = NoRoute THEN NoDemand ELSE [key |-> key, families |-> root]

-----------------------------------------------------------------------------
(* The effects.                                                            *)

\* claimPluginRouteRender
ClaimsIfFree(key) == claimed = NoRoute   \* mutant: a claim is not taken over
Claims(key) == claimed # key

\* The effects of one commit, for the route and descriptors of that commit: without a
\* plugin route the claim and its demand end; a ready route that is not claimed is
\* claimed, shown as rendering and rendered.
ClaimKept == claimed   \* mutant: leaving the route keeps the claim
ClaimLeft == NoRoute
RunEffects(r, descriptors) ==
  IF r = NoRoute
  THEN /\ claimed' = ClaimLeft
       /\ SyncDemand(NoRoute, {})
       /\ UNCHANGED <<surface, dirty, renders, lastRender>>
  ELSE IF r \in descriptors /\ Claims(r)
  THEN /\ lastRender < MaxRenders
       /\ lastRender' = lastRender + 1
       /\ claimed' = r
       /\ surface' = [key |-> r, phase |-> "rendering", root |-> {}, by |-> lastRender + 1]
       /\ dirty' = TRUE
       /\ renders' = renders \cup {[id |-> lastRender + 1, key |-> r]}
       /\ SyncDemand(r, {})
  ELSE UNCHANGED <<claimed, surface, dirty, demanded, refCount, renders, lastRender>>

Navigate(r) ==
  /\ r # route
  /\ route' = r
  /\ RunEffects(r, ready)
  /\ UNCHANGED <<ready, other, acting>>

\* Package rows arrive: a descriptor gains or loses its launch action.
DescriptorChanges(r) ==
  /\ ready' = IF r \in ready THEN ready \ {r} ELSE ready \cup {r}
  /\ RunEffects(route, ready')
  /\ UNCHANGED <<route, other, acting>>

\* isPluginRouteCompletionCurrent
CurrentAnyway(key) == TRUE   \* mutant: a stale completion is applied
CompletionCurrent(key) == claimed = key

\* A render settles: rendered with a root, or with an error (refused, no snapshot, the
\* action deadline).
RenderCompletedSilently(x, phase, root) ==   \* mutant: a failed render goes on rendering
  [key |-> x.key, phase |-> IF phase = "error" THEN "rendering" ELSE phase, root |-> root, by |-> x.id]
RenderCompleted(x, phase, root) == [key |-> x.key, phase |-> phase, root |-> root, by |-> x.id]
Completes(x, phase, root) ==
  /\ x \in renders
  /\ phase = "error" => root = {}
  /\ renders' = renders \ {x}
  /\ IF CompletionCurrent(x.key)
     THEN /\ surface' = RenderCompleted(x, phase, root)
          /\ dirty' = TRUE
          /\ IF phase = "rendered" THEN SyncDemand(x.key, root) ELSE UNCHANGED <<demanded, refCount>>
     ELSE UNCHANGED <<surface, dirty, demanded, refCount>>
  /\ UNCHANGED <<route, ready, claimed, other, lastRender, acting>>

\* A plugin action of the surface on the page, and its accepted result, which replaces
\* the root of the surface it names if that one is selected.
Act ==
  /\ surface.key = route /\ surface.phase = "rendered"
  /\ acting' = acting \cup {surface.key}
  /\ UNCHANGED <<route, ready, claimed, surface, dirty, demanded, refCount, other, renders, lastRender>>

ActionResult(r, root) ==
  /\ r \in acting
  /\ acting' = acting \ {r}
  /\ IF surface.key = r /\ surface.phase = "rendered"
     THEN surface' = [surface EXCEPT !.root = root] /\ dirty' = TRUE
     ELSE UNCHANGED <<surface, dirty>>
  /\ UNCHANGED <<route, ready, claimed, demanded, refCount, other, renders, lastRender>>

\* The effect on the selected surface.
SurfaceEffect ==
  /\ dirty
  /\ dirty' = FALSE
  /\ IF surface.phase = "rendered" /\ CompletionCurrent(surface.key)
     THEN SyncDemand(surface.key, surface.root)
     ELSE UNCHANGED <<demanded, refCount>>
  /\ UNCHANGED <<route, ready, claimed, surface, other, renders, lastRender, acting>>

\* Another holder of a family's subscription takes it, and gives it back.
OtherDemands(f) ==
  /\ f \notin other
  /\ other' = other \cup {f}
  /\ refCount' = [refCount EXCEPT ![f] = Ensured(f, @)]
  /\ UNCHANGED <<route, ready, claimed, surface, dirty, demanded, renders, lastRender, acting>>

OtherReleases(f) ==
  /\ f \in other
  /\ other' = other \ {f}
  /\ refCount' = [refCount EXCEPT ![f] = Released(f, @)]
  /\ UNCHANGED <<route, ready, claimed, surface, dirty, demanded, renders, lastRender, acting>>

-----------------------------------------------------------------------------
Settles(x) == \E phase \in {"rendered", "error"}, root \in SUBSET AllFamilies : Completes(x, phase, root)

Next ==
  \/ \E r \in Keys : Navigate(r)
  \/ \E r \in Routes : DescriptorChanges(r)
  \/ \E x \in renders : Settles(x)
  \/ Act
  \/ \E r \in Routes, root \in SUBSET AllFamilies : ActionResult(r, root)
  \/ SurfaceEffect
  \/ \E f \in Families : OtherDemands(f) \/ OtherReleases(f)

Spec == Init /\ [][Next]_vars

\* The dispatcher settles every render, by its deadline at the latest; effects run.
Fairness ==
  /\ WF_vars(SurfaceEffect)
  /\ WF_vars(\E x \in renders : Settles(x))
FairSpec == Spec /\ Fairness

-----------------------------------------------------------------------------
(* Properties.                                                             *)

\* Every variable has its type.
TypeOK ==
  /\ route \in Keys /\ claimed \in Keys
  /\ ready \subseteq Routes /\ acting \subseteq Routes
  /\ surface \in [key : Keys, phase : Phases, root : SUBSET AllFamilies, by : Nat]
  /\ dirty \in BOOLEAN
  /\ demanded \in [key : Keys, families : SUBSET AllFamilies]
  /\ refCount \in [Families -> Nat]
  /\ other \subseteq Families
  /\ renders \subseteq [id : Nat, key : Routes]
  /\ lastRender \in Nat

\* A family's subscription is counted once for each of its holders: what a route gave
\* back is neither kept nor taken from the other holder.
RefsAreHolders ==
  \A f \in Families :
    refCount[f] = (IF f \in demanded.families THEN 1 ELSE 0) + (IF f \in other THEN 1 ELSE 0)

\* Demand, claim and surface agree: the demand is that of the claim, the selected surface is
\* the claimed one, and once its effect ran a rendered surface has exactly its families.
DemandFollowsClaim ==
  /\ demanded.key = claimed
  /\ claimed = NoRoute => demanded.families = {}
  /\ claimed # NoRoute => surface.key = claimed
  /\ ~dirty /\ claimed # NoRoute /\ surface.phase = "rendered" => demanded.families = surface.root

\* A route with a descriptor shows its own surface, and no other route's.
RouteShowsItsSurface == route \in ready => surface.key = route

\* A surface does not render for ever: it shows a root or an error, unless it is left.
Rendering == claimed # NoRoute /\ surface.key = claimed /\ surface.phase = "rendering"
RenderingEnds == Rendering ~> ~Rendering

\* The surface on the page is of the newest render: one that finishes after a newer claim
\* writes nothing.
OlderRenderIgnored == claimed # NoRoute => surface.by = lastRender
=============================================================================
