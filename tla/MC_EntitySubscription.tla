------------------------ MODULE MC_EntitySubscription ------------------------
(***************************************************************************)
(* EntitySubscription with deltas that come ahead of their snapshot.        *)
(***************************************************************************)
EXTENDS EntitySubscription

Early == {{"early"}}

=============================================================================
