----------------------------- MODULE MC_Transport -----------------------------
(***************************************************************************)
(* Transport for TLC: the environments of its two subscriptions, every     *)
(* fault and those a subscription heals from.  MC_Transport.cfg gives the  *)
(* other constants their values: the bounds of each part are named there.  *)
(***************************************************************************)
EXTENDS Transport

EntityWorlds == {AllFaults, HealingFaults}
\* Events!HealingFaults and Events!AllFaults.
EventWorlds == {{"peer", "channel"}, {"peer", "channel", "refusal", "unsubscribe"}}
=============================================================================
