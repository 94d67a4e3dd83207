------------------------- MODULE MC_TerminalHydration -------------------------
(***************************************************************************)
(* Instances of TerminalHydration; the bounds of each are in its .cfg.     *)
(***************************************************************************)
EXTENDS TerminalHydration

=============================================================================
