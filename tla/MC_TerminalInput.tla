---------------------------- MODULE MC_TerminalInput ----------------------------
(***************************************************************************)
(* Instances of TerminalInput; the bounds of each are in its .cfg.         *)
(***************************************************************************)
EXTENDS TerminalInput

=============================================================================
