-------------------------- MODULE MC_RequestWindow --------------------------
(***************************************************************************)
(* RequestWindow for TLC: a window and a line that three callers overfill, *)
(* and enough generations for a stale one.                                 *)
(***************************************************************************)
EXTENDS RequestWindow

=============================================================================
