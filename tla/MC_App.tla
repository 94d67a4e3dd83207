-------------------------------- MODULE MC_App --------------------------------
(***************************************************************************)
(* App for TLC.  MC_App.cfg gives the constants their values: the bounds   *)
(* of each part are named there.                                           *)
(***************************************************************************)
EXTENDS App
=============================================================================
