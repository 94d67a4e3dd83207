---------------------------- MODULE MC_TerminalRoute ----------------------------
(***************************************************************************)
(* Instances of TerminalRoute and their environments.                      *)
(***************************************************************************)
EXTENDS TerminalRoute

QuietAndBusy == {{}, {"busy"}}
Busy == {{"busy"}}
Unmounted == {{"unmounted"}}

\* handleTransportRecovered: a mounted terminal is re-attached after every recovery,
\* or fails visibly, or its peer is lost again.
QuietlyReattaches ==
  (Undisturbed /\ Reattaching) ~> ~Reattaching
=============================================================================
