---------------------------- MODULE OrderedTerminal ----------------------------
(***************************************************************************)
(* What a terminal data plane promises its renderer, without routes,       *)
(* epochs, snapshot pages or buffers: the renderer shows a prefix of what  *)
(* the session produced.  A snapshot moves it forward in one step, output  *)
(* is applied one piece after the other and only once the snapshot is      *)
(* complete, and the exit comes after the last piece.                      *)
(***************************************************************************)
EXTENDS Naturals

VARIABLES
  produced,  \* pieces of output the session has produced
  ended,     \* the session's process has exited
  screen,    \* pieces the renderer shows
  view,      \* "cold", "restored" from a snapshot, "live" with output applied
  exited     \* the exit was reported

absVars == <<produced, ended, screen, view, exited>>

Init ==
  /\ produced = 0 /\ ended = FALSE
  /\ screen = 0 /\ view = "cold" /\ exited = FALSE

Produce ==
  /\ ~ended
  /\ produced' = produced + 1
  /\ UNCHANGED <<ended, screen, view, exited>>

End == ended' = TRUE /\ UNCHANGED <<produced, screen, view, exited>>

\* A new attachment or a resynchronization: live output stops.
Interrupt == view' = "cold" /\ UNCHANGED <<produced, ended, screen, exited>>

\* The visible screen of a snapshot, never an older one than is shown.
Restore ==
  /\ view = "cold" /\ view' = "restored"
  /\ screen' \in screen .. produced
  /\ UNCHANGED <<produced, ended, exited>>

\* The snapshot is complete; only now is output applied.
GoLive ==
  /\ view = "restored" /\ view' = "live"
  /\ UNCHANGED <<produced, ended, screen, exited>>

Apply ==
  /\ view = "live" /\ screen < produced
  /\ screen' = screen + 1
  /\ UNCHANGED <<produced, ended, view, exited>>

ReportExit ==
  /\ view = "live" /\ ended /\ screen = produced
  /\ exited' = TRUE
  /\ UNCHANGED <<produced, ended, screen, view>>

Next == Produce \/ End \/ Interrupt \/ Restore \/ GoLive \/ Apply \/ ReportExit

Spec == Init /\ [][Next]_absVars

=============================================================================
