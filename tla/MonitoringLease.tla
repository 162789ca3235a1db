-------------------------- MODULE MonitoringLease --------------------------
(***************************************************************************)
(* What the monitoring service promises about its loops: at most one runs, *)
(* and a loop that has stopped running never runs again.                   *)
(***************************************************************************)

CONSTANT Loops

VARIABLES
  running,    \* the loops that watch the camera for boards
  retired     \* the loops that did

Init == running = {} /\ retired = {}

Grant(l) ==
  /\ running = {}
  /\ l \in Loops \ retired
  /\ running' = {l}
  /\ UNCHANGED retired

Retire ==
  /\ running # {}
  /\ running' = {}
  /\ retired' = retired \cup running

Next == Retire \/ \E l \in Loops : Grant(l)

Spec == Init /\ [][Next]_<<running, retired>>

=============================================================================
