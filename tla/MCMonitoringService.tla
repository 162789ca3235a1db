------------------------ MODULE MCMonitoringService ------------------------
(***************************************************************************)
(* Instances of MonitoringService: two callers start and stop up to three  *)
(* loops, so that a loop that outlived its stop meets its successor's      *)
(* start, stop and successor.                                              *)
(***************************************************************************)
EXTENDS MonitoringService

=============================================================================
