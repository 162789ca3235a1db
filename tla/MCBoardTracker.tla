--------------------------- MODULE MCBoardTracker ---------------------------
(***************************************************************************)
(* Instances of BoardTracker.  The depths 2, 3 and 5 are the defaults of   *)
(* the code; the number of tracks and the limit of the signature set are   *)
(* scaled down.                                                            *)
(***************************************************************************)
EXTENDS BoardTracker

=============================================================================
