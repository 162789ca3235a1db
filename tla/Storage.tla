------------------------------- MODULE Storage -------------------------------
(***************************************************************************)
(* The database as a process uses it: start-up first, then the pool; a     *)
(* crash takes both down (run.py, app/database/connection.py).             *)
(***************************************************************************)
EXTENDS ConnectionPool, DatabaseSetup

allVars == <<vars, setupVars>>

StorageInit == Init /\ SetupInit

Serve == ready /\ Next /\ UNCHANGED setupVars

StartUp ==
  (RunStatement \/ Finish \/ EditSettings) /\ UNCHANGED vars

\* Connections die with the process; what was committed is in the file.
Crash ==
  /\ Restart
  /\ pool' = <<>> /\ initialized' = FALSE /\ lock' = NoClient /\ created' = 0
  /\ opened' = {} /\ writer' = NoConn
  /\ pc' = [c \in Clients |-> "idle"] /\ conn' = [c \in Clients |-> NoConn]
  /\ temporary' = {}
  /\ answer' = [c \in Clients |-> "none"]
  /\ uncommitted' = {}
  /\ UNCHANGED <<writes, committer, openErrors>>

StorageNext == Serve \/ StartUp \/ Crash

StorageSpec ==
  /\ StorageInit /\ [][StorageNext]_allVars
  /\ WF_allVars(RunStatement /\ UNCHANGED vars)
  /\ WF_allVars(Finish /\ UNCHANGED vars)
  /\ \A c \in Clients : WF_allVars(ready /\ Step(c) /\ UNCHANGED setupVars)

StorageTypeOK == TypeOK /\ SetupTypeOK
=============================================================================
