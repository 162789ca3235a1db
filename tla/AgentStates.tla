---------------------------- MODULE AgentStates ----------------------------
(***************************************************************************)
(* The operational states of the inspection agent and the transition map   *)
(* that AgentStateMachine enforces (agents/mcp/state_machine.py).          *)
(***************************************************************************)

AgentStateSet ==
  {"OFF", "IDLE", "MONITORING", "ANALYZING", "ALERTING", "ERROR"}

\* VALID_STATE_TRANSITIONS
ValidTransitions ==
  [s \in AgentStateSet |->
     CASE s = "OFF"        -> {"IDLE"}
       [] s = "IDLE"       -> {"OFF", "MONITORING", "ANALYZING"}
       [] s = "MONITORING" -> {"OFF", "IDLE", "ANALYZING", "ALERTING", "ERROR"}
       [] s = "ANALYZING"  -> {"IDLE", "MONITORING", "ALERTING", "ERROR"}
       [] s = "ALERTING"   -> {"MONITORING", "IDLE", "ERROR"}
       [] s = "ERROR"      -> {"OFF", "IDLE"}]

\* can_transition_to: there is no self loop, so s to s is refused too
CanTransition(s, target) == target \in ValidTransitions[s]

=============================================================================
