----------------------------- MODULE MCSessions -----------------------------
(* What a message of the operator sets off, explored one part at a time:    *)
(* its way through the manager, the handlers that change the agent's state, *)
(* and the analysis of a frame with the tools the model calls.              *)
EXTENDS AgentSession, ChatTurn, FrameAnalysis

VARIABLE part

MCInit ==
  /\ AgentInit /\ TurnInit /\ AnalysisInit
  /\ part \in {"agent", "turn", "analysis"}
  /\ loaded \/ part = "turn"

MCAgent ==
  part = "agent" /\ AgentNext /\ UNCHANGED <<turnVars, analysisVars, part>>

MCTurn ==
  part = "turn" /\ TurnNext /\ UNCHANGED <<agentVars, analysisVars, part>>

MCAnalysis ==
  part = "analysis" /\ AnalysisNext /\ UNCHANGED <<agentVars, turnVars, part>>

MCNext == MCAgent \/ MCTurn \/ MCAnalysis

MCSpec ==
  /\ MCInit /\ [][MCNext]_<<agentVars, turnVars, analysisVars, part>>
  /\ AnalysisFairness

MCTypeOK == AgentTypeOK /\ TurnTypeOK /\ AnalysisTypeOK
=============================================================================
