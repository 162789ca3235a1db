---------------------------- MODULE AgentSession ----------------------------
(***************************************************************************)
(* The handlers of the general domain that start, end and pause the work   *)
(* of the agent (agents/mcp/domains/general/executor.py), run at once by   *)
(* the workers of one pool.  They share the operational state, which is    *)
(* read, asked and changed under three separate holds of its lock, the     *)
(* current session, which _session_lock covers in some handlers only, and  *)
(* the monitoring loop.                                                    *)
(*                                                                         *)
(* Any worker may run any handler: the state a tool is allowed in is       *)
(* tested when the call is submitted and not when it runs.  Starting and   *)
(* stopping the loop is one step here; module MonitoringService has the    *)
(* steps.                                                                  *)
(***************************************************************************)
EXTENDS AgentStates, Naturals, Sequences, FiniteSets

CONSTANTS
  Workers,      \* threads of the pool of the general executor
  MaxSessions,  \* bound of the model: sessions ever started
  NoWorker

ASSUME SessionAssumption == MaxSessions \in Nat /\ NoWorker \notin Workers

VARIABLES
  mode,      \* AgentStateMachine._state
  labelled,  \* AgentStateMachine._current_session_id
  session,   \* _current_session; sessions are numbered, 0 is None
  closed,    \* _sessions
  begun,     \* sessions created so far
  locker,    \* the worker that holds _session_lock between two steps
  looping,   \* the service has a monitoring loop that runs
  phase,     \* where the handler of each worker is
  before,    \* the state an analysis is to put back
  leaving    \* workers whose end_session is part of a shutdown

agentVars ==
  <<mode, labelled, session, closed, begun, locker, looping, phase, before,
    leaving>>

NoSession == 0

Phases ==
  {"idle", "reading", "waking", "switching", "launching", "entering",
   "stopping", "checking", "unmonitoring", "closing", "halting", "questioning",
   "resting", "powering off", "idling", "asking", "turning", "analyzing",
   "choosing", "restoring", "settling"}

AgentTypeOK ==
  /\ mode \in AgentStateSet
  /\ {labelled, session} \subseteq 0..MaxSessions
  /\ closed \in Seq(1..MaxSessions) /\ begun \in 0..MaxSessions
  /\ locker \in Workers \union {NoWorker} /\ looping \in BOOLEAN
  /\ phase \in [Workers -> Phases] /\ before \in [Workers -> AgentStateSet]
  /\ leaving \subseteq Workers

AgentInit ==
  /\ mode = "OFF" /\ labelled = NoSession /\ session = NoSession
  /\ closed = <<>> /\ begun = 0 /\ locker = NoWorker /\ looping = FALSE
  /\ phase = [w \in Workers |-> "idle"]
  /\ before = [w \in Workers |-> "OFF"] /\ leaving = {}

Goes(w, from, to) == phase[w] = from /\ phase' = [phase EXCEPT ![w] = to]

SameSession == UNCHANGED <<labelled, session, closed, begun>>

\* transition_to: the handler goes on, or ends with the ValueError.
Transition(w, target, from, to) ==
  \/ CanTransition(mode, target) /\ mode' = target /\ Goes(w, from, to)
  \/ ~ CanTransition(mode, target) /\ UNCHANGED mode /\ Goes(w, from, "idle")

\* A browser connects (websocket/chat.py).
Connect ==
  /\ mode = "OFF" /\ mode' = "IDLE"
  /\ SameSession /\ UNCHANGED <<locker, looping, phase, before, leaving>>

-----------------------------------------------------------------------------
(* start_monitoring_session *)

\* A session that is still open is closed first, under the lock.
BeginSession(w) ==
  /\ Goes(w, "idle", "reading")
  /\ locker = NoWorker /\ begun < MaxSessions
  /\ closed' = IF session = NoSession THEN closed ELSE Append(closed, session)
  /\ begun' = begun + 1 /\ session' = begun' /\ labelled' = begun'
  /\ UNCHANGED <<mode, locker, looping, before, leaving>>

ReadMode(w) ==
  /\ Goes(w, "reading", CASE mode \in {"OFF", "ERROR"} -> "waking"
                          [] mode = "MONITORING"       -> "launching"
                          [] OTHER                     -> "switching")
  /\ SameSession /\ UNCHANGED <<mode, locker, looping, before, leaving>>

StartTransition(w) ==
  /\ \/ Transition(w, "IDLE", "waking", "switching")
     \/ Transition(w, "MONITORING", "switching", "launching")
  /\ SameSession /\ UNCHANGED <<locker, looping, before, leaving>>

\* The answer of start_monitoring, which may be False, is not looked at.
StartLoop(w) ==
  /\ Goes(w, "launching", "idle")
  /\ looping' \in {looping, TRUE}
  /\ SameSession /\ UNCHANGED <<mode, locker, before, leaving>>

-----------------------------------------------------------------------------
(* end_session, and shutdown_agent which calls it *)

CallEndSession(w) ==
  /\ Goes(w, "idle", "entering")
  /\ SameSession /\ UNCHANGED <<mode, locker, looping, before, leaving>>

\* shutdown_agent tests the session without the lock.
CallShutdown(w) ==
  /\ IF session # NoSession
     THEN Goes(w, "idle", "entering") /\ leaving' = leaving \union {w}
     ELSE Goes(w, "idle", "halting") /\ UNCHANGED leaving
  /\ SameSession /\ UNCHANGED <<mode, locker, looping, before>>

Caller(w) == IF w \in leaving THEN "halting" ELSE "idle"

\* Mutant: the session is tested before the lock is taken.
EnterEndSession_unlocked(w) ==
  /\ Goes(w, "entering", IF session = NoSession THEN Caller(w) ELSE "stopping")
  /\ leaving' = IF session = NoSession THEN leaving \ {w} ELSE leaving
  /\ SameSession /\ UNCHANGED <<mode, locker, looping, before>>

EnterEndSession(w) ==
  /\ locker = NoWorker
  /\ IF session = NoSession
     THEN /\ Goes(w, "entering", Caller(w))
          /\ leaving' = leaving \ {w} /\ UNCHANGED locker
     ELSE Goes(w, "entering", "stopping") /\ locker' = w /\ UNCHANGED leaving
  /\ SameSession /\ UNCHANGED <<mode, looping, before>>

StopLoop(w) ==
  /\ Goes(w, "stopping", "checking")
  /\ looping' = FALSE
  /\ SameSession /\ UNCHANGED <<mode, locker, before, leaving>>

CheckMode(w) ==
  /\ Goes(w, "checking", IF mode = "MONITORING" THEN "unmonitoring" ELSE "closing")
  /\ SameSession /\ UNCHANGED <<mode, locker, looping, before, leaving>>

\* If another handler has moved the state on, the ValueError leaves the
\* session open, and the shutdown undone.
LeaveMonitoring(w) ==
  /\ Transition(w, "IDLE", "unmonitoring", "closing")
  /\ IF CanTransition(mode, "IDLE")
     THEN UNCHANGED <<locker, leaving>>
     ELSE locker' = NoWorker /\ leaving' = leaving \ {w}
  /\ SameSession /\ UNCHANGED <<looping, before>>

\* Mutant: the session that was ended stays the current one.
CloseSession_keeps(w) ==
  /\ Goes(w, "closing", Caller(w))
  /\ closed' = Append(closed, session)
  /\ locker' = NoWorker /\ leaving' = leaving \ {w}
  /\ UNCHANGED <<mode, labelled, session, begun, looping, before>>

CloseSession(w) ==
  /\ Goes(w, "closing", Caller(w))
  /\ closed' = Append(closed, session)
  /\ session' = NoSession /\ labelled' = NoSession
  /\ locker' = NoWorker /\ leaving' = leaving \ {w}
  /\ UNCHANGED <<mode, begun, looping, before>>

\* The rest of shutdown_agent.
Halt(w) ==
  /\ Goes(w, "halting", "questioning")
  /\ looping' = FALSE
  /\ SameSession /\ UNCHANGED <<mode, locker, before, leaving>>

PowerOff(w) ==
  /\ \/ /\ Goes(w, "questioning", IF mode # "IDLE" /\ CanTransition(mode, "IDLE")
                                  THEN "resting" ELSE "powering off")
        /\ UNCHANGED mode
     \/ Transition(w, "IDLE", "resting", "powering off")
     \/ Transition(w, "OFF", "powering off", "idle")
  /\ SameSession /\ UNCHANGED <<locker, looping, before, leaving>>

-----------------------------------------------------------------------------
(* go_idle and acknowledge_error *)

CallGoIdle(w) ==
  /\ Goes(w, "idle", "idling")
  /\ looping' = FALSE
  /\ SameSession /\ UNCHANGED <<mode, locker, before, leaving>>

BecomeIdle(w) ==
  /\ Transition(w, "IDLE", "idling", "idle")
  /\ SameSession /\ UNCHANGED <<locker, looping, before, leaving>>

AcknowledgeError(w) ==
  /\ Transition(w, "IDLE", "idle", "idle")
  /\ SameSession /\ UNCHANGED <<locker, looping, before, leaving>>

-----------------------------------------------------------------------------
(* analyze_current_frame *)

CallAnalyze(w) ==
  /\ Goes(w, "idle", "asking")
  /\ before' = [before EXCEPT ![w] = mode]
  /\ SameSession /\ UNCHANGED <<mode, locker, looping, leaving>>

\* Ask, then turn: a transition that has become invalid ends the handler.
BecomeAnalyzing(w) ==
  /\ \/ /\ Goes(w, "asking", IF CanTransition(mode, "ANALYZING")
                             THEN "turning" ELSE "analyzing")
        /\ UNCHANGED mode
     \/ Transition(w, "ANALYZING", "turning", "analyzing")
  /\ SameSession /\ UNCHANGED <<locker, looping, before, leaving>>

\* The analysis is over, with an event, without one or with an exception.
EndAnalysis(w) ==
  /\ Goes(w, "analyzing", IF mode = "ANALYZING" THEN "choosing" ELSE "idle")
  /\ SameSession /\ UNCHANGED <<mode, locker, looping, before, leaving>>

ChooseState(w) ==
  /\ Goes(w, "choosing", CASE CanTransition(mode, before[w]) -> "restoring"
                           [] CanTransition(mode, "IDLE") /\
                              ~ CanTransition(mode, before[w]) -> "settling"
                           [] OTHER -> "idle")
  /\ SameSession /\ UNCHANGED <<mode, locker, looping, before, leaving>>

PutBack(w) ==
  /\ \/ Transition(w, before[w], "restoring", "idle")
     \/ Transition(w, "IDLE", "settling", "idle")
  /\ SameSession /\ UNCHANGED <<locker, looping, before, leaving>>

-----------------------------------------------------------------------------
Call(w) ==
  \/ BeginSession(w) \/ CallEndSession(w) \/ CallShutdown(w)
  \/ CallGoIdle(w) \/ AcknowledgeError(w) \/ CallAnalyze(w)

HandlerStep(w) ==
  \/ ReadMode(w) \/ StartTransition(w) \/ StartLoop(w)
  \/ EnterEndSession(w) \/ StopLoop(w) \/ CheckMode(w) \/ LeaveMonitoring(w)
  \/ CloseSession(w) \/ Halt(w) \/ PowerOff(w) \/ BecomeIdle(w)
  \/ BecomeAnalyzing(w) \/ EndAnalysis(w) \/ ChooseState(w) \/ PutBack(w)

AgentNext == Connect \/ \E w \in Workers : Call(w) \/ HandlerStep(w)

AgentSpec == AgentInit /\ [][AgentNext]_agentVars

-----------------------------------------------------------------------------
\* Every session that was ever started is either the current one or in the
\* history, once, however starts, ends and shutdowns overlap, and the state
\* machine labels its transitions with the current one.
SessionBooks ==
  LET past == {closed[i] : i \in DOMAIN closed}
  IN /\ past \union ({session} \ {NoSession}) = 1..begun
     /\ Cardinality(past) = Len(closed)
     /\ session \notin past
     /\ labelled = session

=============================================================================
