--------------------------- MODULE CircuitBreaker ---------------------------
(***************************************************************************)
(* The circuit breaker of the vision model (core/resilience.py) and the    *)
(* three ways the vision agent uses it (agents/core/detection_agent.py):   *)
(* analyze_frame calls through it and retries, analyze_with_prompt calls   *)
(* through it once, analyze_agentic only looks whether it is open.         *)
(*                                                                         *)
(* The breaker's lock covers the admission and the accounting of a call,   *)
(* never the call itself, so results come back in states of the breaker    *)
(* other than the one that admitted them.                                  *)
(***************************************************************************)
EXTENDS Naturals, FiniteSets

CONSTANTS
  Inspectors,   \* threads that use the agent
  Threshold,    \* failure_threshold
  Retries       \* max_retries of _run_vlm_analysis

ASSUME BreakerAssumption ==
  /\ IsFiniteSet(Inspectors)
  /\ Threshold \in Nat \ {0}
  /\ Retries \in Nat

VARIABLES
  state,         \* CircuitBreaker.state
  failureCount,  \* failure_count, which only its comparison with Threshold reads
  recovered,     \* recovery_timeout has passed since last_failure_time
  pc,            \* where each caller is
  tries,         \* attempts a caller has left after the current one
  up,            \* the model server answers
  admitted       \* history: calls let through since the last good sign

circuitVars == <<state, failureCount, recovered>>
breakerVars == <<circuitVars, pc, tries, up, admitted>>

States == {"CLOSED", "OPEN", "HALF_OPEN"}
Places == {"idle", "asking", "inside", "outside"}
Paths  == {"frame", "prompt", "agentic"}

AtMost(limit, n) == IF n < limit THEN n ELSE limit

MoveTo(c, place) == pc' = [pc EXCEPT ![c] = place]

BreakerInit ==
  /\ state = "CLOSED"
  /\ failureCount = 0
  /\ recovered = TRUE
  /\ pc = [c \in Inspectors |-> "idle"]
  /\ tries = [c \in Inspectors |-> 0]
  /\ up \in BOOLEAN
  /\ admitted = 0

-----------------------------------------------------------------------------
(* The agent *)

\* A caller enters one of the three analyses.  The agentic one gives up when
\* the circuit is open, and otherwise calls the model outside the breaker.
Ask(c, path) ==
  /\ pc[c] = "idle"
  /\ MoveTo(c, IF path # "agentic" THEN "asking"
             ELSE IF state = "OPEN" THEN "idle" ELSE "outside")
  /\ tries' = [tries EXCEPT ![c] = IF path = "frame" THEN Retries ELSE 0]
  /\ UNCHANGED <<circuitVars, up, admitted>>

\* The model's answer to an agentic inspection.
AgenticReturns(c) ==
  /\ pc[c] = "outside"
  /\ MoveTo(c, "idle")
  /\ UNCHANGED <<circuitVars, tries, up, admitted>>

-----------------------------------------------------------------------------
(* The breaker *)

\* Mutant: an open circuit admits a call whatever the time.
MayProbe_always == TRUE

MayProbe == recovered

\* CircuitBreaker.call, admission.
Admit(c) ==
  /\ pc[c] = "asking"
  /\ state = "OPEN" => MayProbe
  /\ state' = IF state = "OPEN" THEN "HALF_OPEN" ELSE state
  /\ MoveTo(c, "inside")
  /\ admitted' = admitted + 1
  /\ UNCHANGED <<failureCount, recovered, tries, up>>

\* CircuitBreaker.call raises "Circuit is OPEN": no user of it tries again.
Refuse(c) ==
  /\ pc[c] = "asking"
  /\ state = "OPEN" /\ ~ MayProbe
  /\ MoveTo(c, "idle")
  /\ UNCHANGED <<circuitVars, tries, up, admitted>>

\* Mutant: a success in half-open does not close the circuit.
CloseOn_openOnly == state = "OPEN"

CloseOn == state # "CLOSED"

\* The call returned.  A success in the closed state leaves the count alone.
Succeed(c) ==
  /\ pc[c] = "inside"
  /\ up
  /\ IF CloseOn
     THEN state' = "CLOSED" /\ failureCount' = 0
     ELSE UNCHANGED <<state, failureCount>>
  /\ MoveTo(c, "idle")
  /\ admitted' = 0
  /\ UNCHANGED <<recovered, tries, up>>

Trips == state = "HALF_OPEN" \/ failureCount' >= Threshold

MayRetry(c) == tries[c] > 0

\* The call raised: it is counted, and the caller retries if it has attempts.
Fail(c) ==
  /\ pc[c] = "inside"
  /\ ~ up
  /\ failureCount' = AtMost(Threshold, failureCount + 1)
  /\ recovered' = FALSE
  /\ state' = IF Trips THEN "OPEN" ELSE state
  /\ IF MayRetry(c)
     THEN MoveTo(c, "asking") /\ tries' = [tries EXCEPT ![c] = @ - 1]
     ELSE MoveTo(c, "idle") /\ UNCHANGED tries
  /\ UNCHANGED <<up, admitted>>

\* CircuitBreaker.reset, from POST /api/circuit_breaker/reset.
Reset ==
  /\ state' = "CLOSED"
  /\ failureCount' = 0
  /\ admitted' = 0
  /\ UNCHANGED <<recovered, pc, tries, up>>

RecoveryPasses ==
  /\ ~ recovered
  /\ recovered' = TRUE
  /\ admitted' = IF state = "OPEN" THEN 0 ELSE admitted
  /\ UNCHANGED <<state, failureCount, pc, tries, up>>

ServerChanges ==
  /\ up' = ~ up
  /\ UNCHANGED <<circuitVars, pc, tries, admitted>>

CallerStep(c) ==
  \/ \E path \in Paths : Ask(c, path)
  \/ AgenticReturns(c) \/ Admit(c) \/ Refuse(c) \/ Succeed(c) \/ Fail(c)

BreakerNext ==
  \/ \E c \in Inspectors : CallerStep(c)
  \/ Reset \/ RecoveryPasses \/ ServerChanges

BreakerSpec == BreakerInit /\ [][BreakerNext]_breakerVars

\* Threads run, requests to the model end (the router gives them timeouts),
\* and time passes.  Nobody has to ask.
BreakerFairness ==
  /\ WF_breakerVars(RecoveryPasses)
  /\ \A c \in Inspectors :
       /\ WF_breakerVars(Admit(c) \/ Refuse(c))
       /\ WF_breakerVars(AgenticReturns(c) \/ Succeed(c) \/ Fail(c))

FairBreakerSpec == BreakerSpec /\ BreakerFairness

-----------------------------------------------------------------------------
(* Properties *)

BreakerTypeOK ==
  /\ state \in States
  /\ failureCount \in 0..Threshold
  /\ recovered \in BOOLEAN
  /\ pc \in [Inspectors -> Places]
  /\ tries \in [Inspectors -> 0..Retries]
  /\ up \in BOOLEAN
  /\ admitted \in Nat

Inside == {c \in Inspectors : pc[c] = "inside"}

\* A server that is down is not hammered: between two good signs (a success, a
\* reset, the recovery time of an open circuit) the breaker lets through fewer
\* calls than the threshold plus one for each thread, however many retries and
\* late failures there are.
NoHammering == admitted < Threshold + Cardinality(Inspectors)

\* The circuit is closed only while its count is below the threshold, also when
\* results of calls admitted in an earlier state arrive.
ClosedBelowThreshold == state = "CLOSED" => failureCount < Threshold

\* Once the server answers for good and callers that go through the breaker
\* keep coming, the circuit closes for good.
Recovers ==
  <>[]up /\ []<>(\E c \in Inspectors : pc[c] = "asking")
    => <>[](state = "CLOSED")

(* The inductive invariant: while closed, a call let through since the last *)
(* good sign is still inside or was counted; while half-open, nobody has    *)
(* come back yet.                                                           *)
CallsAreCounted ==
  /\ state = "CLOSED" => admitted <= failureCount + Cardinality(Inside)
  /\ state = "HALF_OPEN" => admitted <= Cardinality(Inside)
  /\ state = "OPEN" /\ recovered => admitted = 0

BreakerIInv ==
  BreakerTypeOK /\ ClosedBelowThreshold /\ CallsAreCounted /\ NoHammering

=============================================================================
