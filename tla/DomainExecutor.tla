--------------------------- MODULE DomainExecutor ---------------------------
(***************************************************************************)
(* The tool-call pipeline that the general and the pcb domain share:       *)
(* BaseDomainExecutor in agents/mcp/executor_base.py and the life cycle of *)
(* a proposal in agents/mcp/lifecycle.py.                                  *)
(*                                                                         *)
(* Request threads submit, approve and reject proposals concurrently.  A   *)
(* thread that executes a proposal hands the tool's handler to a pool of   *)
(* worker threads and waits for it with a timeout.  Every step below is    *)
(* the code between two points where another thread can interfere: a lock  *)
(* region, a write to a proposal other threads can already reach, a read   *)
(* of the unlocked current session, or the hand-over to the pool.          *)
(***************************************************************************)
EXTENDS AgentStates, Naturals, Sequences, FiniteSets

CONSTANTS
  Proposals,    \* the tool calls that will be proposed (a uuid each)
  Threads,      \* request threads: HTTP, Socket.IO, the monitoring loop
  Workers,      \* threads of the pool (max_workers)
  Signatures,   \* hashes of (tool, arguments)
  SigOf,        \* the hash of each proposal
  Invalid,      \* proposals with an unknown tool or invalid arguments
  Confirm,      \* proposals whose tool has requires_confirmation
  AllowedIn,    \* allowed_in_states of the tool of each proposal
  Effect,       \* what the handler does to the session: open, close, none
  NoOne         \* no proposal

ASSUME ExecutorAssumption ==
  /\ SigOf \in [Proposals -> Signatures]
  /\ Invalid \subseteq Proposals
  /\ Confirm \subseteq Proposals
  /\ AllowedIn \in [Proposals -> SUBSET AgentStateSet]
  /\ Effect \in [Proposals -> {"open", "close", "none"}]
  /\ NoOne \notin Proposals

VARIABLES
  agent,        \* AgentStateMachine._state
  session,      \* BOOLEAN: is _current_session set?
  pstate,       \* proposal.state; "UNCREATED" before the proposal exists
  approvedBy,   \* proposal.approved_by
  denied,       \* proposals with a rejected_at
  pending,      \* _pending_proposals
  recent,       \* _recent_hashes not older than the 5 s window
  queue,        \* tasks waiting in the pool
  worker,       \* the task each worker runs
  future,       \* outcome of the task of each proposal
  pc, arg,      \* where each request thread is, and for which proposal
  runs,         \* history: how often the handler was started
  told          \* history: the answers callers got about each proposal

proposalVars == <<pstate, approvedBy, denied>>
poolVars     == <<queue, worker, future, runs>>
threadVars   == <<pc, arg, told>>
vars == <<agent, session, proposalVars, pending, recent, poolVars, threadVars>>

LifecycleStates ==
  {"UNCREATED", "PROPOSED", "PENDING_APPROVAL", "APPROVED", "REJECTED",
   "EXECUTING", "SUCCEEDED", "FAILED"}
Terminal == {"REJECTED", "SUCCEEDED", "FAILED"}

Steps == {"idle", "gate", "dedup", "park", "approve", "reject", "start", "wait",
          "count_executed", "count_rejected"}
Answers == {"pending", "rejected", "executed", "failed", "raised"}

Init ==
  /\ agent = "OFF"
  /\ session = FALSE
  /\ pstate = [p \in Proposals |-> "UNCREATED"]
  /\ approvedBy = [p \in Proposals |-> "none"]
  /\ denied = {}
  /\ pending = {}
  /\ recent = {}
  /\ queue = <<>>
  /\ worker = [w \in Workers |-> NoOne]
  /\ future = [p \in Proposals |-> "none"]
  /\ pc = [t \in Threads |-> "idle"]
  /\ arg = [t \in Threads |-> NoOne]
  /\ runs = [p \in Proposals |-> 0]
  /\ told = [p \in Proposals |-> {}]

-----------------------------------------------------------------------------
(* Guards of the life cycle: each raises ValueError when it does not hold. *)

MayDecide(s)   == s \in {"PROPOSED", "PENDING_APPROVAL"}
MayStart(s)    == s = "APPROVED"
MayComplete(s) == s = "EXECUTING"

SetState(p, s) == pstate' = [pstate EXCEPT ![p] = s]

(* Control of a request thread. *)

Goto(t, step) == pc' = [pc EXCEPT ![t] = step]

Return(t, p, answer) ==
  /\ Goto(t, "idle")
  /\ arg' = [arg EXCEPT ![t] = NoOne]
  /\ told' = [told EXCEPT ![p] = @ \cup {answer}]

\* "if self._current_session: self._current_session.<counter> += 1": the
\* unlocked test is made here, the second read is CountInSession.
TallyThenReturn(t, p, step, answer) ==
  IF session
  THEN Goto(t, step) /\ UNCHANGED <<arg, told>>
  ELSE Return(t, p, answer)

MarkRejected(p) == SetState(p, "REJECTED") /\ denied' = denied \cup {p}

RejectCall(t, p) ==
  /\ MarkRejected(p)
  /\ TallyThenReturn(t, p, "count_rejected", "rejected")

MarkApproved(p, who) ==
  /\ SetState(p, "APPROVED")
  /\ approvedBy' = [approvedBy EXCEPT ![p] = who]

\* proposal.complete(success=False) in the exception handlers: it raises out
\* of the call when the proposal is no longer EXECUTING.
FailCall(t, p) ==
  IF MayComplete(pstate[p])
  THEN SetState(p, "FAILED") /\ Return(t, p, "failed")
  ELSE UNCHANGED pstate /\ Return(t, p, "raised")

-----------------------------------------------------------------------------
(* submit_proposal *)

\* A caller creates the proposal and enters submit_proposal with it.
Propose(t, p) ==
  /\ pc[t] = "idle"
  /\ pstate[p] = "UNCREATED"
  /\ SetState(p, "PROPOSED")
  /\ Goto(t, "gate")
  /\ arg' = [arg EXCEPT ![t] = p]
  /\ UNCHANGED <<agent, session, approvedBy, denied, pending, recent, poolVars,
                 told>>

PassesGate(p) == p \notin Invalid /\ agent \in AllowedIn[p]

\* Registry lookup, validation and the agent-state gate.
Gate(t) ==
  LET p == arg[t] IN
  /\ pc[t] = "gate"
  /\ IF PassesGate(p)
     THEN Goto(t, "dedup") /\ UNCHANGED <<pstate, denied, arg, told>>
     ELSE RejectCall(t, p)
  /\ UNCHANGED <<agent, session, approvedBy, pending, recent, poolVars>>

Duplicate(p) == SigOf[p] \in recent

\* Mutant: an agent that is off does not ask for confirmation.
NeedsApproval_lax(p) == p \in Confirm /\ agent # "OFF"

\* requires_confirmation and not can_auto_approve; the latter is False
\* whenever confirmation is required.
NeedsApproval(p) == p \in Confirm

\* Mutants: the proposal is parked only inside a session; get instead of pop.
AddPending_lost(p)    == IF session THEN pending \cup {p} ELSE pending
RemovePending_get(p)  == pending

AddPending(p) == pending \cup {p}

RemovePending(p) == pending \ {p}

\* _is_duplicate, then park the proposal or approve it by policy.
Deduplicate(t) ==
  LET p == arg[t] IN
  /\ pc[t] = "dedup"
  /\ IF Duplicate(p)
     THEN /\ RejectCall(t, p)
          /\ UNCHANGED <<approvedBy, pending, recent>>
     ELSE /\ recent' = recent \cup {SigOf[p]}
          /\ UNCHANGED <<denied, arg, told>>
          /\ IF NeedsApproval(p)
             THEN /\ pending' = AddPending(p)
                  /\ Goto(t, "park")
                  /\ UNCHANGED <<pstate, approvedBy>>
             ELSE /\ MarkApproved(p, "policy")
                  /\ Goto(t, "start")
                  /\ UNCHANGED pending
  /\ UNCHANGED <<agent, session, poolVars>>

\* The submitter writes PENDING_APPROVAL after it released _proposals_lock:
\* by now another thread may have approved, executed or rejected p.
MarkPending(t) ==
  LET p == arg[t] IN
  /\ pc[t] = "park"
  /\ SetState(p, "PENDING_APPROVAL")
  /\ Return(t, p, "pending")
  /\ UNCHANGED <<agent, session, approvedBy, denied, pending, recent, poolVars>>

-----------------------------------------------------------------------------
(* approve_proposal and reject_proposal.  A proposal that is not pending is *)
(* answered with an error and changes nothing, so it is not an action.      *)

TakePending(t, p, step) ==
  /\ pc[t] = "idle"
  /\ p \in pending
  /\ pending' = RemovePending(p)
  /\ Goto(t, step)
  /\ arg' = [arg EXCEPT ![t] = p]
  /\ UNCHANGED <<agent, session, proposalVars, recent, poolVars, told>>

TakeToApprove(t, p) == TakePending(t, p, "approve")
TakeToReject(t, p)  == TakePending(t, p, "reject")

ApproveByUser(t) ==
  LET p == arg[t] IN
  /\ pc[t] = "approve"
  /\ IF MayDecide(pstate[p])
     THEN MarkApproved(p, "user") /\ Goto(t, "start") /\ UNCHANGED <<arg, told>>
     ELSE Return(t, p, "raised") /\ UNCHANGED <<pstate, approvedBy>>
  /\ UNCHANGED <<agent, session, denied, pending, recent, poolVars>>

RejectByUser(t) ==
  LET p == arg[t] IN
  /\ pc[t] = "reject"
  /\ IF MayDecide(pstate[p])
     THEN RejectCall(t, p)
     ELSE Return(t, p, "raised") /\ UNCHANGED <<pstate, denied>>
  /\ UNCHANGED <<agent, session, approvedBy, pending, recent, poolVars>>

-----------------------------------------------------------------------------
(* _execute_proposal *)

\* start_execution, then _pool.submit(self._invoke, ...).
StartExecution(t) ==
  LET p == arg[t] IN
  /\ pc[t] = "start"
  /\ IF MayStart(pstate[p])
     THEN /\ SetState(p, "EXECUTING")
          /\ queue' = Append(queue, p)
          /\ future' = [future EXCEPT ![p] = "pending"]
          /\ Goto(t, "wait")
          /\ UNCHANGED <<arg, told>>
     ELSE Return(t, p, "raised") /\ UNCHANGED <<pstate, queue, future>>
  /\ UNCHANGED <<agent, session, approvedBy, denied, pending, recent, worker,
                 runs>>

\* future.result returns: complete(success=True); when that raises, the
\* except clause calls complete(success=False), which raises as well.
ResultArrives(t) ==
  LET p == arg[t] IN
  /\ pc[t] = "wait"
  /\ future[p] = "ok"
  /\ IF MayComplete(pstate[p])
     THEN /\ SetState(p, "SUCCEEDED")
          /\ TallyThenReturn(t, p, "count_executed", "executed")
     ELSE FailCall(t, p)
  /\ UNCHANGED <<agent, session, approvedBy, denied, pending, recent, poolVars>>

\* future.result raises what the handler raised.
ErrorArrives(t) ==
  /\ pc[t] = "wait"
  /\ future[arg[t]] = "error"
  /\ FailCall(t, arg[t])
  /\ UNCHANGED <<agent, session, approvedBy, denied, pending, recent, poolVars>>

\* Mutant: the timeout starts to count only when a worker runs the task.
MayTimeOut_running(p) == future[p] = "pending" /\ \E w \in Workers : worker[w] = p

\* future.result(timeout=...) gives up while the task is queued or running;
\* the task is not cancelled.
MayTimeOut(p) == future[p] = "pending"

InvokeTimesOut(t) ==
  /\ pc[t] = "wait"
  /\ MayTimeOut(arg[t])
  /\ FailCall(t, arg[t])
  /\ UNCHANGED <<agent, session, approvedBy, denied, pending, recent, poolVars>>

\* The second read of _current_session: an end_session handler may have
\* cleared it since the test, and the AttributeError is caught only when a
\* result was being returned.
CountInSession(t) ==
  LET p == arg[t] IN
  /\ \/ /\ pc[t] = "count_executed"
        /\ IF session
           THEN Return(t, p, "executed") /\ UNCHANGED pstate
           ELSE FailCall(t, p)
     \/ /\ pc[t] = "count_rejected"
        /\ Return(t, p, IF session THEN "rejected" ELSE "raised")
        /\ UNCHANGED pstate
  /\ UNCHANGED <<agent, session, approvedBy, denied, pending, recent, poolVars>>

-----------------------------------------------------------------------------
(* The pool (ThreadPoolExecutor: first in, first out) and the handlers.     *)

StartHandler(w) ==
  /\ worker[w] = NoOne
  /\ queue # <<>>
  /\ worker' = [worker EXCEPT ![w] = Head(queue)]
  /\ queue' = Tail(queue)
  /\ runs' = [runs EXCEPT ![Head(queue)] = @ + 1]
  /\ UNCHANGED <<agent, session, proposalVars, pending, recent, future,
                 threadVars>>

\* What a handler leaves in _current_session when it returns or raises: the
\* handlers that open or close a session may fail before or after they do.
SessionsAfter(p, outcome) ==
  CASE Effect[p] = "open"  -> IF outcome = "ok" THEN {TRUE} ELSE {TRUE, session}
    [] Effect[p] = "close" -> IF outcome = "ok" THEN {FALSE} ELSE {FALSE, session}
    [] OTHER               -> {session}

FinishHandler(w, outcome) ==
  LET p == worker[w] IN
  /\ p # NoOne
  /\ session' \in SessionsAfter(p, outcome)
  /\ future' = [future EXCEPT ![p] = outcome]
  /\ worker' = [worker EXCEPT ![w] = NoOne]
  /\ UNCHANGED <<agent, proposalVars, pending, recent, queue, runs, threadVars>>

(* The environment. *)

\* A hash gets older than _DEDUP_WINDOW and is purged by the next caller.
WindowPasses(sig) ==
  /\ sig \in recent
  /\ recent' = recent \ {sig}
  /\ UNCHANGED <<agent, session, proposalVars, pending, poolVars, threadVars>>

\* Handlers, the chat server and the REST API move the agent; no caller of
\* transition_to ever asks for ALERTING or ERROR.
AgentMoves(target) ==
  /\ CanTransition(agent, target)
  /\ agent' = target
  /\ UNCHANGED <<session, proposalVars, pending, recent, poolVars, threadVars>>

-----------------------------------------------------------------------------

ThreadStep(t) ==
  \/ Gate(t) \/ Deduplicate(t) \/ MarkPending(t)
  \/ ApproveByUser(t) \/ RejectByUser(t)
  \/ StartExecution(t) \/ ResultArrives(t) \/ ErrorArrives(t)
  \/ InvokeTimesOut(t) \/ CountInSession(t)

Request(t, p) == Propose(t, p) \/ TakeToApprove(t, p) \/ TakeToReject(t, p)

WorkerStep(w) ==
  StartHandler(w) \/ \E outcome \in {"ok", "error"} : FinishHandler(w, outcome)

Next ==
  \/ \E t \in Threads : ThreadStep(t)
  \/ \E t \in Threads, p \in Proposals : Request(t, p)
  \/ \E w \in Workers : WorkerStep(w)
  \/ \E sig \in Signatures : WindowPasses(sig)
  \/ \E s \in AgentStateSet \ {"ALERTING", "ERROR"} : AgentMoves(s)

Spec == Init /\ [][Next]_vars

\* A request thread that can run does; future.result gives up by itself.
\* Nothing is assumed about handlers, which may hang for ever.
FairSpec == Spec /\ \A t \in Threads : WF_vars(ThreadStep(t))

-----------------------------------------------------------------------------
(* Properties *)

TypeOK ==
  /\ agent \in AgentStateSet
  /\ session \in BOOLEAN
  /\ pstate \in [Proposals -> LifecycleStates]
  /\ approvedBy \in [Proposals -> {"none", "policy", "user"}]
  /\ denied \subseteq Proposals
  /\ pending \subseteq Proposals
  /\ recent \subseteq Signatures
  /\ queue \in Seq(Proposals)
  /\ worker \in [Workers -> Proposals \cup {NoOne}]
  /\ future \in [Proposals -> {"none", "pending", "ok", "error"}]
  /\ pc \in [Threads -> Steps]
  /\ arg \in [Threads -> Proposals \cup {NoOne}]
  /\ \A t \in Threads : arg[t] = NoOne <=> pc[t] = "idle"
  /\ runs \in [Proposals -> Nat]
  /\ told \in [Proposals -> SUBSET Answers]

\* The handler of a proposal is started at most once, although the late write
\* of PENDING_APPROVAL can make an executing proposal look undecided again.
RunsAtMostOnce == \A p \in Proposals : runs[p] <= 1

Queued(p)  == \E i \in DOMAIN queue : queue[i] = p
Granted(p) ==
  approvedBy[p] = (IF p \in Confirm THEN "user" ELSE "policy") /\ p \notin denied

\* A handler is queued or started only for a call that was granted by the
\* party that had to grant it, and never for one that was rejected.
RunsOnlyWhenGranted ==
  \A p \in Proposals :
    runs[p] > 0 \/ Queued(p) => Granted(p)

\* An approval and a rejection that race never both take effect.
DecidedOnce == \A p \in denied : approvedBy[p] = "none"

\* A caller that was told to wait for a confirmation can still get one: the
\* proposal is pending, is in the hands of a thread deciding it, or decided.
InHands(p) == \E t \in Threads : pc[t] \in {"approve", "reject"} /\ arg[t] = p

NoLostConfirmation ==
  \A p \in Proposals :
    "pending" \in told[p] =>
      p \in pending \/ InHands(p) \/ approvedBy[p] = "user" \/ p \in denied

\* What a caller is told matches what happened: a call reported as executed
\* ran to its end without an exception, one reported as rejected never starts,
\* and no call gets two different final answers.
HonestAnswers ==
  \A p \in Proposals :
    /\ "executed" \in told[p] => runs[p] = 1 /\ future[p] = "ok"
    /\ "rejected" \in told[p] => runs[p] = 0 /\ approvedBy[p] = "none"
    /\ Cardinality(told[p] \ {"pending"}) <= 1

\* Every request gets an answer, whatever the handlers do.
EveryCallReturns == \A t \in Threads : pc[t] # "idle" ~> pc[t] = "idle"

(* The inductive invariant behind RunsAtMostOnce, RunsOnlyWhenGranted,       *)
(* DecidedOnce and the refinement: the right to decide or to start a         *)
(* proposal is a token.  It starts with the submitter, rests in              *)
(* _pending_proposals, and is taken from there by one thread.  The state of  *)
(* the proposal cannot play that part, since the late write resets it.       *)

Holds(t) == pc[t] \in {"gate", "dedup", "approve", "reject", "start"}
Unstarted(p) == runs[p] = 0 /\ ~ Queued(p)
Undecided(p) == approvedBy[p] = "none" /\ p \notin denied /\ Unstarted(p)
OneHolder ==
  \A t, u \in Threads : Holds(t) /\ Holds(u) /\ arg[t] = arg[u] => t = u

PendingIsUndecided ==
  \A p \in pending :
    /\ p \in Confirm /\ Undecided(p) /\ MayDecide(pstate[p])
    /\ \A t \in Threads : Holds(t) => arg[t] # p

HolderKnows ==
  \A t \in Threads :
    /\ pc[t] # "idle" => pstate[arg[t]] # "UNCREATED"
    /\ pc[t] \in {"gate", "dedup", "approve", "reject"} =>
         Undecided(arg[t]) /\ MayDecide(pstate[arg[t]])
    /\ pc[t] \in {"approve", "reject"} => arg[t] \in Confirm
    /\ pc[t] = "start" => Granted(arg[t]) /\ Unstarted(arg[t])

UncreatedIsUndecided ==
  \A p \in Proposals : pstate[p] = "UNCREATED" => Undecided(p)

StartedIsGranted ==
  /\ \A p \in Proposals : runs[p] > 0 => Granted(p) /\ runs[p] = 1 /\ ~ Queued(p)
  /\ \A i \in DOMAIN queue : Granted(queue[i]) /\ runs[queue[i]] = 0
  /\ \A i, j \in DOMAIN queue : queue[i] = queue[j] => i = j

IInv ==
  /\ TypeOK
  /\ OneHolder
  /\ PendingIsUndecided
  /\ HolderKnows
  /\ UncreatedIsUndecided
  /\ StartedIsGranted
  /\ DecidedOnce

\* The pipeline implements the approval gate.  A call counts as asked from
\* the moment it is pending, also while a thread that took it decides it.
GateOf(p) ==
  IF runs[p] > 0 THEN "ran"
  ELSE IF approvedBy[p] # "none" THEN "granted"
  ELSE IF p \in denied THEN "denied"
  ELSE IF p \in pending \/ InHands(p) THEN "asked"
  ELSE "new"

gateView == [p \in Proposals |-> GateOf(p)]

TheGate == INSTANCE ApprovalGate WITH gate <- gateView
ImplementsGate == TheGate!Spec

=============================================================================
