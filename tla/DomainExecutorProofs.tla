------------------------ MODULE DomainExecutorProofs ------------------------
(***************************************************************************)
(* Proofs about DomainExecutor, for every set of proposals, threads and    *)
(* workers: type correctness, the inductive invariant, the safety          *)
(* properties that follow from it, and the refinement of ApprovalGate.     *)
(***************************************************************************)
EXTENDS DomainExecutor, FiniteSetTheorems, SequenceTheorems, TLAPS

-----------------------------------------------------------------------------
(* Type correctness. *)

ThreadsTyped ==
  /\ pc \in [Threads -> Steps]
  /\ arg \in [Threads -> Proposals \cup {NoOne}]
  /\ \A t \in Threads : arg[t] = NoOne <=> pc[t] = "idle"
  /\ told \in [Proposals -> SUBSET Answers]

\* A thread inside a call has a proposal.
LEMMA BusyThread ==
  ASSUME TypeOK, NEW t \in Threads, pc[t] # "idle"
  PROVE  arg[t] \in Proposals
BY DEF TypeOK

\* Finishing a call keeps the thread variables typed.
LEMMA ReturnTyped ==
  ASSUME TypeOK, NEW t \in Threads, NEW p \in Proposals, NEW a \in Answers,
         Return(t, p, a)
  PROVE  ThreadsTyped'
BY DEF Return, Goto, TypeOK, Steps, ThreadsTyped

\* So does going on, inside the call, to another step.
LEMMA GotoTyped ==
  ASSUME TypeOK, NEW t \in Threads, NEW s \in Steps \ {"idle"}, pc[t] # "idle",
         Goto(t, s), UNCHANGED <<arg, told>>
  PROVE  ThreadsTyped'
BY DEF Goto, TypeOK, Steps, ThreadsTyped

LEMMA TallyTyped ==
  ASSUME TypeOK, NEW t \in Threads, NEW p \in Proposals, NEW a \in Answers,
         NEW s \in Steps \ {"idle"}, pc[t] # "idle",
         TallyThenReturn(t, p, s, a)
  PROVE  ThreadsTyped'
<1>1. CASE session
  BY <1>1, GotoTyped DEF TallyThenReturn
<1>2. CASE ~ session
  BY <1>2, ReturnTyped DEF TallyThenReturn
<1>3. QED
  BY <1>1, <1>2

LEMMA RejectCallTyped ==
  ASSUME TypeOK, NEW t \in Threads, NEW p \in Proposals, pc[t] # "idle",
         RejectCall(t, p)
  PROVE  /\ ThreadsTyped'
         /\ pstate' \in [Proposals -> LifecycleStates]
         /\ denied' \subseteq Proposals
<1>1. ThreadsTyped'
  BY TallyTyped DEF RejectCall, Steps, Answers
<1>2. QED
  BY <1>1 DEF RejectCall, MarkRejected, SetState, TypeOK, LifecycleStates

LEMMA FailCallTyped ==
  ASSUME TypeOK, NEW t \in Threads, NEW p \in Proposals, FailCall(t, p)
  PROVE  /\ ThreadsTyped'
         /\ pstate' \in [Proposals -> LifecycleStates]
<1>1. CASE MayComplete(pstate[p])
  <2>1. ThreadsTyped'
    BY <1>1, ReturnTyped DEF FailCall, Answers
  <2>2. QED
    BY <1>1, <2>1 DEF FailCall, SetState, TypeOK, LifecycleStates
<1>2. CASE ~ MayComplete(pstate[p])
  <2>1. ThreadsTyped'
    BY <1>2, ReturnTyped DEF FailCall, Answers
  <2>2. QED
    BY <1>2, <2>1 DEF FailCall, TypeOK
<1>3. QED
  BY <1>1, <1>2

LEMMA TypeInit == Init => TypeOK
<1> SUFFICES ASSUME Init PROVE TypeOK
  OBVIOUS
<1>1. /\ agent \in AgentStateSet /\ session \in BOOLEAN
      /\ pstate \in [Proposals -> LifecycleStates]
      /\ approvedBy \in [Proposals -> {"none", "policy", "user"}]
      /\ future \in [Proposals -> {"none", "pending", "ok", "error"}]
  BY DEF Init, AgentStateSet, LifecycleStates
<1>2. /\ pc \in [Threads -> Steps]
      /\ arg \in [Threads -> Proposals \cup {NoOne}]
      /\ \A t \in Threads : arg[t] = NoOne <=> pc[t] = "idle"
  BY DEF Init, Steps
<1>3. /\ denied \subseteq Proposals /\ pending \subseteq Proposals
      /\ recent \subseteq Signatures /\ queue \in Seq(Proposals)
      /\ worker \in [Workers -> Proposals \cup {NoOne}]
      /\ runs \in [Proposals -> Nat]
  BY DEF Init
<1>4. told \in [Proposals -> SUBSET Answers]
  BY DEF Init
<1>5. QED
  BY <1>1, <1>2, <1>3, <1>4 DEF TypeOK

LEMMA TypeStep == TypeOK /\ [Next]_vars => TypeOK'
<1> SUFFICES ASSUME TypeOK, [Next]_vars PROVE TypeOK'
  OBVIOUS
<1> USE ExecutorAssumption
<1>1. ASSUME NEW t \in Threads, NEW p \in Proposals, Propose(t, p)
      PROVE  TypeOK'
  BY <1>1 DEF Propose, SetState, Goto, TypeOK, LifecycleStates, Steps, poolVars
<1>2. ASSUME NEW t \in Threads, NEW p \in Proposals, NEW s \in {"approve", "reject"},
             TakePending(t, p, s)
      PROVE  TypeOK'
  BY <1>2 DEF TakePending, RemovePending, Goto, TypeOK, Steps, poolVars,
              proposalVars
<1>3. ASSUME NEW t \in Threads, ThreadStep(t)
      PROVE  TypeOK'
  <2> DEFINE p == arg[t]
  <2>0. pc[t] # "idle" /\ p \in Proposals
    <3>1. pc[t] # "idle"
      BY <1>3 DEF ThreadStep, Gate, Deduplicate, MarkPending, ApproveByUser,
                  RejectByUser, StartExecution, ResultArrives, ErrorArrives,
                  InvokeTimesOut, CountInSession
    <3>2. QED
      BY <3>1, BusyThread
  <2>1. CASE Gate(t)
    <3>1. CASE PassesGate(p)
      BY <2>0, <2>1, <3>1, GotoTyped
         DEF Gate, TypeOK, ThreadsTyped, Steps, poolVars
    <3>2. CASE ~ PassesGate(p)
      BY <2>0, <2>1, <3>2, RejectCallTyped
         DEF Gate, TypeOK, ThreadsTyped, poolVars
    <3>3. QED
      BY <3>1, <3>2
  <2>2. CASE Deduplicate(t)
    <3>1. CASE Duplicate(p)
      BY <2>0, <2>2, <3>1, RejectCallTyped
         DEF Deduplicate, TypeOK, ThreadsTyped, poolVars
    <3>2. CASE ~ Duplicate(p)
      <4>1. ThreadsTyped'
        BY <2>0, <2>2, <3>2, GotoTyped DEF Deduplicate, Steps
      <4>2. CASE NeedsApproval(p)
        BY <2>0, <2>2, <3>2, <4>1, <4>2
           DEF Deduplicate, AddPending, TypeOK, ThreadsTyped, poolVars
      <4>3. CASE ~ NeedsApproval(p)
        <5>1. /\ pstate' = [pstate EXCEPT ![p] = "APPROVED"]
              /\ approvedBy' = [approvedBy EXCEPT ![p] = "policy"]
          BY <2>2, <3>2, <4>3 DEF Deduplicate, MarkApproved, SetState
        <5>2. /\ recent' = recent \cup {SigOf[p]}
              /\ UNCHANGED <<agent, session, denied, pending, poolVars>>
          BY <2>2, <3>2, <4>3 DEF Deduplicate
        <5>3. QED
          BY <2>0, <4>1, <5>1, <5>2
             DEF TypeOK, ThreadsTyped, LifecycleStates, poolVars
      <4>4. QED
        BY <4>2, <4>3
    <3>3. QED
      BY <3>1, <3>2
  <2>3. CASE MarkPending(t)
    <3>1. ThreadsTyped'
      BY <2>0, <2>3, ReturnTyped DEF MarkPending, Answers
    <3>2. QED
      BY <2>0, <2>3, <3>1
         DEF MarkPending, SetState, TypeOK, ThreadsTyped, LifecycleStates, poolVars
  <2>4. CASE ApproveByUser(t)
    <3>1. ThreadsTyped'
      BY <2>0, <2>4, ReturnTyped, GotoTyped DEF ApproveByUser, Steps, Answers
    <3>2. QED
      BY <2>0, <2>4, <3>1
         DEF ApproveByUser, MarkApproved, SetState, TypeOK, ThreadsTyped,
             LifecycleStates, poolVars
  <2>5. CASE RejectByUser(t)
    <3>1. CASE MayDecide(pstate[p])
      BY <2>0, <2>5, <3>1, RejectCallTyped
         DEF RejectByUser, TypeOK, ThreadsTyped, poolVars
    <3>2. CASE ~ MayDecide(pstate[p])
      <4>1. ThreadsTyped'
        BY <2>0, <2>5, <3>2, ReturnTyped DEF RejectByUser, Answers
      <4>2. QED
        BY <2>5, <3>2, <4>1 DEF RejectByUser, TypeOK, ThreadsTyped, poolVars
    <3>3. QED
      BY <3>1, <3>2
  <2>6. CASE StartExecution(t)
    <3>1. ThreadsTyped'
      BY <2>0, <2>6, ReturnTyped, GotoTyped DEF StartExecution, Steps, Answers
    <3>2. CASE MayStart(pstate[p])
      <4>1. queue' \in Seq(Proposals)
        <5>1. queue' = Append(queue, p)
          BY <2>6, <3>2 DEF StartExecution
        <5>2. QED
          BY <2>0, <5>1, AppendProperties DEF TypeOK
      <4>2. QED
        BY <2>0, <2>6, <3>1, <3>2, <4>1
           DEF StartExecution, SetState, TypeOK, ThreadsTyped, LifecycleStates
    <3>3. CASE ~ MayStart(pstate[p])
      BY <2>6, <3>1, <3>3 DEF StartExecution, TypeOK, ThreadsTyped
    <3>4. QED
      BY <3>2, <3>3
  <2>7. CASE ResultArrives(t)
    <3>1. CASE MayComplete(pstate[p])
      <4>1. ThreadsTyped'
        BY <2>0, <2>7, <3>1, TallyTyped DEF ResultArrives, Steps, Answers
      <4>2. pstate' \in [Proposals -> LifecycleStates]
        BY <2>7, <3>1 DEF ResultArrives, SetState, TypeOK, LifecycleStates
      <4>3. QED
        BY <2>7, <4>1, <4>2 DEF ResultArrives, TypeOK, ThreadsTyped, poolVars
    <3>2. CASE ~ MayComplete(pstate[p])
      BY <2>0, <2>7, <3>2, FailCallTyped
         DEF ResultArrives, TypeOK, ThreadsTyped, poolVars
    <3>3. QED
      BY <3>1, <3>2
  <2>8. CASE ErrorArrives(t)
    BY <2>0, <2>8, FailCallTyped DEF ErrorArrives, TypeOK, ThreadsTyped, poolVars
  <2>9. CASE InvokeTimesOut(t)
    BY <2>0, <2>9, FailCallTyped DEF InvokeTimesOut, TypeOK, ThreadsTyped, poolVars
  <2>10. CASE CountInSession(t)
    <3>1. CASE pc[t] = "count_executed" /\ ~ session
      BY <2>0, <2>10, <3>1, FailCallTyped
         DEF CountInSession, TypeOK, ThreadsTyped, poolVars
    <3>2. CASE ~ (pc[t] = "count_executed" /\ ~ session)
      <4>1. ThreadsTyped'
        BY <2>0, <2>10, <3>2, ReturnTyped DEF CountInSession, Answers
      <4>2. QED
        BY <2>10, <3>2, <4>1 DEF CountInSession, TypeOK, ThreadsTyped, poolVars
    <3>3. QED
      BY <3>1, <3>2
  <2>11. QED
    BY <1>3, <2>1, <2>2, <2>3, <2>4, <2>5, <2>6, <2>7, <2>8, <2>9, <2>10
       DEF ThreadStep
<1>4. ASSUME NEW w \in Workers, StartHandler(w)
      PROVE  TypeOK'
  <2>1. Head(queue) \in Proposals /\ Tail(queue) \in Seq(Proposals)
    BY <1>4 DEF StartHandler, TypeOK
  <2>2. QED
    BY <1>4, <2>1 DEF StartHandler, TypeOK, proposalVars, threadVars
<1>5. ASSUME NEW w \in Workers, NEW o \in {"ok", "error"}, FinishHandler(w, o)
      PROVE  TypeOK'
  <2>1. worker[w] \in Proposals
    BY <1>5 DEF FinishHandler, TypeOK
  <2>2. session' \in BOOLEAN
    BY <1>5, <2>1 DEF FinishHandler, SessionsAfter, TypeOK
  <2>3. QED
    BY <1>5, <2>1, <2>2 DEF FinishHandler, TypeOK, proposalVars, threadVars
<1>6. ASSUME NEW sig \in Signatures, WindowPasses(sig)
      PROVE  TypeOK'
  BY <1>6 DEF WindowPasses, TypeOK, proposalVars, poolVars, threadVars
<1>7. ASSUME NEW s \in AgentStateSet, AgentMoves(s)
      PROVE  TypeOK'
  BY <1>7 DEF AgentMoves, TypeOK, proposalVars, poolVars, threadVars
<1>8. CASE UNCHANGED vars
  BY <1>8 DEF vars, TypeOK, proposalVars, poolVars, threadVars
<1>9. QED
  BY <1>1, <1>2, <1>3, <1>4, <1>5, <1>6, <1>7, <1>8
     DEF Next, Request, TakeToApprove, TakeToReject, WorkerStep

\* Every reachable state is well typed; in particular a thread has a proposal
\* in hand exactly while it is inside a call.
THEOREM TypeCorrect == Spec => []TypeOK
BY TypeInit, TypeStep, PTL DEF Spec

-----------------------------------------------------------------------------
(* The inductive invariant. *)

\* Thread t ends its call, or goes on without the right to decide or start a
\* proposal, and no other thread moves.
Releases(t) ==
  /\ pc'[t] \notin {"gate", "dedup", "approve", "reject", "start"}
  /\ pc'[t] # "idle" => pc[t] # "idle" /\ arg'[t] = arg[t]
  /\ \A u \in Threads \ {t} : pc'[u] = pc[u] /\ arg'[u] = arg[u]

LEMMA ReturnReleases ==
  ASSUME TypeOK, NEW t \in Threads, NEW p \in Proposals, NEW a,
         Return(t, p, a)
  PROVE  Releases(t)
BY DEF Return, Goto, Releases, TypeOK

LEMMA GotoReleases ==
  ASSUME TypeOK, NEW t \in Threads,
         NEW s \in {"park", "wait", "count_executed", "count_rejected"},
         pc[t] # "idle", Goto(t, s), UNCHANGED arg
  PROVE  Releases(t)
BY DEF Goto, Releases, TypeOK

LEMMA TallyReleases ==
  ASSUME TypeOK, NEW t \in Threads, NEW p \in Proposals, NEW a,
         NEW s \in {"count_executed", "count_rejected"},
         pc[t] # "idle", TallyThenReturn(t, p, s, a)
  PROVE  Releases(t)
<1>1. CASE session
  BY <1>1, GotoReleases DEF TallyThenReturn
<1>2. CASE ~ session
  BY <1>2, ReturnReleases DEF TallyThenReturn
<1>3. QED
  BY <1>1, <1>2

LEMMA FailCallReleases ==
  ASSUME TypeOK, NEW t \in Threads, NEW p \in Proposals, FailCall(t, p)
  PROVE  /\ Releases(t)
         /\ \/ pstate' = pstate
            \/ pstate[p] = "EXECUTING" /\ pstate' = [pstate EXCEPT ![p] = "FAILED"]
BY ReturnReleases DEF FailCall, SetState, MayComplete

\* A step that decides and starts nothing keeps the invariant.
LEMMA QuietStep ==
  ASSUME IInv, TypeOK',
         UNCHANGED <<approvedBy, denied, pending, queue, runs>>,
         (\E t \in Threads : Releases(t)) \/ UNCHANGED <<pc, arg>>,
         \A p \in Proposals : /\ pstate'[p] = "UNCREATED" <=> pstate[p] = "UNCREATED"
                              /\ MayDecide(pstate[p]) => MayDecide(pstate'[p])
  PROVE  IInv'
<1>1. \A u \in Threads : Holds(u)' => Holds(u) /\ pc'[u] = pc[u] /\ arg'[u] = arg[u]
  BY DEF Holds, Releases
<1>2. \A p \in Proposals : Undecided(p)' <=> Undecided(p)
  BY DEF Undecided, Unstarted, Queued
<1>3. \A u \in Threads : pc'[u] # "idle" => pc[u] # "idle" /\ arg'[u] = arg[u]
  BY DEF Releases
<1>4. OneHolder'
  BY <1>1 DEF IInv, OneHolder
<1>5. PendingIsUndecided'
  BY <1>1, <1>2 DEF IInv, PendingIsUndecided, TypeOK
<1>6. HolderKnows'
  <2>1. \A u \in Threads : pc'[u] # "idle" => pstate'[arg'[u]] # "UNCREATED"
    BY <1>3, BusyThread DEF IInv, HolderKnows
  <2>2. \A u \in Threads : Holds(u)' => arg[u] \in Proposals
    BY <1>1, BusyThread DEF IInv, Holds
  <2>3. QED
    BY <1>1, <1>2, <2>1, <2>2
       DEF IInv, HolderKnows, Holds, Granted, Unstarted, Queued
<1>7. UncreatedIsUndecided' /\ StartedIsGranted' /\ DecidedOnce'
  BY <1>2 DEF IInv, UncreatedIsUndecided, StartedIsGranted, DecidedOnce, Granted,
              Queued
<1>8. QED
  BY <1>4, <1>5, <1>6, <1>7 DEF IInv

\* Rejecting an undecided proposal that is in hand keeps the invariant.
LEMMA RejectStep ==
  ASSUME IInv, TypeOK', NEW t \in Threads, NEW p \in Proposals,
         p = arg[t], pc[t] \in {"gate", "dedup", "reject"}, RejectCall(t, p),
         UNCHANGED <<approvedBy, pending, queue, runs>>
  PROVE  IInv'
<1> USE DEF IInv
<1>1. Releases(t) /\ pstate' = [pstate EXCEPT ![p] = "REJECTED"]
      /\ denied' = denied \cup {p}
  BY TallyReleases DEF RejectCall, MarkRejected, SetState
<1>2. Holds(t) /\ Undecided(p) /\ p \notin pending
  BY DEF HolderKnows, Holds, PendingIsUndecided
<1>3. \A u \in Threads : Holds(u)' =>
         u # t /\ Holds(u) /\ pc'[u] = pc[u] /\ arg'[u] = arg[u] /\ arg[u] # p
         /\ arg[u] \in Proposals
  BY <1>1, <1>2, BusyThread DEF Holds, Releases, OneHolder
<1>4. \A q \in Proposals : q # p => /\ Undecided(q)' <=> Undecided(q)
                                    /\ Granted(q)' <=> Granted(q)
                                    /\ pstate'[q] = pstate[q]
  BY <1>1 DEF Undecided, Unstarted, Queued, Granted, TypeOK
<1>5. OneHolder'
  BY <1>3 DEF OneHolder
<1>6. PendingIsUndecided'
  BY <1>1, <1>2, <1>3, <1>4 DEF PendingIsUndecided, TypeOK
<1>7. HolderKnows'
  <2>1. \A u \in Threads : pc'[u] # "idle" => pstate'[arg'[u]] # "UNCREATED"
    BY <1>1, BusyThread DEF HolderKnows, Releases, TypeOK
  <2>2. QED
    BY <1>3, <1>4, <2>1 DEF HolderKnows, Holds, Unstarted, Queued
<1>8. UncreatedIsUndecided'
  BY <1>1, <1>4 DEF UncreatedIsUndecided, TypeOK
<1>9. StartedIsGranted' /\ DecidedOnce'
  <2>1. runs[p] = 0 /\ \A i \in DOMAIN queue : queue[i] # p
    BY <1>2 DEF Undecided, Unstarted, Queued
  <2>2. \A i \in DOMAIN queue : queue[i] \in Proposals
    BY DEF TypeOK
  <2>3. QED
    BY <1>1, <1>2, <1>4, <2>1, <2>2
       DEF StartedIsGranted, DecidedOnce, Undecided, Queued
<1>10. QED
  BY <1>5, <1>6, <1>7, <1>8, <1>9

\* Granting an undecided proposal that is in hand keeps the invariant.
LEMMA ApproveStep ==
  ASSUME IInv, TypeOK', NEW t \in Threads, NEW p \in Proposals, p = arg[t],
         pc[t] \in {"dedup", "approve"},
         MarkApproved(p, IF p \in Confirm THEN "user" ELSE "policy"),
         Goto(t, "start"),
         UNCHANGED <<denied, pending, queue, runs, arg>>
  PROVE  IInv'
<1> USE DEF IInv
<1>1. /\ pstate' = [pstate EXCEPT ![p] = "APPROVED"]
      /\ approvedBy' = [approvedBy EXCEPT ![p] =
                          IF p \in Confirm THEN "user" ELSE "policy"]
      /\ pc' = [pc EXCEPT ![t] = "start"]
  BY DEF MarkApproved, SetState, Goto
<1>2. Holds(t) /\ Undecided(p) /\ p \notin pending
  BY DEF HolderKnows, Holds, PendingIsUndecided
<1>3. \A u \in Threads : u # t /\ Holds(u)' =>
         Holds(u) /\ pc'[u] = pc[u] /\ arg[u] # p /\ arg[u] \in Proposals
  BY <1>1, <1>2, BusyThread DEF Holds, OneHolder, TypeOK
<1>4. \A q \in Proposals : q # p => /\ Undecided(q)' <=> Undecided(q)
                                    /\ Granted(q)' <=> Granted(q)
                                    /\ pstate'[q] = pstate[q]
  BY <1>1 DEF Undecided, Unstarted, Queued, Granted, TypeOK
<1>5. Granted(p)' /\ Unstarted(p)'
  BY <1>1, <1>2 DEF Granted, Undecided, Unstarted, Queued, TypeOK
<1>6. OneHolder'
  BY <1>2, <1>3 DEF OneHolder
<1>7. PendingIsUndecided'
  <2>1. \A u \in Threads : Holds(u)' => Holds(u)
    BY <1>2, <1>3
  <2>2. QED
    BY <1>1, <1>2, <1>4, <2>1 DEF PendingIsUndecided, TypeOK
<1>8. HolderKnows'
  <2>1. \A u \in Threads : pc'[u] # "idle" => pstate'[arg'[u]] # "UNCREATED"
    BY <1>1, BusyThread DEF HolderKnows, TypeOK
  <2>2. pc'[t] = "start"
    BY <1>1 DEF TypeOK
  <2>3. QED
    BY <1>3, <1>4, <1>5, <2>1, <2>2 DEF HolderKnows, Holds, Unstarted, Queued
<1>9. UncreatedIsUndecided'
  BY <1>1, <1>4 DEF UncreatedIsUndecided, TypeOK
<1>10. StartedIsGranted' /\ DecidedOnce'
  <2>1. runs[p] = 0 /\ \A i \in DOMAIN queue : queue[i] # p
    BY <1>2 DEF Undecided, Unstarted, Queued
  <2>2. \A i \in DOMAIN queue : queue[i] \in Proposals
    BY DEF TypeOK
  <2>3. DecidedOnce'
    BY <1>1, <1>2 DEF DecidedOnce, Undecided, TypeOK
  <2>4. QED
    BY <1>4, <2>1, <2>2, <2>3 DEF StartedIsGranted, Queued
<1>11. QED
  BY <1>6, <1>7, <1>8, <1>9, <1>10

\* A new proposal is in nobody's hands.
LEMMA ProposeStep ==
  ASSUME IInv, TypeOK', NEW t \in Threads, NEW p \in Proposals, Propose(t, p)
  PROVE  IInv'
<1> USE DEF IInv
<1>1. /\ pc[t] = "idle" /\ pstate[p] = "UNCREATED"
      /\ pstate' = [pstate EXCEPT ![p] = "PROPOSED"]
      /\ pc' = [pc EXCEPT ![t] = "gate"] /\ arg' = [arg EXCEPT ![t] = p]
      /\ UNCHANGED <<approvedBy, denied, pending, queue, runs>>
  BY DEF Propose, SetState, Goto, poolVars
<1>2. Undecided(p) /\ p \notin pending
  BY <1>1 DEF UncreatedIsUndecided, PendingIsUndecided, MayDecide
<1>3. \A u \in Threads : pc[u] # "idle" => arg[u] # p /\ arg[u] \in Proposals
  BY <1>1, BusyThread DEF HolderKnows
<1>4. \A u \in Threads : u # t => pc'[u] = pc[u] /\ arg'[u] = arg[u]
  BY <1>1 DEF TypeOK
<1>5. pc'[t] = "gate" /\ arg'[t] = p
  BY <1>1 DEF TypeOK
<1>6. \A q \in Proposals : (Undecided(q)' <=> Undecided(q)) /\ (Granted(q)' <=> Granted(q))
                           /\ (Unstarted(q)' <=> Unstarted(q))
  BY <1>1 DEF Undecided, Unstarted, Queued, Granted
<1>7. OneHolder'
  BY <1>3, <1>4, <1>5 DEF OneHolder, Holds
<1>8. PendingIsUndecided'
  BY <1>1, <1>2, <1>4, <1>5, <1>6 DEF PendingIsUndecided, Holds, TypeOK
<1>9. HolderKnows'
  BY <1>1, <1>2, <1>3, <1>4, <1>5, <1>6 DEF HolderKnows, TypeOK, MayDecide
<1>10. UncreatedIsUndecided' /\ StartedIsGranted' /\ DecidedOnce'
  BY <1>1, <1>6
     DEF UncreatedIsUndecided, StartedIsGranted, DecidedOnce, Granted, Queued, TypeOK
<1>11. QED
  BY <1>7, <1>8, <1>9, <1>10

\* A pending proposal passes into the hands of one thread.
LEMMA TakeStep ==
  ASSUME IInv, TypeOK', NEW t \in Threads, NEW p \in Proposals,
         NEW s \in {"approve", "reject"}, TakePending(t, p, s)
  PROVE  IInv'
<1> USE DEF IInv
<1>1. /\ pc[t] = "idle" /\ p \in pending /\ pending' = pending \ {p}
      /\ pc' = [pc EXCEPT ![t] = s] /\ arg' = [arg EXCEPT ![t] = p]
      /\ UNCHANGED <<pstate, approvedBy, denied, queue, runs>>
  BY DEF TakePending, RemovePending, Goto, poolVars, proposalVars
<1>2. /\ Undecided(p) /\ p \in Confirm
      /\ MayDecide(pstate[p]) /\ pstate[p] # "UNCREATED"
      /\ \A u \in Threads : Holds(u) => arg[u] # p
  BY <1>1 DEF PendingIsUndecided, MayDecide
<1>3. \A u \in Threads : u # t => pc'[u] = pc[u] /\ arg'[u] = arg[u]
  BY <1>1 DEF TypeOK
<1>4. pc'[t] = s /\ arg'[t] = p
  BY <1>1 DEF TypeOK
<1>5. \A q \in Proposals : (Undecided(q)' <=> Undecided(q)) /\ (Granted(q)' <=> Granted(q))
                           /\ (Unstarted(q)' <=> Unstarted(q))
  BY <1>1 DEF Undecided, Unstarted, Queued, Granted
<1>6. OneHolder'
  BY <1>2, <1>3, <1>4 DEF OneHolder, Holds
<1>7. PendingIsUndecided'
  BY <1>1, <1>3, <1>4, <1>5 DEF PendingIsUndecided, Holds, TypeOK
<1>8. HolderKnows'
  <2>1. \A u \in Threads : pc[u] # "idle" => arg[u] \in Proposals
    BY BusyThread
  <2>2. QED
    BY <1>1, <1>2, <1>3, <1>4, <1>5, <2>1 DEF HolderKnows, TypeOK
<1>9. UncreatedIsUndecided' /\ StartedIsGranted' /\ DecidedOnce'
  BY <1>1, <1>5
     DEF UncreatedIsUndecided, StartedIsGranted, DecidedOnce, Granted, Queued, TypeOK
<1>10. QED
  BY <1>6, <1>7, <1>8, <1>9

\* The gate lets the submitter keep its proposal.
LEMMA GateActionStep ==
  ASSUME IInv, TypeOK', NEW t \in Threads, Gate(t)
  PROVE  IInv'
<1> USE DEF IInv
<1>1. CASE PassesGate(arg[t])
  <2>1. /\ pc[t] = "gate" /\ pc' = [pc EXCEPT ![t] = "dedup"]
        /\ UNCHANGED <<arg, pstate, approvedBy, denied, pending, queue, runs>>
    BY <1>1 DEF Gate, Goto, poolVars
  <2>2. \A u \in Threads : u # t => pc'[u] = pc[u]
    BY <2>1 DEF TypeOK
  <2>3. pc'[t] = "dedup"
    BY <2>1 DEF TypeOK
  <2>4. \A u \in Threads : Holds(u)' <=> Holds(u)
    BY <2>1, <2>2, <2>3 DEF Holds
  <2>5. \A q \in Proposals : (Undecided(q)' <=> Undecided(q)) /\ (Granted(q)' <=> Granted(q))
                             /\ (Unstarted(q)' <=> Unstarted(q))
    BY <2>1 DEF Undecided, Unstarted, Queued, Granted
  <2>6. OneHolder' /\ PendingIsUndecided'
    BY <2>1, <2>4, <2>5 DEF OneHolder, PendingIsUndecided, TypeOK
  <2>7. HolderKnows'
    <3>1. \A u \in Threads : pc[u] # "idle" => arg[u] \in Proposals
      BY BusyThread
    <3>2. QED
      BY <2>1, <2>2, <2>3, <2>5, <3>1 DEF HolderKnows
  <2>8. UncreatedIsUndecided' /\ StartedIsGranted' /\ DecidedOnce'
    BY <2>1, <2>5
       DEF UncreatedIsUndecided, StartedIsGranted, DecidedOnce, Granted, Queued
  <2>9. QED
    BY <2>6, <2>7, <2>8
<1>2. CASE ~ PassesGate(arg[t])
  <2>1. RejectCall(t, arg[t]) /\ pc[t] = "gate"
        /\ UNCHANGED <<approvedBy, pending, queue, runs>>
    BY <1>2 DEF Gate, poolVars
  <2>2. QED
    BY <2>1, RejectStep, BusyThread
<1>3. QED
  BY <1>1, <1>2

\* The duplicate check rejects, parks or grants by policy.
LEMMA DeduplicateStep ==
  ASSUME IInv, TypeOK', NEW t \in Threads, Deduplicate(t)
  PROVE  IInv'
<1> USE DEF IInv
<1> DEFINE p == arg[t]
<1>0. pc[t] = "dedup" /\ p \in Proposals /\ UNCHANGED <<queue, runs>>
  BY BusyThread DEF Deduplicate, poolVars
<1>1. CASE Duplicate(p)
  <2>1. RejectCall(t, p) /\ UNCHANGED <<approvedBy, pending>>
    BY <1>1 DEF Deduplicate
  <2>2. QED
    BY <1>0, <2>1, RejectStep
<1>2. CASE ~ Duplicate(p) /\ NeedsApproval(p)
  <2>1. /\ pending' = pending \cup {p} /\ Goto(t, "park") /\ p \in Confirm
        /\ UNCHANGED <<pstate, approvedBy, denied, arg>>
    BY <1>2 DEF Deduplicate, AddPending, NeedsApproval
  <2>2. Releases(t)
    BY <1>0, <2>1, GotoReleases
  <2>3. Holds(t) /\ Undecided(p) /\ MayDecide(pstate[p])
    BY <1>0 DEF HolderKnows, Holds
  <2>4. \A u \in Threads : Holds(u)' => Holds(u) /\ u # t /\ arg[u] # p
    BY <2>2, <2>3 DEF Holds, Releases, OneHolder
  <2>5. \A q \in Proposals : (Undecided(q)' <=> Undecided(q)) /\ (Granted(q)' <=> Granted(q))
                             /\ (Unstarted(q)' <=> Unstarted(q))
    BY <1>0, <2>1 DEF Undecided, Unstarted, Queued, Granted
  <2>6. OneHolder'
    BY <2>1, <2>4 DEF OneHolder
  <2>7. PendingIsUndecided'
    BY <1>0, <2>1, <2>3, <2>4, <2>5 DEF PendingIsUndecided, TypeOK
  <2>8. HolderKnows'
    <3>1. \A u \in Threads : pc[u] # "idle" => arg[u] \in Proposals
      BY BusyThread
    <3>2. QED
      BY <2>1, <2>2, <2>4, <2>5, <3>1 DEF HolderKnows, Releases, Holds
  <2>9. UncreatedIsUndecided' /\ StartedIsGranted' /\ DecidedOnce'
    BY <1>0, <2>1, <2>5
       DEF UncreatedIsUndecided, StartedIsGranted, DecidedOnce, Granted, Queued
  <2>10. QED
    BY <2>6, <2>7, <2>8, <2>9
<1>3. CASE ~ Duplicate(p) /\ ~ NeedsApproval(p)
  <2>1. /\ MarkApproved(p, "policy") /\ Goto(t, "start") /\ p \notin Confirm
        /\ UNCHANGED <<denied, pending, arg>>
    BY <1>3 DEF Deduplicate, NeedsApproval
  <2>2. QED
    BY <1>0, <2>1, ApproveStep
<1>4. QED
  BY <1>1, <1>2, <1>3

LEMMA ApproveByUserStep ==
  ASSUME IInv, TypeOK', NEW t \in Threads, ApproveByUser(t)
  PROVE  IInv'
<1> USE DEF IInv
<1> DEFINE p == arg[t]
<1>0. /\ pc[t] = "approve" /\ p \in Proposals /\ p \in Confirm
      /\ UNCHANGED <<denied, pending, queue, runs>>
  BY BusyThread DEF ApproveByUser, poolVars, HolderKnows
<1>1. CASE MayDecide(pstate[p])
  <2>1. MarkApproved(p, "user") /\ Goto(t, "start") /\ UNCHANGED arg
    BY <1>1 DEF ApproveByUser
  <2>2. QED
    BY <1>0, <2>1, ApproveStep
<1>2. CASE ~ MayDecide(pstate[p])
  <2>1. Return(t, p, "raised") /\ UNCHANGED <<pstate, approvedBy>>
    BY <1>2 DEF ApproveByUser
  <2>2. QED
    BY <1>0, <2>1, ReturnReleases, QuietStep
<1>3. QED
  BY <1>1, <1>2

LEMMA RejectByUserStep ==
  ASSUME IInv, TypeOK', NEW t \in Threads, RejectByUser(t)
  PROVE  IInv'
<1> USE DEF IInv
<1> DEFINE p == arg[t]
<1>0. /\ pc[t] = "reject" /\ p \in Proposals
      /\ UNCHANGED <<approvedBy, pending, queue, runs>>
  BY BusyThread DEF RejectByUser, poolVars
<1>1. CASE MayDecide(pstate[p])
  <2>1. RejectCall(t, p)
    BY <1>1 DEF RejectByUser
  <2>2. QED
    BY <1>0, <2>1, RejectStep
<1>2. CASE ~ MayDecide(pstate[p])
  <2>1. Return(t, p, "raised") /\ UNCHANGED <<pstate, denied>>
    BY <1>2 DEF RejectByUser
  <2>2. QED
    BY <1>0, <2>1, ReturnReleases, QuietStep
<1>3. QED
  BY <1>1, <1>2

\* The right to start a granted proposal becomes its one task in the queue.
LEMMA StartExecutionStep ==
  ASSUME IInv, TypeOK', NEW t \in Threads, StartExecution(t)
  PROVE  IInv'
<1> USE DEF IInv
<1> DEFINE p == arg[t]
<1>0. /\ pc[t] = "start" /\ p \in Proposals
      /\ UNCHANGED <<approvedBy, denied, pending, runs>>
  BY BusyThread DEF StartExecution
<1>1. CASE MayStart(pstate[p])
  <2>1. /\ pstate' = [pstate EXCEPT ![p] = "EXECUTING"]
        /\ queue' = Append(queue, p) /\ Goto(t, "wait") /\ UNCHANGED arg
    BY <1>1 DEF StartExecution, SetState
  <2>2. Releases(t)
    BY <1>0, <2>1, GotoReleases
  <2>3. Holds(t) /\ Granted(p) /\ Unstarted(p) /\ p \notin pending
    BY <1>0 DEF HolderKnows, Holds, PendingIsUndecided
  <2>4. \A u \in Threads : Holds(u)' => Holds(u) /\ u # t /\ arg[u] # p
                                        /\ pc'[u] = pc[u] /\ arg'[u] = arg[u]
    BY <2>2, <2>3 DEF Holds, Releases, OneHolder
  <2>5. /\ DOMAIN queue' = DOMAIN queue \cup {Len(queue) + 1}
        /\ Len(queue) + 1 \notin DOMAIN queue
        /\ queue'[Len(queue) + 1] = p
        /\ \A i \in DOMAIN queue : queue'[i] = queue[i] /\ queue[i] \in Proposals
    BY <1>0, <2>1 DEF TypeOK
  <2>6. \A q \in Proposals : q # p =>
          /\ Undecided(q)' <=> Undecided(q)
          /\ Unstarted(q)' <=> Unstarted(q)
          /\ pstate'[q] = pstate[q]
    BY <1>0, <2>1, <2>5 DEF Undecided, Unstarted, Queued, TypeOK
  <2>7. \A q \in Proposals : Granted(q)' <=> Granted(q)
    BY <1>0 DEF Granted
  <2>8. pstate[p] # "UNCREATED"
    BY <1>0 DEF HolderKnows
  <2>9. OneHolder'
    BY <2>4 DEF OneHolder
  <2>10. PendingIsUndecided'
    BY <1>0, <2>1, <2>3, <2>4, <2>6 DEF PendingIsUndecided, TypeOK
  <2>11. HolderKnows'
    <3>1. \A u \in Threads : pc'[u] # "idle" => pstate'[arg'[u]] # "UNCREATED"
      BY <1>0, <2>1, <2>2, BusyThread DEF HolderKnows, Releases, TypeOK
    <3>2. \A u \in Threads : pc[u] # "idle" => arg[u] \in Proposals
      BY BusyThread
    <3>3. QED
      BY <2>4, <2>6, <2>7, <3>1, <3>2 DEF HolderKnows, Holds
  <2>12. UncreatedIsUndecided'
    BY <2>1, <2>6, <2>8 DEF UncreatedIsUndecided, TypeOK
  <2>13. StartedIsGranted'
    <3>1. runs[p] = 0 /\ \A i \in DOMAIN queue : queue[i] # p
      BY <2>3 DEF Unstarted, Queued
    <3>2. \A i, j \in DOMAIN queue' : queue'[i] = queue'[j] => i = j
      BY <2>5, <3>1 DEF StartedIsGranted
    <3>3. ASSUME NEW i \in DOMAIN queue'
          PROVE  Granted(queue[i])' /\ runs'[queue'[i]] = 0
      <4>1. Granted(queue'[i]) /\ runs[queue'[i]] = 0 /\ queue'[i] \in Proposals
        BY <1>0, <2>3, <2>5, <3>1, <3>3 DEF StartedIsGranted
      <4>2. QED
        BY <1>0, <4>1 DEF Granted
    <3>4. \A q \in Proposals : runs'[q] > 0 =>
            Granted(q)' /\ runs'[q] = 1 /\ ~ Queued(q)'
      <4>1. \A q \in Proposals : q # p => (Queued(q)' <=> Queued(q))
        BY <2>5 DEF Queued
      <4>2. QED
        BY <1>0, <2>7, <3>1, <4>1 DEF StartedIsGranted
    <3>5. QED
      BY <3>2, <3>3, <3>4 DEF StartedIsGranted
  <2>14. DecidedOnce'
    BY <1>0 DEF DecidedOnce
  <2>15. QED
    BY <2>9, <2>10, <2>11, <2>12, <2>13, <2>14
<1>2. CASE ~ MayStart(pstate[p])
  <2>1. Return(t, p, "raised") /\ UNCHANGED <<pstate, queue>>
    BY <1>2 DEF StartExecution
  <2>2. QED
    BY <1>0, <2>1, ReturnReleases, QuietStep
<1>3. QED
  BY <1>1, <1>2

\* The steps of a request thread that decide and start nothing.
LEMMA QuietThreadStep ==
  ASSUME IInv, TypeOK', NEW t \in Threads,
         \/ MarkPending(t) \/ ResultArrives(t) \/ ErrorArrives(t)
         \/ InvokeTimesOut(t) \/ CountInSession(t)
  PROVE  IInv'
<1> USE DEF IInv
<1> DEFINE p == arg[t]
<1>1. /\ pc[t] # "idle" /\ p \in Proposals /\ pstate[p] # "UNCREATED"
      /\ UNCHANGED <<approvedBy, denied, pending, queue, runs>>
  BY BusyThread
     DEF MarkPending, ResultArrives, ErrorArrives, InvokeTimesOut, CountInSession,
         HolderKnows, poolVars
<1>2. /\ Releases(t)
      /\ \/ pstate' \in {pstate, [pstate EXCEPT ![p] = "PENDING_APPROVAL"]}
         \/ /\ pstate[p] = "EXECUTING"
            /\ \E s \in {"SUCCEEDED", "FAILED"} : pstate' = [pstate EXCEPT ![p] = s]
  <2>1. CASE MarkPending(t)
    BY <1>1, <2>1, ReturnReleases DEF MarkPending, SetState
  <2>2. CASE ResultArrives(t) /\ MayComplete(pstate[p])
    <3>1. /\ pstate' = [pstate EXCEPT ![p] = "SUCCEEDED"]
          /\ TallyThenReturn(t, p, "count_executed", "executed")
      BY <2>2 DEF ResultArrives, SetState
    <3>2. QED
      BY <1>1, <2>2, <3>1, TallyReleases DEF MayComplete
  <2>3. CASE \/ ResultArrives(t) /\ ~ MayComplete(pstate[p])
             \/ ErrorArrives(t) \/ InvokeTimesOut(t)
    <3>1. FailCall(t, p)
      BY <2>3 DEF ResultArrives, ErrorArrives, InvokeTimesOut
    <3>2. QED
      BY <1>1, <3>1, FailCallReleases
  <2>4. CASE CountInSession(t)
    <3>1. FailCall(t, p) \/ (UNCHANGED pstate /\ \E a : Return(t, p, a))
      BY <2>4 DEF CountInSession
    <3>2. QED
      BY <1>1, <3>1, FailCallReleases, ReturnReleases
  <2>5. QED
    BY <2>1, <2>2, <2>3, <2>4
<1>3. \A q \in Proposals : /\ pstate'[q] = "UNCREATED" <=> pstate[q] = "UNCREATED"
                           /\ MayDecide(pstate[q]) => MayDecide(pstate'[q])
  <2>1. /\ pstate \in [Proposals -> LifecycleStates]
        /\ \/ UNCHANGED pstate
           \/ pstate' = [pstate EXCEPT ![p] = "PENDING_APPROVAL"]
           \/ pstate[p] = "EXECUTING" /\ pstate' = [pstate EXCEPT ![p] = "SUCCEEDED"]
           \/ pstate[p] = "EXECUTING" /\ pstate' = [pstate EXCEPT ![p] = "FAILED"]
    BY <1>2 DEF TypeOK
  <2>2. QED
    BY <1>1, <2>1 DEF MayDecide
<1>4. QED
  <2>1. \E u \in Threads : Releases(u)
    BY <1>2
  <2>2. QED
    BY <1>1, <1>3, <2>1, QuietStep

\* A worker takes the oldest task.
LEMMA StartHandlerStep ==
  ASSUME IInv, TypeOK', NEW w \in Workers, StartHandler(w)
  PROVE  IInv'
<1> USE DEF IInv
<1>0. PICK p \in Proposals : p = Head(queue)
  BY DEF StartHandler, TypeOK
<1>1. /\ queue # <<>> /\ queue' = Tail(queue) /\ runs' = [runs EXCEPT ![p] = @ + 1]
      /\ UNCHANGED <<pstate, approvedBy, denied, pending, pc, arg>>
  BY <1>0 DEF StartHandler, proposalVars, threadVars
<1>2. /\ p \in Proposals /\ 1 \in DOMAIN queue /\ queue[1] = p
      /\ \A i \in DOMAIN queue' :
           i + 1 \in DOMAIN queue /\ queue'[i] = queue[i + 1] /\ i # 0
           /\ i \in Nat
      /\ \A i \in DOMAIN queue : i = 1 \/ (i - 1 \in DOMAIN queue' /\ queue'[i - 1] = queue[i])
      /\ \A i \in DOMAIN queue : queue[i] \in Proposals
  BY <1>0, <1>1 DEF TypeOK
<1>3. Granted(p) /\ runs[p] = 0 /\ \A i \in DOMAIN queue : i # 1 => queue[i] # p
  BY <1>2 DEF StartedIsGranted
<1>4. ~ Undecided(p) /\ ~ Unstarted(p)
  BY <1>2 DEF Undecided, Unstarted, Queued
<1>5. \A q \in Proposals : q # p => (runs'[q] = runs[q]) /\ (Queued(q)' <=> Queued(q))
  <2>1. ASSUME NEW q \in Proposals, q # p
        PROVE  runs'[q] = runs[q]
    BY <1>1, <2>1 DEF TypeOK
  <2>2. ASSUME NEW q \in Proposals, q # p, Queued(q)
        PROVE  Queued(q)'
    <3>1. PICK i \in DOMAIN queue : queue[i] = q
      BY <2>2 DEF Queued
    <3>2. QED
      BY <1>2, <2>2, <3>1 DEF Queued
  <2>3. ASSUME NEW q \in Proposals, Queued(q)'
        PROVE  Queued(q)
    BY <1>2, <2>3 DEF Queued
  <2>4. QED
    BY <2>1, <2>2, <2>3
<1>6. runs'[p] = 1 /\ ~ Queued(p)'
  <2>1. runs'[p] = 1
    BY <1>1, <1>2, <1>3 DEF TypeOK
  <2>2. ASSUME NEW i \in DOMAIN queue'
        PROVE  queue'[i] # p
    <3>1. i + 1 \in DOMAIN queue /\ queue'[i] = queue[i + 1] /\ i + 1 # 1
      BY <1>2
    <3>2. QED
      BY <1>3, <3>1
  <2>3. QED
    BY <2>1, <2>2 DEF Queued
<1>7. \A q \in Proposals : q # p =>
        (Undecided(q)' <=> Undecided(q)) /\ (Unstarted(q)' <=> Unstarted(q))
  BY <1>1, <1>5 DEF Undecided, Unstarted
<1>8. \A q \in Proposals : Granted(q)' <=> Granted(q)
  BY <1>1 DEF Granted
<1>9. OneHolder' /\ PendingIsUndecided'
  BY <1>1, <1>4, <1>7 DEF OneHolder, PendingIsUndecided, Holds, TypeOK
<1>10. HolderKnows'
  <2>1. \A u \in Threads : pc[u] # "idle" => arg[u] \in Proposals
    BY BusyThread
  <2>2. QED
    BY <1>1, <1>4, <1>7, <1>8, <2>1 DEF HolderKnows
<1>11. UncreatedIsUndecided' /\ DecidedOnce'
  BY <1>1, <1>4, <1>7 DEF UncreatedIsUndecided, DecidedOnce
<1>12. StartedIsGranted'
  <2>1. \A q \in Proposals : runs'[q] > 0 => Granted(q)' /\ runs'[q] = 1 /\ ~ Queued(q)'
    BY <1>3, <1>5, <1>6, <1>8 DEF StartedIsGranted
  <2>2. ASSUME NEW i \in DOMAIN queue'
        PROVE  Granted(queue[i])' /\ runs'[queue'[i]] = 0
    <3>1. /\ i + 1 \in DOMAIN queue /\ queue'[i] = queue[i + 1] /\ i + 1 # 1
          /\ queue'[i] \in Proposals
      BY <1>2
    <3>2. Granted(queue'[i]) /\ runs'[queue'[i]] = 0
      BY <1>3, <1>5, <3>1 DEF StartedIsGranted
    <3>3. QED
      BY <1>1, <3>2 DEF Granted
  <2>3. ASSUME NEW i \in DOMAIN queue', NEW j \in DOMAIN queue', queue'[i] = queue'[j]
        PROVE  i = j
    <3>1. i + 1 = j + 1
      BY <1>2, <2>3 DEF StartedIsGranted
    <3>2. QED
      BY <1>2, <2>3, <3>1
  <2>4. QED
    BY <2>1, <2>2, <2>3 DEF StartedIsGranted
<1>13. QED
  BY <1>9, <1>10, <1>11, <1>12

LEMMA InductiveInit == Init => IInv
<1> SUFFICES ASSUME Init PROVE IInv
  OBVIOUS
<1>1. TypeOK
  BY TypeInit
<1>2. /\ \A p \in Proposals : Undecided(p) /\ runs[p] = 0
      /\ \A t \in Threads : pc[t] = "idle"
      /\ pending = {} /\ denied = {} /\ DOMAIN queue = {}
  BY DEF Init, Undecided, Unstarted, Queued
<1>3. QED
  BY <1>1, <1>2
     DEF IInv, OneHolder, Holds, PendingIsUndecided, HolderKnows,
         UncreatedIsUndecided, StartedIsGranted, DecidedOnce

LEMMA InductiveStep == IInv /\ [Next]_vars => IInv'
<1> SUFFICES ASSUME IInv, [Next]_vars PROVE IInv'
  OBVIOUS
<1>0. TypeOK'
  BY TypeStep DEF IInv
<1>1. ASSUME NEW t \in Threads, ThreadStep(t)
      PROVE  IInv'
  BY <1>0, <1>1, GateActionStep, DeduplicateStep, ApproveByUserStep, RejectByUserStep,
     StartExecutionStep, QuietThreadStep DEF ThreadStep
<1>2. ASSUME NEW t \in Threads, NEW p \in Proposals, Request(t, p)
      PROVE  IInv'
  BY <1>0, <1>2, ProposeStep, TakeStep DEF Request, TakeToApprove, TakeToReject
<1>3. ASSUME NEW w \in Workers, WorkerStep(w)
      PROVE  IInv'
  <2>1. ASSUME NEW o \in {"ok", "error"}, FinishHandler(w, o)
        PROVE  IInv'
    BY <1>0, <2>1, QuietStep DEF FinishHandler, proposalVars, threadVars
  <2>2. QED
    BY <1>0, <1>3, <2>1, StartHandlerStep DEF WorkerStep
<1>4. CASE \/ \E sig \in Signatures : WindowPasses(sig)
           \/ \E s \in AgentStateSet : AgentMoves(s)
           \/ UNCHANGED vars
  <2>1. UNCHANGED <<proposalVars, pending, poolVars, threadVars>>
    BY <1>4 DEF WindowPasses, AgentMoves, vars
  <2>2. QED
    BY <1>0, <2>1, QuietStep DEF proposalVars, poolVars, threadVars
<1>5. QED
  BY <1>1, <1>2, <1>3, <1>4 DEF Next

\* The token discipline holds in every reachable state.
THEOREM Inductive == Spec => []IInv
BY InductiveInit, InductiveStep, PTL DEF Spec

\* No handler is started twice for one proposal, whatever races with the late
\* write of PENDING_APPROVAL.
THEOREM AtMostOnce == Spec => []RunsAtMostOnce
<1>1. ASSUME IInv, NEW p \in Proposals
      PROVE  runs[p] <= 1
  <2>1. runs[p] \in Nat /\ (runs[p] > 0 => runs[p] = 1)
    BY <1>1 DEF IInv, TypeOK, StartedIsGranted
  <2>2. QED
    BY <2>1
<1>2. IInv => RunsAtMostOnce
  BY <1>1 DEF RunsAtMostOnce
<1>3. QED
  BY <1>2, Inductive, PTL

\* Every queued or started handler was granted by the policy or, when its tool
\* needs confirmation, by a person, and was not rejected.
THEOREM OnlyGrantedRun == Spec => []RunsOnlyWhenGranted
<1>1. IInv => RunsOnlyWhenGranted
  BY DEF IInv, TypeOK, StartedIsGranted, RunsOnlyWhenGranted, Queued
<1>2. QED
  BY <1>1, Inductive, PTL

\* An approval and a rejection never both take effect.
THEOREM OneDecision == Spec => []DecidedOnce
<1>1. IInv => DecidedOnce
  BY DEF IInv
<1>2. QED
  BY <1>1, Inductive, PTL

-----------------------------------------------------------------------------
(* The pipeline implements ApprovalGate. *)

\* The gate's view of a call depends on these five things only.
LEMMA GateSame ==
  ASSUME NEW q \in Proposals, runs'[q] = runs[q], approvedBy'[q] = approvedBy[q],
         q \in denied' <=> q \in denied, q \in pending' <=> q \in pending,
         InHands(q)' <=> InHands(q)
  PROVE  GateOf(q)' = GateOf(q)
BY DEF GateOf

LEMMA GateStutters ==
  ASSUME UNCHANGED <<runs, approvedBy, denied, pending>>,
         \A q \in Proposals : InHands(q)' <=> InHands(q)
  PROVE  UNCHANGED gateView
BY GateSame DEF gateView

\* A step of the gate, given by what it does to one call.
LEMMA GateMoves ==
  ASSUME NEW p \in Proposals, NEW old, NEW new, GateOf(p) = old, GateOf(p)' = new,
         \A q \in Proposals : q # p => GateOf(q)' = GateOf(q)
  PROVE  TheGate!Move(p, old, new)
BY DEF TheGate!Move, gateView

\* When a thread leaves a step, only its own proposal can change hands.
LEMMA HandsOfOthers ==
  ASSUME NEW t \in Threads, Releases(t)
  PROVE  \A q \in Proposals : q # arg[t] => (InHands(q)' <=> InHands(q))
BY DEF InHands, Releases

\* Only the holder of a proposal can have it in hands.
LEMMA HandsOfHolder ==
  ASSUME IInv, NEW t \in Threads, Holds(t)
  PROVE  InHands(arg[t]) <=> pc[t] \in {"approve", "reject"}
BY DEF IInv, InHands, OneHolder, Holds

LEMMA RejectMovesGate ==
  ASSUME IInv, NEW t \in Threads, NEW p \in Proposals, p = arg[t],
         pc[t] \in {"gate", "dedup", "reject"}, RejectCall(t, p),
         UNCHANGED <<runs, approvedBy, pending>>
  PROVE  TheGate!Deny(p)
<1> USE DEF IInv
<1>1. Releases(t) /\ denied' = denied \cup {p}
  BY TallyReleases DEF RejectCall, MarkRejected
<1>2. Undecided(p) /\ p \notin pending /\ Holds(t)
  BY DEF HolderKnows, PendingIsUndecided, Holds
<1>3. GateOf(p) = IF pc[t] = "reject" THEN "asked" ELSE "new"
  BY <1>2, HandsOfHolder DEF GateOf, Undecided, Unstarted
<1>4. GateOf(p)' = "denied"
  BY <1>1, <1>2 DEF GateOf, Undecided, Unstarted
<1>5. \A q \in Proposals : q # p => GateOf(q)' = GateOf(q)
  BY <1>1, HandsOfOthers, GateSame
<1>6. QED
  BY <1>3, <1>4, <1>5, GateMoves DEF TheGate!Deny

LEMMA ApproveMovesGate ==
  ASSUME IInv, NEW t \in Threads, NEW p \in Proposals, p = arg[t],
         \/ pc[t] = "dedup" /\ p \notin Confirm /\ MarkApproved(p, "policy")
         \/ pc[t] = "approve" /\ MarkApproved(p, "user"),
         Goto(t, "start"), UNCHANGED <<arg, runs, denied, pending>>
  PROVE  TheGate!GrantByPolicy(p) \/ TheGate!GrantByUser(p)
<1> USE DEF IInv
<1>1. /\ approvedBy'[p] # "none"
      /\ \A q \in Proposals : q # p => approvedBy'[q] = approvedBy[q]
      /\ pc' = [pc EXCEPT ![t] = "start"]
  BY DEF MarkApproved, Goto, TypeOK
<1>2. Undecided(p) /\ p \notin pending /\ Holds(t)
  BY DEF HolderKnows, PendingIsUndecided, Holds
<1>3. GateOf(p) = IF pc[t] = "approve" THEN "asked" ELSE "new"
  BY <1>2, HandsOfHolder DEF GateOf, Undecided, Unstarted
<1>4. GateOf(p)' = "granted"
  BY <1>1, <1>2 DEF GateOf, Undecided, Unstarted
<1>5. \A q \in Proposals : q # p => GateOf(q)' = GateOf(q)
  <2>1. \A q \in Proposals : q # p => (InHands(q)' <=> InHands(q))
    BY <1>1 DEF InHands, TypeOK
  <2>2. QED
    BY <1>1, <2>1, GateSame
<1>6. QED
  BY <1>3, <1>4, <1>5, GateMoves DEF TheGate!GrantByPolicy, TheGate!GrantByUser

LEMMA ThreadStepMovesGate ==
  ASSUME IInv, NEW t \in Threads, ThreadStep(t)
  PROVE  TheGate!Next \/ UNCHANGED gateView
<1> USE DEF IInv
<1> DEFINE p == arg[t]
<1>1. CASE Gate(t)
  <2>0. p \in Proposals
    BY <1>1, BusyThread DEF Gate
  <2>1. CASE PassesGate(p)
    <3>1. /\ pc[t] = "gate" /\ pc' = [pc EXCEPT ![t] = "dedup"]
          /\ UNCHANGED <<arg, runs, approvedBy, denied, pending>>
      BY <1>1, <2>1 DEF Gate, Goto, poolVars
    <3>2. \A q \in Proposals : InHands(q)' <=> InHands(q)
      BY <3>1 DEF InHands, TypeOK
    <3>3. QED
      BY <3>1, <3>2, GateStutters
  <2>2. CASE ~ PassesGate(p)
    <3>1. TheGate!Deny(p)
      BY <1>1, <2>0, <2>2, RejectMovesGate DEF Gate, poolVars
    <3>2. QED
      BY <2>0, <3>1 DEF TheGate!Next
  <2>3. QED
    BY <2>1, <2>2
<1>2. CASE Deduplicate(t)
  <2>0. p \in Proposals /\ pc[t] = "dedup" /\ UNCHANGED runs
    BY <1>2, BusyThread DEF Deduplicate, poolVars
  <2>1. CASE Duplicate(p)
    <3>1. TheGate!Deny(p)
      BY <1>2, <2>0, <2>1, RejectMovesGate DEF Deduplicate
    <3>2. QED
      BY <2>0, <3>1 DEF TheGate!Next
  <2>2. CASE ~ Duplicate(p) /\ NeedsApproval(p)
    <3>1. /\ pending' = pending \cup {p} /\ Goto(t, "park") /\ p \in Confirm
          /\ UNCHANGED <<approvedBy, denied, arg>>
      BY <1>2, <2>2 DEF Deduplicate, AddPending, NeedsApproval
    <3>2. Releases(t)
      BY <2>0, <3>1, GotoReleases
    <3>3. Undecided(p) /\ p \notin pending /\ Holds(t)
      BY <2>0 DEF HolderKnows, PendingIsUndecided, Holds
    <3>4. GateOf(p) = "new"
      BY <2>0, <3>3, HandsOfHolder DEF GateOf, Undecided, Unstarted
    <3>5. \A q \in Proposals : q = p => GateOf(q)' = "asked"
      BY <2>0, <3>1, <3>3 DEF GateOf, Undecided, Unstarted
    <3>6. \A q \in Proposals : q # p => GateOf(q)' = GateOf(q)
      BY <2>0, <3>1, <3>2, HandsOfOthers, GateSame
    <3>7. PICK q \in Proposals : q = p
      BY <2>0
    <3>8. TheGate!Ask(q)
      BY <3>1, <3>4, <3>5, <3>6, <3>7, GateMoves DEF TheGate!Ask
    <3>9. QED
      BY <3>8 DEF TheGate!Next
  <2>3. CASE ~ Duplicate(p) /\ ~ NeedsApproval(p)
    <3>1. /\ MarkApproved(p, "policy") /\ Goto(t, "start") /\ p \notin Confirm
          /\ UNCHANGED <<denied, pending, arg>>
      BY <1>2, <2>3 DEF Deduplicate, NeedsApproval
    <3>2. TheGate!GrantByPolicy(p) \/ TheGate!GrantByUser(p)
      BY <2>0, <3>1, ApproveMovesGate
    <3>3. QED
      BY <2>0, <3>2 DEF TheGate!Next
  <2>4. QED
    BY <2>1, <2>2, <2>3
<1>3. CASE ApproveByUser(t)
  <2>1. p \in Proposals /\ MayDecide(pstate[p])
    BY <1>3, BusyThread DEF ApproveByUser, HolderKnows
  <2>2. TheGate!GrantByPolicy(p) \/ TheGate!GrantByUser(p)
    BY <1>3, <2>1, ApproveMovesGate DEF ApproveByUser, poolVars
  <2>3. QED
    BY <2>1, <2>2 DEF TheGate!Next
<1>4. CASE RejectByUser(t)
  <2>1. p \in Proposals /\ MayDecide(pstate[p])
    BY <1>4, BusyThread DEF RejectByUser, HolderKnows
  <2>2. TheGate!Deny(p)
    BY <1>4, <2>1, RejectMovesGate DEF RejectByUser, poolVars
  <2>3. QED
    BY <2>1, <2>2 DEF TheGate!Next
<1>5. CASE \/ MarkPending(t) \/ StartExecution(t) \/ ResultArrives(t)
           \/ ErrorArrives(t) \/ InvokeTimesOut(t) \/ CountInSession(t)
  <2>1. /\ pc[t] \in {"park", "start", "wait", "count_executed", "count_rejected"}
        /\ UNCHANGED <<approvedBy, denied, pending, runs>>
    BY <1>5
       DEF MarkPending, StartExecution, ResultArrives, ErrorArrives,
           InvokeTimesOut, CountInSession, poolVars
  <2>2. p \in Proposals
    BY <2>1, BusyThread
  <2>3. Releases(t)
    <3>1. CASE MarkPending(t)
      BY <2>2, <3>1, ReturnReleases DEF MarkPending
    <3>2. CASE StartExecution(t)
      BY <2>1, <2>2, <3>2, ReturnReleases, GotoReleases DEF StartExecution
    <3>3. CASE ResultArrives(t)
      BY <2>1, <2>2, <3>3, TallyReleases, FailCallReleases DEF ResultArrives
    <3>4. CASE ErrorArrives(t) \/ InvokeTimesOut(t)
      BY <2>2, <3>4, FailCallReleases DEF ErrorArrives, InvokeTimesOut
    <3>5. CASE CountInSession(t)
      BY <2>2, <3>5, ReturnReleases, FailCallReleases DEF CountInSession
    <3>6. QED
      BY <1>5, <3>1, <3>2, <3>3, <3>4, <3>5
  <2>4. \A q \in Proposals : InHands(q)' <=> InHands(q)
    BY <2>1, <2>3 DEF InHands, Releases
  <2>5. QED
    BY <2>1, <2>4, GateStutters
<1>6. QED
  BY <1>1, <1>2, <1>3, <1>4, <1>5 DEF ThreadStep

LEMMA GateStep ==
  IInv /\ [Next]_vars => [TheGate!Next]_gateView
<1> SUFFICES ASSUME IInv, [Next]_vars
             PROVE  TheGate!Next \/ UNCHANGED gateView
  OBVIOUS
<1> USE DEF IInv
<1>1. ASSUME NEW t \in Threads, ThreadStep(t)
      PROVE  TheGate!Next \/ UNCHANGED gateView
  BY <1>1, ThreadStepMovesGate
<1>2. ASSUME NEW t \in Threads, NEW p \in Proposals, Propose(t, p)
      PROVE  UNCHANGED gateView
  <2>1. /\ pc[t] = "idle" /\ pc' = [pc EXCEPT ![t] = "gate"]
        /\ arg' = [arg EXCEPT ![t] = p]
        /\ UNCHANGED <<runs, approvedBy, denied, pending>>
    BY <1>2 DEF Propose, Goto, poolVars
  <2>2. \A q \in Proposals : InHands(q)' <=> InHands(q)
    BY <2>1 DEF InHands, TypeOK
  <2>3. QED
    BY <2>1, <2>2, GateStutters
<1>3. ASSUME NEW t \in Threads, NEW p \in Proposals,
             NEW s \in {"approve", "reject"}, TakePending(t, p, s)
      PROVE  UNCHANGED gateView
  <2>1. /\ pc[t] = "idle" /\ p \in pending /\ pending' = pending \ {p}
        /\ pc' = [pc EXCEPT ![t] = s] /\ arg' = [arg EXCEPT ![t] = p]
        /\ UNCHANGED <<runs, approvedBy, denied>>
    BY <1>3 DEF TakePending, RemovePending, Goto, poolVars, proposalVars
  <2>2. \A q \in Proposals : q # p => (InHands(q)' <=> InHands(q))
    BY <2>1 DEF InHands, TypeOK
  <2>3. InHands(p)'
    BY <2>1 DEF InHands, TypeOK
  <2>4. Undecided(p)
    BY <2>1 DEF PendingIsUndecided
  <2>5. GateOf(p)' = GateOf(p)
    BY <2>1, <2>3, <2>4 DEF GateOf, Undecided, Unstarted
  <2>6. \A q \in Proposals : GateOf(q)' = GateOf(q)
    BY <2>1, <2>2, <2>5, GateSame
  <2>7. QED
    BY <2>6 DEF gateView
<1>4. ASSUME NEW w \in Workers, StartHandler(w)
      PROVE  TheGate!Next
  <2>0. PICK p \in Proposals : p = Head(queue)
    BY <1>4 DEF StartHandler, TypeOK
  <2>1. /\ runs' = [runs EXCEPT ![p] = @ + 1] /\ queue # <<>>
        /\ UNCHANGED <<approvedBy, denied, pending, pc, arg>>
    BY <1>4, <2>0 DEF StartHandler, proposalVars, threadVars
  <2>2. 1 \in DOMAIN queue /\ queue[1] = p
    BY <2>0, <2>1 DEF TypeOK
  <2>3. Granted(p) /\ runs[p] = 0
    BY <2>2 DEF StartedIsGranted
  <2>4. runs'[p] = 1 /\ \A q \in Proposals : q # p => runs'[q] = runs[q]
    BY <2>1, <2>3 DEF TypeOK
  <2>5. GateOf(p) = "granted" /\ GateOf(p)' = "ran"
    BY <2>3, <2>4 DEF GateOf, Granted
  <2>6. \A q \in Proposals : q # p => GateOf(q)' = GateOf(q)
    BY <2>1, <2>4, GateSame DEF InHands
  <2>7. TheGate!Run(p)
    BY <2>5, <2>6, GateMoves DEF TheGate!Run
  <2>8. QED
    BY <2>7 DEF TheGate!Next
<1>5. CASE \/ \E w \in Workers, o \in {"ok", "error"} : FinishHandler(w, o)
           \/ \E sig \in Signatures : WindowPasses(sig)
           \/ \E s \in AgentStateSet : AgentMoves(s)
           \/ UNCHANGED vars
  <2>1. UNCHANGED <<approvedBy, denied, pending, runs, pc, arg>>
    BY <1>5
       DEF FinishHandler, WindowPasses, AgentMoves, vars, proposalVars, poolVars,
           threadVars
  <2>2. QED
    BY <2>1, GateStutters DEF InHands
<1>6. QED
  BY <1>1, <1>2, <1>3, <1>4, <1>5
     DEF Next, Request, TakeToApprove, TakeToReject, WorkerStep

LEMMA GateInit == Init => TheGate!Init
BY DEF Init, TheGate!Init, gateView, GateOf, InHands

\* The whole pipeline, with its races and timeouts, implements the approval
\* gate: nothing is granted without being asked where it must be, and nothing
\* runs that was not granted or was denied.
THEOREM Refinement == Spec => ImplementsGate
<1>1. Spec => []IInv
  BY Inductive
<1>2. QED
  BY <1>1, GateInit, GateStep, PTL DEF Spec, ImplementsGate, TheGate!Spec
-----------------------------------------------------------------------------
(* No confirmation is lost: a call whose caller is told to wait is pending, *)
(* in the hands of a thread or decided from the moment it is parked, and    *)
(* once it is so it stays so.                                               *)

Kept(p) ==
  p \in pending \/ InHands(p) \/ approvedBy[p] = "user" \/ p \in denied

ParkedIsKept == \A t \in Threads : pc[t] = "park" => Kept(arg[t])

\* A thread that ends its call, or goes on in it, moves nobody else.
Moves(t) ==
  /\ \A u \in Threads : u # t => pc'[u] = pc[u] /\ arg'[u] = arg[u]
  /\ \A p \in Proposals : "pending" \in told'[p] =>
       "pending" \in told[p] \/ (pc[t] = "park" /\ p = arg[t])

LEMMA ReturnMoves ==
  ASSUME TypeOK, NEW t \in Threads, NEW p \in Proposals, NEW a \in Answers,
         a # "pending" \/ (pc[t] = "park" /\ p = arg[t]), Return(t, p, a)
  PROVE  Moves(t)
BY DEF Return, Goto, TypeOK, Moves

LEMMA GotoMoves ==
  ASSUME TypeOK, NEW t \in Threads, NEW s, Goto(t, s), UNCHANGED <<arg, told>>
  PROVE  Moves(t)
BY DEF Goto, TypeOK, Moves

LEMMA TallyMoves ==
  ASSUME TypeOK, NEW t \in Threads, NEW p \in Proposals, NEW s,
         NEW a \in Answers \ {"pending"}, TallyThenReturn(t, p, s, a)
  PROVE  Moves(t)
BY ReturnMoves, GotoMoves DEF TallyThenReturn

LEMMA FailMoves ==
  ASSUME TypeOK, NEW t \in Threads, NEW p \in Proposals, FailCall(t, p)
  PROVE  Moves(t)
<1>1. PICK a \in {"failed", "raised"} : Return(t, p, a)
  BY DEF FailCall
<1>2. QED
  BY <1>1, ReturnMoves DEF Answers

LEMMA RejectMoves ==
  ASSUME TypeOK, NEW t \in Threads, NEW p \in Proposals, RejectCall(t, p)
  PROVE  Moves(t) /\ denied \subseteq denied'
BY TallyMoves DEF RejectCall, MarkRejected, Answers

\* A request thread moves itself, and takes nothing out of _pending_proposals.
LEMMA ThreadIsLocal ==
  ASSUME TypeOK, NEW t \in Threads, ThreadStep(t)
  PROVE  /\ Moves(t)
         /\ pending \subseteq pending' /\ denied \subseteq denied'
         /\ \A p \in Proposals : p # arg[t] => approvedBy'[p] = approvedBy[p]
<1> DEFINE p == arg[t]
<1>1. pc[t] # "idle" /\ p \in Proposals
  <2>1. pc[t] # "idle"
    BY DEF ThreadStep, Gate, Deduplicate, MarkPending, ApproveByUser,
           RejectByUser, StartExecution, ResultArrives, ErrorArrives,
           InvokeTimesOut, CountInSession
  <2>2. QED
    BY <2>1, BusyThread
<1>2. CASE Gate(t)
  BY <1>1, <1>2, RejectMoves, GotoMoves DEF Gate
<1>3. CASE Deduplicate(t)
  <2>1. CASE Duplicate(p)
    BY <1>1, <1>3, <2>1, RejectMoves DEF Deduplicate
  <2>2. CASE ~ Duplicate(p)
    <3>1. Moves(t) /\ denied' = denied
      BY <1>3, <2>2, GotoMoves DEF Deduplicate
    <3>2. pending \subseteq pending' /\ \A q \in Proposals : q # p => approvedBy'[q] = approvedBy[q]
      BY <1>1, <1>3, <2>2 DEF Deduplicate, AddPending, MarkApproved, TypeOK
    <3>3. QED
      BY <3>1, <3>2
  <2>3. QED
    BY <2>1, <2>2
<1>4. CASE MarkPending(t)
  BY <1>1, <1>4, ReturnMoves DEF MarkPending, Answers
<1>5. CASE ApproveByUser(t)
  <2>1. Moves(t)
    BY <1>1, <1>5, ReturnMoves, GotoMoves DEF ApproveByUser, Answers
  <2>2. QED
    BY <1>1, <1>5, <2>1 DEF ApproveByUser, MarkApproved, TypeOK
<1>6. CASE RejectByUser(t)
  BY <1>1, <1>6, RejectMoves, ReturnMoves DEF RejectByUser, Answers
<1>7. CASE StartExecution(t)
  BY <1>1, <1>7, ReturnMoves, GotoMoves DEF StartExecution, Answers
<1>8. CASE ResultArrives(t)
  BY <1>1, <1>8, TallyMoves, FailMoves DEF ResultArrives, Answers
<1>9. CASE ErrorArrives(t) \/ InvokeTimesOut(t)
  BY <1>1, <1>9, FailMoves DEF ErrorArrives, InvokeTimesOut
<1>10. CASE CountInSession(t)
  BY <1>1, <1>10, ReturnMoves, FailMoves DEF CountInSession, Answers
<1>11. QED
  BY <1>2, <1>3, <1>4, <1>5, <1>6, <1>7, <1>8, <1>9, <1>10 DEF ThreadStep

\* The thread that has the proposal in hands decides it.
LEMMA HandsDecide ==
  ASSUME IInv, NEW t \in Threads, ThreadStep(t), pc[t] \in {"approve", "reject"}
  PROVE  approvedBy'[arg[t]] = "user" \/ arg[t] \in denied'
<1>1. Undecided(arg[t]) /\ MayDecide(pstate[arg[t]]) /\ arg[t] \in Proposals
  BY DEF IInv, HolderKnows, TypeOK
<1>2. ApproveByUser(t) \/ RejectByUser(t)
  BY DEF ThreadStep, Gate, Deduplicate, MarkPending, StartExecution,
         ResultArrives, ErrorArrives, InvokeTimesOut, CountInSession
<1>3. QED
  BY <1>1, <1>2 DEF ApproveByUser, RejectByUser, MarkApproved, RejectCall,
                    MarkRejected, IInv, TypeOK

LEMMA KeptByThread ==
  ASSUME IInv, NEW t \in Threads, ThreadStep(t), NEW p \in Proposals, Kept(p)
  PROVE  Kept(p)'
<1>1. CASE p \in pending \/ p \in denied
  BY <1>1, ThreadIsLocal DEF Kept, IInv
<1>2. CASE InHands(p)
  <2>1. PICK u \in Threads : pc[u] \in {"approve", "reject"} /\ arg[u] = p
    BY <1>2 DEF InHands
  <2>2. CASE u = t
    BY <2>1, <2>2, HandsDecide DEF Kept
  <2>3. CASE u # t
    BY <2>1, <2>3, ThreadIsLocal DEF Moves, Kept, InHands, IInv
  <2>4. QED
    BY <2>2, <2>3
<1>3. CASE approvedBy[p] = "user"
  <2>1. CASE p # arg[t]
    BY <1>3, <2>1, ThreadIsLocal DEF Kept, IInv
  <2>2. CASE p = arg[t]
    <3>1. pc[t] # "dedup"
      BY <1>3, <2>2 DEF IInv, HolderKnows, Undecided
    <3>2. approvedBy' = approvedBy \/ ApproveByUser(t)
      BY <3>1 DEF ThreadStep, Gate, Deduplicate, MarkPending, RejectByUser,
                  StartExecution, ResultArrives, ErrorArrives, InvokeTimesOut,
                  CountInSession
    <3>3. QED
      BY <1>3, <2>2, <3>2
      DEF ApproveByUser, MarkApproved, Kept, IInv, TypeOK
  <2>3. QED
    BY <2>1, <2>2
<1>4. QED
  BY <1>1, <1>2, <1>3 DEF Kept

\* Taking a proposal puts it into hands.
LEMMA KeptByRequest ==
  ASSUME IInv, NEW t \in Threads, NEW q \in Proposals, Request(t, q)
  PROVE  /\ \A p \in Proposals : Kept(p) => Kept(p)'
         /\ \A u \in Threads : pc'[u] = "park" => pc[u] = "park" /\ arg'[u] = arg[u]
         /\ told' = told
<1>1. pc[t] = "idle" /\ UNCHANGED <<approvedBy, denied, told>>
  BY DEF Request, Propose, TakeToApprove, TakeToReject, TakePending,
         proposalVars
<1>2. PICK s \in {"gate", "approve", "reject"} :
        /\ pc' = [pc EXCEPT ![t] = s] /\ arg' = [arg EXCEPT ![t] = q]
        /\ s = "gate" => pending' = pending
        /\ s # "gate" => pending' = pending \ {q}
  BY DEF Request, Propose, TakeToApprove, TakeToReject, TakePending,
         RemovePending, Goto
<1>3. /\ \A u \in Threads \ {t} : pc'[u] = pc[u] /\ arg'[u] = arg[u]
      /\ pc'[t] = s /\ arg'[t] = q
  BY <1>2 DEF IInv, TypeOK
<1>4. ASSUME NEW p \in Proposals, Kept(p) PROVE Kept(p)'
  <2>1. InHands(p) => InHands(p)'
    BY <1>1, <1>3 DEF InHands
  <2>2. p \in pending => p \in pending' \/ InHands(p)'
    BY <1>2, <1>3 DEF InHands
  <2>3. QED
    BY <1>1, <1>4, <2>1, <2>2 DEF Kept
<1>5. QED
  BY <1>1, <1>3, <1>4

LEMMA KeptStep ==
  ASSUME IInv, ParkedIsKept, NoLostConfirmation, Next
  PROVE  ParkedIsKept' /\ NoLostConfirmation'
<1>1. ASSUME NEW t \in Threads, ThreadStep(t)
      PROVE  ParkedIsKept' /\ NoLostConfirmation'
  <2>1. ASSUME NEW u \in Threads, pc'[u] = "park" PROVE Kept(arg[u])'
    <3>1. CASE u # t
      BY <1>1, <2>1, <3>1, ThreadIsLocal, KeptByThread
      DEF Moves, ParkedIsKept, IInv, TypeOK, Steps
    <3>2. CASE u = t
      <4>1. Deduplicate(t) /\ pc'[t] = "park"
        BY <1>1, <2>1, <3>2
        DEF ThreadStep, Gate, Deduplicate, MarkPending, ApproveByUser,
            RejectByUser, StartExecution, ResultArrives, ErrorArrives,
            InvokeTimesOut, CountInSession, RejectCall, TallyThenReturn,
            FailCall, Return, Goto, IInv, TypeOK
      <4>2. arg' = arg /\ arg[t] \in pending'
        BY <4>1 DEF Deduplicate, RejectCall, TallyThenReturn, Return, Goto,
                    AddPending, IInv, TypeOK
      <4>3. QED
        BY <3>2, <4>2 DEF Kept
    <3>3. QED
      BY <3>1, <3>2
  <2>2. ASSUME NEW p \in Proposals, "pending" \in told'[p] PROVE Kept(p)'
    BY <1>1, <2>2, ThreadIsLocal, KeptByThread
    DEF Moves, NoLostConfirmation, ParkedIsKept, Kept, IInv
  <2>3. QED
    BY <2>1, <2>2 DEF ParkedIsKept, NoLostConfirmation, Kept
<1>2. ASSUME NEW t \in Threads, NEW q \in Proposals, Request(t, q)
      PROVE  ParkedIsKept' /\ NoLostConfirmation'
  <2>1. ASSUME NEW u \in Threads, pc'[u] = "park" PROVE Kept(arg[u])'
    <3>1. pc[u] = "park" /\ arg'[u] = arg[u] /\ arg[u] \in Proposals
      BY <1>2, <2>1, KeptByRequest DEF IInv, TypeOK
    <3>2. Kept(arg[u])
      BY <3>1 DEF ParkedIsKept
    <3>3. PICK p \in Proposals : p = arg[u] /\ p = arg'[u] /\ Kept(p)
      BY <3>1, <3>2
    <3>4. Kept(p)'
      BY <1>2, <3>3, KeptByRequest
    <3>5. QED
      BY <3>3, <3>4 DEF Kept, InHands
  <2>2. ASSUME NEW p \in Proposals, "pending" \in told'[p] PROVE Kept(p)'
    BY <1>2, <2>2, KeptByRequest DEF NoLostConfirmation, Kept
  <2>3. QED
    BY <2>1, <2>2 DEF ParkedIsKept, NoLostConfirmation, Kept
<1>3. CASE UNCHANGED <<pc, arg, told, pending, approvedBy, denied>>
  BY <1>3 DEF ParkedIsKept, NoLostConfirmation, Kept, InHands
<1>4. QED
  <2>1. ASSUME NEW w \in Workers, WorkerStep(w)
        PROVE  UNCHANGED <<pc, arg, told, pending, approvedBy, denied>>
    BY <2>1 DEF WorkerStep, StartHandler, FinishHandler, proposalVars,
                threadVars
  <2>2. QED
    BY <1>1, <1>2, <1>3, <2>1
    DEF Next, WindowPasses, AgentMoves, proposalVars, threadVars

\* A caller that was told to wait can still get its confirmation, for any
\* number of callers, deciders and proposals.
THEOREM ConfirmationIsKept == Spec => []NoLostConfirmation
<1>1. Init => ParkedIsKept /\ NoLostConfirmation
  BY DEF Init, ParkedIsKept, NoLostConfirmation
<1>2. IInv /\ ParkedIsKept /\ NoLostConfirmation /\ [Next]_vars
      => ParkedIsKept' /\ NoLostConfirmation'
  <2>1. IInv /\ ParkedIsKept /\ NoLostConfirmation /\ Next
        => ParkedIsKept' /\ NoLostConfirmation'
    BY KeptStep
  <2>2. ParkedIsKept /\ NoLostConfirmation /\ UNCHANGED vars
        => ParkedIsKept' /\ NoLostConfirmation'
    BY DEF vars, proposalVars, threadVars, ParkedIsKept, NoLostConfirmation,
           Kept, InHands
  <2>3. QED
    BY <2>1, <2>2
<1>3. QED
  BY <1>1, <1>2, Inductive, PTL DEF Spec

-----------------------------------------------------------------------------
(* Answers are honest: the outcome of a call is settled once by the pool,   *)
(* and one thread at a time is in a position to tell it.                    *)

OutcomeIsSettled ==
  /\ \A p \in Proposals :
       /\ future[p] = "ok" => runs[p] = 1
       /\ Queued(p) => future[p] = "pending"
  /\ \A w \in Workers :
       worker[w] # NoOne => future[worker[w]] = "pending" /\ runs[worker[w]] = 1
  /\ \A v, w \in Workers : worker[v] = worker[w] /\ worker[v] # NoOne => v = w

LEMMA StartSettles ==
  ASSUME IInv, OutcomeIsSettled, NEW t \in Threads, StartExecution(t)
  PROVE  OutcomeIsSettled'
<1> DEFINE p == arg[t]
<1>1. /\ p \in Proposals /\ runs[p] = 0 /\ ~ Queued(p)
      /\ UNCHANGED <<worker, runs>>
  BY BusyThread DEF StartExecution, IInv, HolderKnows, Unstarted
<1>2. CASE MayStart(pstate[p])
  <2>1. queue' = Append(queue, p) /\ future' = [future EXCEPT ![p] = "pending"]
    BY <1>2 DEF StartExecution
  <2>2. \A q \in Proposals : Queued(q)' => Queued(q) \/ q = p
    <3>1. queue \in Seq(Proposals)
      BY DEF IInv, TypeOK
    <3>2. /\ DOMAIN queue' = DOMAIN queue \cup {Len(queue) + 1}
          /\ queue'[Len(queue) + 1] = p
          /\ \A i \in DOMAIN queue : queue'[i] = queue[i]
      BY <1>1, <2>1, <3>1
    <3>3. QED
      BY <3>2 DEF Queued
  <2>3. \A w \in Workers : worker[w] # p
    BY <1>1, ExecutorAssumption DEF OutcomeIsSettled
  <2>4. /\ future'[p] = "pending"
        /\ \A q \in Proposals \ {p} : future'[q] = future[q]
    BY <1>1, <2>1 DEF IInv, TypeOK
  <2>5. \A w \in Workers : worker[w] # NoOne => worker[w] \in Proposals \ {p}
    BY <2>3 DEF IInv, TypeOK
  <2>6. QED
    BY <1>1, <2>2, <2>4, <2>5 DEF OutcomeIsSettled
<1>3. CASE ~ MayStart(pstate[p])
  BY <1>1, <1>3 DEF StartExecution, OutcomeIsSettled, Queued
<1>4. QED
  BY <1>2, <1>3

LEMMA StartHandlerSettles ==
  ASSUME IInv, OutcomeIsSettled, NEW w \in Workers, StartHandler(w)
  PROVE  OutcomeIsSettled'
<1>1. PICK p \in Proposals : p = Head(queue)
  BY DEF StartHandler, IInv, TypeOK
<1>2. /\ queue # <<>> /\ queue' = Tail(queue) /\ future' = future
      /\ worker' = [worker EXCEPT ![w] = p] /\ runs' = [runs EXCEPT ![p] = @ + 1]
  BY <1>1 DEF StartHandler
<1>3. 1 \in DOMAIN queue /\ queue[1] = p
  BY <1>1, <1>2 DEF IInv, TypeOK
<1>4. Queued(p) /\ runs[p] = 0 /\ future[p] = "pending"
  BY <1>1, <1>3 DEF Queued, IInv, StartedIsGranted, OutcomeIsSettled
<1>5. \A q \in Proposals : Queued(q)' => Queued(q)
  <2>1. \A i \in DOMAIN queue' : i + 1 \in DOMAIN queue /\ queue'[i] = queue[i + 1]
    BY <1>2, <1>3 DEF IInv, TypeOK
  <2>2. QED
    BY <2>1 DEF Queued
<1>6. /\ runs'[p] = 1 /\ \A q \in Proposals \ {p} : runs'[q] = runs[q]
      /\ worker'[w] = p /\ \A v \in Workers \ {w} : worker'[v] = worker[v]
  BY <1>2, <1>4 DEF IInv, TypeOK
<1>7. \A v \in Workers : worker[v] # NoOne => worker[v] \in Proposals \ {p}
  BY <1>4 DEF OutcomeIsSettled, IInv, TypeOK
<1>8. QED
  BY <1>2, <1>4, <1>5, <1>6, <1>7 DEF OutcomeIsSettled

LEMMA FinishSettles ==
  ASSUME IInv, OutcomeIsSettled, NEW w \in Workers,
         NEW o \in {"ok", "error"}, FinishHandler(w, o)
  PROVE  OutcomeIsSettled'
<1> DEFINE p == worker[w]
<1>1. /\ p # NoOne /\ p \in Proposals /\ UNCHANGED <<queue, runs>>
      /\ future' = [future EXCEPT ![p] = o] /\ worker' = [worker EXCEPT ![w] = NoOne]
  BY DEF FinishHandler, IInv, TypeOK
<1>2. runs[p] = 1 /\ ~ Queued(p)
  BY <1>1 DEF OutcomeIsSettled, IInv, StartedIsGranted
<1>3. /\ future'[p] = o /\ \A q \in Proposals \ {p} : future'[q] = future[q]
      /\ worker'[w] = NoOne /\ \A v \in Workers \ {w} : worker'[v] = worker[v]
  BY <1>1 DEF IInv, TypeOK
<1>4. \A v \in Workers \ {w} : worker[v] # NoOne => worker[v] \in Proposals \ {p}
  BY <1>1 DEF OutcomeIsSettled, IInv, TypeOK
<1>5. \A q \in Proposals : Queued(q)' <=> Queued(q)
  BY <1>1 DEF Queued
<1>6. QED
  BY <1>1, <1>2, <1>3, <1>4, <1>5 DEF OutcomeIsSettled

LEMMA OutcomeStep ==
  ASSUME IInv, OutcomeIsSettled, Next
  PROVE  OutcomeIsSettled'
<1>1. CASE UNCHANGED poolVars
  BY <1>1 DEF poolVars, OutcomeIsSettled, Queued
<1>2. ASSUME NEW t \in Threads, ThreadStep(t)
      PROVE  UNCHANGED poolVars \/ StartExecution(t)
  BY <1>2 DEF ThreadStep, Gate, Deduplicate, MarkPending, ApproveByUser,
              RejectByUser, ResultArrives, ErrorArrives, InvokeTimesOut,
              CountInSession
<1>3. ASSUME NEW t \in Threads, NEW p \in Proposals, Request(t, p)
      PROVE  UNCHANGED poolVars
  BY <1>3 DEF Request, Propose, TakeToApprove, TakeToReject, TakePending
<1>4. QED
  BY <1>1, <1>2, <1>3, StartSettles, StartHandlerSettles, FinishSettles
  DEF Next, WorkerStep, WindowPasses, AgentMoves

\* Inside a call, where an answer can come from.
Inside(t) == pc[t] \notin {"idle", "park"}
Quiet(p)  == told[p] \subseteq {"pending"}

OneInside == \A t, u \in Threads : Inside(t) /\ Inside(u) /\ arg[t] = arg[u] => t = u

InsideIsQuiet ==
  \A t \in Threads :
    /\ Inside(t) => Quiet(arg[t]) /\ arg[t] \notin pending
    /\ pc[t] = "count_executed" => future[arg[t]] = "ok"
    /\ pc[t] = "count_rejected" => arg[t] \in denied

OthersAreQuiet ==
  /\ \A p \in pending : Quiet(p)
  /\ \A p \in Proposals : pstate[p] = "UNCREATED" => Quiet(p)

ToldIsTrue ==
  \A p \in Proposals :
    /\ "executed" \in told[p] => future[p] = "ok"
    /\ "rejected" \in told[p] => p \in denied
    /\ \A a, b \in told[p] \ {"pending"} : a = b

AnswersInv == OneInside /\ InsideIsQuiet /\ OthersAreQuiet /\ ToldIsTrue

GoesOn(t, s) ==
  /\ Goto(t, s) /\ UNCHANGED <<arg, told>> /\ pc[t] # "park"
  /\ s = "count_executed" => future'[arg[t]] = "ok"
  /\ s = "count_rejected" => arg[t] \in denied'
  /\ s # "park" => pending' = pending
  /\ pending' \subseteq pending \cup {arg[t]}

Ends(t, a) ==
  /\ Return(t, arg[t], a) /\ pending' = pending
  /\ a = "pending" <=> pc[t] = "park"
  /\ a = "executed" => future'[arg[t]] = "ok"
  /\ a = "rejected" => arg[t] \in denied'

\* What a thread tells is so.
LEMMA ThreadTells ==
  ASSUME IInv, InsideIsQuiet, NEW t \in Threads, ThreadStep(t)
  PROVE  \/ \E s \in Steps \ {"idle"} : GoesOn(t, s)
         \/ \E a \in Answers : Ends(t, a)
<1> DEFINE p == arg[t]
<1> USE DEF IInv
<1>1. pc[t] # "idle" /\ p \in Proposals
  <2>1. pc[t] # "idle"
    BY DEF ThreadStep, Gate, Deduplicate, MarkPending, ApproveByUser,
           RejectByUser, StartExecution, ResultArrives, ErrorArrives,
           InvokeTimesOut, CountInSession
  <2>2. QED
    BY <2>1, BusyThread
<1>2. ASSUME RejectCall(t, p), pending' = pending, pc[t] # "park"
      PROVE  \/ \E s \in Steps \ {"idle"} : GoesOn(t, s)
             \/ \E a \in Answers : Ends(t, a)
  <2>1. p \in denied'
    BY <1>2 DEF RejectCall, MarkRejected
  <2>2. CASE session
    <3>1. GoesOn(t, "count_rejected")
      BY <1>2, <2>1, <2>2 DEF GoesOn, RejectCall, TallyThenReturn
    <3>2. QED
      BY <3>1 DEF Steps
  <2>3. CASE ~ session
    <3>1. Ends(t, "rejected")
      BY <1>2, <2>1, <2>3 DEF Ends, RejectCall, TallyThenReturn
    <3>2. QED
      BY <3>1 DEF Answers
  <2>4. QED
    BY <2>2, <2>3
<1>3. ASSUME FailCall(t, p), pending' = pending, pc[t] # "park"
      PROVE  \E a \in Answers : Ends(t, a)
  <2>1. PICK a \in {"failed", "raised"} : Return(t, p, a)
    BY <1>3 DEF FailCall
  <2>2. Ends(t, a)
    BY <1>3, <2>1 DEF Ends
  <2>3. QED
    BY <2>2 DEF Answers
<1>4. CASE Gate(t)
  <2>1. CASE PassesGate(p)
    <3>1. GoesOn(t, "dedup")
      BY <1>4, <2>1 DEF Gate, GoesOn
    <3>2. QED
      BY <3>1 DEF Steps
  <2>2. CASE ~ PassesGate(p)
    BY <1>2, <1>4, <2>2 DEF Gate
  <2>3. QED
    BY <2>1, <2>2
<1>5. CASE Deduplicate(t)
  <2>1. CASE Duplicate(p)
    BY <1>2, <1>5, <2>1 DEF Deduplicate
  <2>2. CASE ~ Duplicate(p) /\ NeedsApproval(p)
    <3>1. GoesOn(t, "park")
      BY <1>5, <2>2 DEF Deduplicate, GoesOn, AddPending
    <3>2. QED
      BY <3>1 DEF Steps
  <2>3. CASE ~ Duplicate(p) /\ ~ NeedsApproval(p)
    <3>1. GoesOn(t, "start")
      BY <1>5, <2>3 DEF Deduplicate, GoesOn
    <3>2. QED
      BY <3>1 DEF Steps
  <2>4. QED
    BY <2>1, <2>2, <2>3
<1>6. CASE MarkPending(t)
  <2>1. Ends(t, "pending")
    BY <1>6 DEF MarkPending, Ends
  <2>2. QED
    BY <2>1 DEF Answers
<1>7. CASE ApproveByUser(t)
  <2>1. GoesOn(t, "start") \/ Ends(t, "raised")
    BY <1>7 DEF ApproveByUser, GoesOn, Ends
  <2>2. QED
    BY <2>1 DEF Steps, Answers
<1>8. CASE RejectByUser(t)
  <2>1. CASE MayDecide(pstate[p])
    BY <1>2, <1>8, <2>1 DEF RejectByUser
  <2>2. CASE ~ MayDecide(pstate[p])
    <3>1. Ends(t, "raised")
      BY <1>8, <2>2 DEF RejectByUser, Ends
    <3>2. QED
      BY <3>1 DEF Answers
  <2>3. QED
    BY <2>1, <2>2
<1>9. CASE StartExecution(t)
  <2>1. GoesOn(t, "wait") \/ Ends(t, "raised")
    BY <1>9 DEF StartExecution, GoesOn, Ends
  <2>2. QED
    BY <2>1 DEF Steps, Answers
<1>10. CASE ResultArrives(t)
  <2>1. CASE MayComplete(pstate[p]) /\ session
    <3>1. GoesOn(t, "count_executed")
      BY <1>10, <2>1 DEF ResultArrives, TallyThenReturn, GoesOn, poolVars
    <3>2. QED
      BY <3>1 DEF Steps
  <2>2. CASE MayComplete(pstate[p]) /\ ~ session
    <3>1. Ends(t, "executed")
      BY <1>10, <2>2 DEF ResultArrives, TallyThenReturn, Ends, poolVars
    <3>2. QED
      BY <3>1 DEF Answers
  <2>3. CASE ~ MayComplete(pstate[p])
    BY <1>3, <1>10, <2>3 DEF ResultArrives
  <2>4. QED
    BY <2>1, <2>2, <2>3
<1>11. CASE ErrorArrives(t) \/ InvokeTimesOut(t)
  BY <1>3, <1>11 DEF ErrorArrives, InvokeTimesOut
<1>12. CASE CountInSession(t)
  <2>1. CASE pc[t] = "count_executed" /\ session
    <3>1. Ends(t, "executed")
      BY <1>12, <2>1 DEF CountInSession, Ends, InsideIsQuiet, poolVars
    <3>2. QED
      BY <3>1 DEF Answers
  <2>2. CASE pc[t] = "count_executed" /\ ~ session
    BY <1>3, <1>12, <2>2 DEF CountInSession
  <2>3. CASE pc[t] = "count_rejected"
    <3>1. Ends(t, "rejected") \/ Ends(t, "raised")
      BY <1>12, <2>3 DEF CountInSession, Ends, InsideIsQuiet
    <3>2. QED
      BY <3>1 DEF Answers
  <2>4. QED
    BY <1>12, <2>1, <2>2, <2>3 DEF CountInSession
<1>13. QED
  BY <1>4, <1>5, <1>6, <1>7, <1>8, <1>9, <1>10, <1>11, <1>12 DEF ThreadStep

\* The pool settles an outcome once: only a call that is still to be started
\* can get a new one.
LEMMA OutcomeStays ==
  ASSUME IInv, OutcomeIsSettled, Next
  PROVE  \A p \in Proposals : future[p] = "ok" => future'[p] = "ok"
<1>1. ASSUME NEW t \in Threads, StartExecution(t), NEW p \in Proposals, future[p] = "ok"
      PROVE  future'[p] = "ok"
  <2>1. runs[arg[t]] = 0 /\ runs[p] = 1
    BY <1>1 DEF StartExecution, IInv, HolderKnows, Unstarted, OutcomeIsSettled
  <2>2. QED
    BY <1>1, <2>1 DEF StartExecution, IInv, TypeOK
<1>2. ASSUME NEW w \in Workers, NEW o \in {"ok", "error"}, FinishHandler(w, o),
             NEW p \in Proposals, future[p] = "ok"
      PROVE  future'[p] = "ok"
  BY <1>2 DEF FinishHandler, OutcomeIsSettled, IInv, TypeOK
<1>3. \/ future' = future \/ \E t \in Threads : StartExecution(t)
      \/ \E w \in Workers, o \in {"ok", "error"} : FinishHandler(w, o)
  BY DEF Next, ThreadStep, Gate, Deduplicate, MarkPending, ApproveByUser,
         RejectByUser, ResultArrives, ErrorArrives, InvokeTimesOut,
         CountInSession, Request, Propose, TakeToApprove, TakeToReject,
         TakePending, WorkerStep, StartHandler, WindowPasses, AgentMoves,
         poolVars
<1>4. QED
  BY <1>1, <1>2, <1>3

LEMMA ThreadKeepsAnswers ==
  ASSUME IInv, IInv', OutcomeIsSettled, AnswersInv, Next,
         NEW t \in Threads, ThreadStep(t)
  PROVE  AnswersInv'
<1> DEFINE p == arg[t]
<1>1. /\ \A u \in Threads \ {t} : pc'[u] = pc[u] /\ arg'[u] = arg[u]
      /\ \A q \in Proposals : future[q] = "ok" => future'[q] = "ok"
      /\ denied \subseteq denied'
  BY ThreadIsLocal, OutcomeStays DEF Moves, IInv
<1>2. /\ pc[t] # "idle" /\ p \in Proposals /\ pstate[p] # "UNCREATED"
      /\ pstate'[p] # "UNCREATED"
      /\ \A q \in Proposals \ {p} : pstate'[q] = pstate[q]
  <2>1. pc[t] # "idle"
    BY DEF ThreadStep, Gate, Deduplicate, MarkPending, ApproveByUser,
           RejectByUser, StartExecution, ResultArrives, ErrorArrives,
           InvokeTimesOut, CountInSession
  <2>2. p \in Proposals /\ pstate[p] # "UNCREATED"
    BY <2>1, BusyThread DEF IInv, HolderKnows
  <2>3. PICK s \in LifecycleStates \ {"UNCREATED"} :
          pstate' \in {pstate, [pstate EXCEPT ![p] = s]}
    BY DEF ThreadStep, Gate, Deduplicate, MarkPending, ApproveByUser,
           RejectByUser, StartExecution, ResultArrives, ErrorArrives,
           InvokeTimesOut, CountInSession, RejectCall, MarkRejected, FailCall,
           MarkApproved, SetState, LifecycleStates
  <2>4. QED
    BY <2>1, <2>2, <2>3 DEF IInv, TypeOK
<1>3. \A u \in Threads : pc[u] # "idle" => arg[u] \in Proposals
  BY BusyThread DEF IInv
<1>4. CASE \E s \in Steps \ {"idle"} : GoesOn(t, s)
  <2>1. PICK s \in Steps \ {"idle"} : GoesOn(t, s)
    BY <1>4
  <2>2. pc'[t] = s /\ arg' = arg /\ told' = told /\ Inside(t)
    BY <1>2, <2>1 DEF GoesOn, Goto, Inside, IInv, TypeOK
  <2>3. OneInside'
    BY <1>1, <2>2 DEF AnswersInv, OneInside, Inside
  <2>4. InsideIsQuiet'
    <3>1. ASSUME NEW u \in Threads, u # t, Inside(u) PROVE arg[u] # p
      BY <2>2, <3>1 DEF AnswersInv, OneInside
    <3>2. QED
      BY <1>1, <1>3, <2>1, <2>2, <3>1
      DEF AnswersInv, InsideIsQuiet, Inside, Quiet, GoesOn
  <2>5. OthersAreQuiet'
    <3>1. Quiet(p)
      BY <2>2 DEF AnswersInv, InsideIsQuiet
    <3>2. QED
      BY <1>2, <2>1, <2>2, <3>1 DEF AnswersInv, OthersAreQuiet, Quiet, GoesOn
  <2>6. ToldIsTrue'
    BY <1>1, <2>2 DEF AnswersInv, ToldIsTrue
  <2>7. QED
    BY <2>3, <2>4, <2>5, <2>6 DEF AnswersInv
<1>5. CASE \E a \in Answers : Ends(t, a)
  <2>1. PICK a \in Answers : Ends(t, a)
    BY <1>5
  <2>2. /\ pc'[t] = "idle" /\ pending' = pending
        /\ told'[p] = told[p] \cup {a}
        /\ \A q \in Proposals \ {p} : told'[q] = told[q]
    BY <1>2, <2>1 DEF Ends, Return, Goto, IInv, TypeOK
  <2>3. OneInside'
    BY <1>1, <2>2 DEF AnswersInv, OneInside, Inside
  <2>4. a # "pending" => /\ Inside(t) /\ Quiet(p) /\ p \notin pending
                         /\ \A u \in Threads \ {t} : Inside(u) => arg[u] # p
    BY <1>2, <2>1 DEF Ends, Inside, AnswersInv, InsideIsQuiet, OneInside
  <2>5. InsideIsQuiet'
    <3>1. ASSUME NEW u \in Threads, Inside(u)'
          PROVE  u # t /\ Inside(u) /\ arg'[u] = arg[u] /\ arg[u] \in Proposals
      BY <1>1, <1>3, <2>2, <3>1 DEF Inside
    <3>2. ASSUME NEW u \in Threads, Inside(u)' PROVE Quiet(arg[u])'
      BY <2>2, <2>4, <3>1, <3>2 DEF AnswersInv, InsideIsQuiet, Quiet
    <3>3. ASSUME NEW u \in Threads, Inside(u)'
          PROVE  /\ arg'[u] \notin pending'
                 /\ pc'[u] = "count_executed" => future'[arg'[u]] = "ok"
                 /\ pc'[u] = "count_rejected" => arg'[u] \in denied'
      BY <1>1, <2>2, <3>1, <3>3 DEF AnswersInv, InsideIsQuiet
    <3>4. QED
      BY <3>2, <3>3 DEF InsideIsQuiet, Inside
  <2>6. OthersAreQuiet'
    <3>1. \A q \in Proposals \ {p} : Quiet(q) => Quiet(q)'
      BY <2>2 DEF Quiet
    <3>2. ASSUME NEW q \in pending' PROVE Quiet(q)'
      <4>1. q \in Proposals /\ q \in pending /\ Quiet(q)
        BY <2>2, <3>2 DEF AnswersInv, OthersAreQuiet, IInv, TypeOK
      <4>2. CASE q = p
        BY <2>2, <2>4, <4>1, <4>2 DEF Quiet
      <4>3. CASE q # p
        BY <3>1, <4>1, <4>3
      <4>4. QED
        BY <4>2, <4>3
    <3>3. ASSUME NEW q \in Proposals, pstate'[q] = "UNCREATED" PROVE Quiet(q)'
      BY <1>2, <3>1, <3>3 DEF AnswersInv, OthersAreQuiet
    <3>4. QED
      BY <3>2, <3>3 DEF OthersAreQuiet, Quiet
  <2>7. ToldIsTrue'
    <3>1. ASSUME NEW q \in Proposals, q # p
          PROVE  /\ "executed" \in told'[q] => future'[q] = "ok"
                 /\ "rejected" \in told'[q] => q \in denied'
                 /\ \A b, c \in told'[q] \ {"pending"} : b = c
      BY <1>1, <2>2, <3>1 DEF AnswersInv, ToldIsTrue
    <3>2. /\ "executed" \in told'[p] => future'[p] = "ok"
          /\ "rejected" \in told'[p] => p \in denied'
      BY <1>1, <1>2, <2>1, <2>2 DEF AnswersInv, ToldIsTrue, Ends
    <3>3. \A b, c \in told'[p] \ {"pending"} : b = c
      BY <1>2, <2>2, <2>4 DEF AnswersInv, ToldIsTrue, Quiet
    <3>4. QED
      BY <1>2, <3>1, <3>2, <3>3 DEF ToldIsTrue
  <2>8. QED
    BY <2>3, <2>5, <2>6, <2>7 DEF AnswersInv
<1>6. QED
  BY <1>4, <1>5, ThreadTells DEF AnswersInv

LEMMA RequestKeepsAnswers ==
  ASSUME IInv, AnswersInv, NEW t \in Threads, NEW p \in Proposals, Request(t, p)
  PROVE  AnswersInv'
<1>1. /\ pc[t] = "idle" /\ UNCHANGED <<told, future, denied>>
      /\ \E s \in {"gate", "approve", "reject"} : pc' = [pc EXCEPT ![t] = s]
      /\ arg' = [arg EXCEPT ![t] = p]
  BY DEF Request, Propose, TakeToApprove, TakeToReject, TakePending, Goto,
         proposalVars, poolVars
<1>2. /\ \A u \in Threads \ {t} : pc'[u] = pc[u] /\ arg'[u] = arg[u]
      /\ pc'[t] \in {"gate", "approve", "reject"} /\ arg'[t] = p
  BY <1>1 DEF IInv, TypeOK
<1>3. /\ Quiet(p) /\ p \notin pending' /\ pending' \subseteq pending
      /\ \A u \in Threads : Inside(u) => arg[u] # p
      /\ \A q \in Proposals : pstate'[q] = "UNCREATED" => pstate[q] = "UNCREATED"
  <2>1. CASE Propose(t, p)
    <3>1. pstate[p] = "UNCREATED" /\ pending' = pending
          /\ pstate' = [pstate EXCEPT ![p] = "PROPOSED"]
      BY <2>1 DEF Propose, SetState
    <3>2. p \notin pending
      BY <3>1 DEF IInv, PendingIsUndecided, MayDecide
    <3>3. \A u \in Threads : Inside(u) => arg[u] # p
      BY <3>1 DEF IInv, HolderKnows, Inside
    <3>4. QED
      BY <3>1, <3>2, <3>3 DEF AnswersInv, OthersAreQuiet, IInv, TypeOK
  <2>2. CASE TakeToApprove(t, p) \/ TakeToReject(t, p)
    BY <2>2 DEF TakeToApprove, TakeToReject, TakePending, RemovePending,
                AnswersInv, OthersAreQuiet, InsideIsQuiet, proposalVars
  <2>3. QED
    BY <2>1, <2>2 DEF Request
<1>4. OneInside'
  BY <1>2, <1>3 DEF AnswersInv, OneInside, Inside
<1>5. InsideIsQuiet'
  BY <1>1, <1>2, <1>3 DEF AnswersInv, InsideIsQuiet, Inside, Quiet
<1>6. OthersAreQuiet' /\ ToldIsTrue'
  BY <1>1, <1>3 DEF AnswersInv, OthersAreQuiet, ToldIsTrue, Quiet
<1>7. QED
  BY <1>4, <1>5, <1>6 DEF AnswersInv

LEMMA AnswersStep ==
  ASSUME IInv, IInv', OutcomeIsSettled, AnswersInv, Next
  PROVE  AnswersInv'
<1>1. CASE UNCHANGED <<pc, arg, told, pending, denied, pstate>>
  <2>1. \A u \in Threads : pc[u] # "idle" => arg[u] \in Proposals
    BY BusyThread DEF IInv
  <2>2. QED
    BY <1>1, <2>1, OutcomeStays
    DEF AnswersInv, OneInside, InsideIsQuiet, OthersAreQuiet, ToldIsTrue,
        Inside, Quiet
<1>2. ASSUME NEW w \in Workers, WorkerStep(w)
      PROVE  UNCHANGED <<pc, arg, told, pending, denied, pstate>>
  BY <1>2 DEF WorkerStep, StartHandler, FinishHandler, proposalVars, threadVars
<1>3. QED
  BY <1>1, <1>2, ThreadKeepsAnswers, RequestKeepsAnswers
  DEF Next, WindowPasses, AgentMoves, proposalVars, threadVars

LEMMA HonestyFollows ==
  ASSUME IInv, OutcomeIsSettled, AnswersInv
  PROVE  HonestAnswers
<1> SUFFICES ASSUME NEW p \in Proposals
             PROVE  /\ "executed" \in told[p] => runs[p] = 1 /\ future[p] = "ok"
                    /\ "rejected" \in told[p] => runs[p] = 0 /\ approvedBy[p] = "none"
                    /\ Cardinality(told[p] \ {"pending"}) <= 1
  BY DEF HonestAnswers
<1>1. "executed" \in told[p] => runs[p] = 1 /\ future[p] = "ok"
  BY DEF AnswersInv, ToldIsTrue, OutcomeIsSettled
<1>2. "rejected" \in told[p] => runs[p] = 0 /\ approvedBy[p] = "none"
  BY DEF AnswersInv, ToldIsTrue, IInv, DecidedOnce, StartedIsGranted, Granted,
         TypeOK
<1>3. Cardinality(told[p] \ {"pending"}) <= 1
  <2>1. CASE told[p] \ {"pending"} = {}
    BY <2>1, FS_EmptySet
  <2>2. CASE told[p] \ {"pending"} # {}
    <3>1. PICK a : told[p] \ {"pending"} = {a}
      BY <2>2 DEF AnswersInv, ToldIsTrue
    <3>2. Cardinality({a}) = 1
      BY FS_Singleton
    <3>3. QED
      BY <3>1, <3>2
  <2>3. QED
    BY <2>1, <2>2
<1>4. QED
  BY <1>1, <1>2, <1>3

\* What a caller is told about its call is what happened to it, whatever races
\* with its threads, for any number of callers and workers: no timeout, lost
\* session or late write makes it hear two different endings.
THEOREM CallersHearTheTruth == Spec => []HonestAnswers
<1>1. Init => OutcomeIsSettled /\ AnswersInv
  BY DEF Init, OutcomeIsSettled, AnswersInv, OneInside, InsideIsQuiet,
         OthersAreQuiet, ToldIsTrue, Queued, Inside, Quiet
<1>2. IInv /\ IInv' /\ OutcomeIsSettled /\ AnswersInv /\ [Next]_vars
      => OutcomeIsSettled' /\ AnswersInv'
  <2>1. IInv /\ IInv' /\ OutcomeIsSettled /\ AnswersInv /\ Next
        => OutcomeIsSettled' /\ AnswersInv'
    BY OutcomeStep, AnswersStep
  <2>2. OutcomeIsSettled /\ AnswersInv /\ UNCHANGED vars
        => OutcomeIsSettled' /\ AnswersInv'
    BY DEF vars, proposalVars, poolVars, threadVars, OutcomeIsSettled,
           AnswersInv, OneInside, InsideIsQuiet, OthersAreQuiet, ToldIsTrue,
           Queued, Inside, Quiet
  <2>3. QED
    BY <2>1, <2>2
<1>3. IInv /\ OutcomeIsSettled /\ AnswersInv => HonestAnswers
  BY HonestyFollows
<1>4. QED
  BY <1>1, <1>2, <1>3, Inductive, PTL DEF Spec

=============================================================================
