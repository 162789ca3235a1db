---------------------------- MODULE SessionsProofs ----------------------------
(***************************************************************************)
(* What a message of the operator sets off, for any number of workers,     *)
(* messages and analyses: no session is lost or closed twice, a proposal   *)
(* reaches the executor that knows its tool, every message has its one     *)
(* answer, and a tool sees the image of the analysis that waits for it.    *)
(* Then the sessions of the chat, for any number of sockets and clients:   *)
(* the client map is bounded, the session a socket bound last stays its    *)
(* client's, and memory is a cache of the transcript without a gap.        *)
(***************************************************************************)
EXTENDS MCSessions, ChatSessions, SequenceTheorems, FiniteSetTheorems, TLAPS

-----------------------------------------------------------------------------
(***************************************************************************)
(* The session of the agent.  The state of the agent plays no part in it:  *)
(* what counts is that a handler which is about to close the session it    *)
(* found has held _session_lock since, so that no other has begun or       *)
(* closed one.                                                             *)
(***************************************************************************)

Ending == {"stopping", "checking", "unmonitoring", "closing"}

LockIsHeld ==
  \A w \in Workers :
    phase[w] \in Ending => locker = w /\ session # NoSession

Past == {closed[i] : i \in DOMAIN closed}

Books ==
  /\ Past \union ({session} \ {NoSession}) = 1..begun
  /\ Cardinality(Past) = Len(closed)
  /\ session \notin Past
  /\ labelled = session

AgentIInv == AgentTypeOK /\ LockIsHeld /\ Books

-----------------------------------------------------------------------------
(* Types *)

LEMMA SessionTypes ==
  ASSUME AgentTypeOK, NEW w \in Workers, BeginSession(w) \/ CloseSession(w),
         session # NoSession \/ BeginSession(w)
  PROVE  AgentTypeOK'
<1>1. closed' \in Seq(1..MaxSessions)
  <2>1. session # NoSession => session \in 1..MaxSessions
    BY SessionAssumption DEF AgentTypeOK, NoSession
  <2>2. session # NoSession => Append(closed, session) \in Seq(1..MaxSessions)
    BY <2>1 DEF AgentTypeOK
  <2>3. QED
    BY <2>2 DEF AgentTypeOK, BeginSession, CloseSession
<1>2. begun' \in 0..MaxSessions /\ {labelled', session'} \subseteq 0..MaxSessions
  BY SessionAssumption DEF AgentTypeOK, BeginSession, CloseSession, NoSession
<1>3. phase' \in [Workers -> Phases] /\ locker' \in Workers \union {NoWorker}
      /\ leaving' \subseteq Workers
  BY DEF AgentTypeOK, BeginSession, CloseSession, Goes, Phases, Caller
<1>4. QED
  BY <1>1, <1>2, <1>3 DEF AgentTypeOK, BeginSession, CloseSession

LEMMA AgentTypeStep ==
  ASSUME AgentTypeOK, LockIsHeld, AgentNext
  PROVE  AgentTypeOK'
<1> USE DEF AgentTypeOK, Goes, Phases, SameSession, AgentStateSet
<1>1. CASE Connect
  BY <1>1 DEF Connect
<1>2. ASSUME NEW w \in Workers, Call(w) PROVE AgentTypeOK'
  <2>1. CASE BeginSession(w)
    BY <2>1, SessionTypes
  <2>2. CASE CallEndSession(w) \/ CallShutdown(w) \/ CallGoIdle(w)
    BY <2>2 DEF CallEndSession, CallShutdown, CallGoIdle
  <2>3. CASE AcknowledgeError(w)
    BY <2>3 DEF AcknowledgeError, Transition
  <2>4. CASE CallAnalyze(w)
    BY <2>4 DEF CallAnalyze
  <2>5. QED
    BY <1>2, <2>1, <2>2, <2>3, <2>4 DEF Call
<1>3. ASSUME NEW w \in Workers, HandlerStep(w) PROVE AgentTypeOK'
  <2>1. CASE ReadMode(w) \/ StartLoop(w) \/ StopLoop(w) \/ CheckMode(w) \/ Halt(w)
             \/ EndAnalysis(w) \/ ChooseState(w)
    BY <2>1 DEF ReadMode, StartLoop, StopLoop, CheckMode, Halt, EndAnalysis,
                ChooseState
  <2>2. CASE StartTransition(w)
    BY <2>2 DEF StartTransition, Transition
  <2>3. CASE EnterEndSession(w)
    BY <2>3 DEF EnterEndSession, Caller
  <2>4. CASE LeaveMonitoring(w)
    BY <2>4 DEF LeaveMonitoring, Transition
  <2>5. CASE CloseSession(w)
    BY <2>5, SessionTypes DEF LockIsHeld, Ending, CloseSession
  <2>6. CASE PowerOff(w)
    BY <2>6 DEF PowerOff, Transition
  <2>7. CASE BecomeIdle(w)
    BY <2>7 DEF BecomeIdle, Transition
  <2>8. CASE BecomeAnalyzing(w)
    BY <2>8 DEF BecomeAnalyzing, Transition
  <2>9. CASE PutBack(w)
    BY <2>9 DEF PutBack, Transition
  <2>10. QED
    BY <1>3, <2>1, <2>2, <2>3, <2>4, <2>5, <2>6, <2>7, <2>8, <2>9
    DEF HandlerStep
<1>4. QED
  BY <1>1, <1>2, <1>3 DEF AgentNext

-----------------------------------------------------------------------------
(* The lock *)

\* Only three steps touch the lock, and two the session.
LEMMA QuietSteps ==
  ASSUME AgentTypeOK, NEW w \in Workers,
         \/ Call(w) /\ ~ BeginSession(w)
         \/ HandlerStep(w) /\ ~ EnterEndSession(w) /\ ~ LeaveMonitoring(w)
                           /\ ~ CloseSession(w)
  PROVE  /\ SameSession /\ locker' = locker
         /\ \A v \in Workers :
              phase'[v] \in Ending =>
                (v = w /\ phase[v] \in Ending) \/ phase'[v] = phase[v]
<1> USE DEF AgentTypeOK, Goes, Ending, Transition
<1>1. CASE Call(w) /\ ~ BeginSession(w)
  BY <1>1 DEF Call, CallEndSession, CallShutdown, CallGoIdle, AcknowledgeError,
              CallAnalyze
<1>2. CASE HandlerStep(w) /\ ~ EnterEndSession(w) /\ ~ LeaveMonitoring(w)
           /\ ~ CloseSession(w)
  <2>1. CASE ReadMode(w) \/ StartTransition(w) \/ StartLoop(w) \/ StopLoop(w)
             \/ CheckMode(w) \/ Halt(w)
    BY <2>1 DEF ReadMode, StartTransition, StartLoop, StopLoop, CheckMode, Halt
  <2>2. CASE PowerOff(w) \/ BecomeIdle(w)
    BY <2>2 DEF PowerOff, BecomeIdle
  <2>3. CASE BecomeAnalyzing(w) \/ EndAnalysis(w)
    BY <2>3 DEF BecomeAnalyzing, EndAnalysis
  <2>4. CASE ChooseState(w) \/ PutBack(w)
    BY <2>4 DEF ChooseState, PutBack
  <2>5. QED
    BY <1>2, <2>1, <2>2, <2>3, <2>4 DEF HandlerStep
<1>3. QED
  BY <1>1, <1>2

LEMMA LockStep ==
  ASSUME AgentTypeOK, LockIsHeld, AgentNext
  PROVE  LockIsHeld'
<1> USE DEF LockIsHeld
<1>1. CASE Connect
  BY <1>1 DEF Connect, SameSession
<1>2. ASSUME NEW w \in Workers, BeginSession(w) PROVE LockIsHeld'
  <2>1. \A v \in Workers : phase[v] \notin Ending
    BY <1>2, SessionAssumption DEF BeginSession
  <2>2. QED
    BY <1>2, <2>1 DEF BeginSession, Goes, AgentTypeOK, Ending
<1>3. ASSUME NEW w \in Workers, EnterEndSession(w) PROVE LockIsHeld'
  <2>1. \A v \in Workers : phase[v] \notin Ending
    BY <1>3, SessionAssumption DEF EnterEndSession
  <2>2. QED
    BY <1>3, <2>1 DEF EnterEndSession, Goes, AgentTypeOK, Ending, Caller, SameSession
<1>4. ASSUME NEW w \in Workers, LeaveMonitoring(w) \/ CloseSession(w)
      PROVE  LockIsHeld'
  <2>1. phase[w] \in Ending
    BY <1>4 DEF LeaveMonitoring, CloseSession, Transition, Goes, Ending
  <2>2. \A v \in Workers : v # w => phase[v] \notin Ending /\ phase'[v] = phase[v]
    BY <1>4, <2>1
    DEF LeaveMonitoring, CloseSession, Transition, Goes, AgentTypeOK
  <2>3. CASE CloseSession(w) \/ ~ CanTransition(mode, "IDLE")
    BY <1>4, <2>2, <2>3
    DEF LeaveMonitoring, CloseSession, Transition, Goes, AgentTypeOK, Ending,
        Caller
  <2>4. CASE LeaveMonitoring(w) /\ CanTransition(mode, "IDLE")
    BY <2>1, <2>2, <2>4 DEF LeaveMonitoring, SameSession
  <2>5. QED
    BY <1>4, <2>3, <2>4
<1>5. QED
  <2>1. ASSUME NEW w \in Workers,
               \/ Call(w) /\ ~ BeginSession(w)
               \/ HandlerStep(w) /\ ~ EnterEndSession(w) /\ ~ LeaveMonitoring(w)
                                 /\ ~ CloseSession(w)
        PROVE  LockIsHeld'
    BY <2>1, QuietSteps DEF SameSession
  <2>2. QED
    BY <1>1, <1>2, <1>3, <1>4, <2>1 DEF AgentNext

-----------------------------------------------------------------------------
(* The books *)

\* One more in the history, which was not there.
LEMMA HistoryGrows ==
  ASSUME AgentTypeOK, Books, session # NoSession,
         closed' = Append(closed, session)
  PROVE  Past' = Past \union {session} /\ Cardinality(Past') = Len(closed')
<1>1. closed \in Seq(1..MaxSessions) /\ Len(closed) \in Nat
  BY DEF AgentTypeOK
<1>2. Past' = Past \union {session}
  <2>1. Len(closed') = Len(closed) + 1
    BY <1>1
  <2>2. /\ \A i \in 1..Len(closed) : closed'[i] = closed[i]
        /\ closed'[Len(closed) + 1] = session
    BY <1>1
  <2>3. DOMAIN closed = 1..Len(closed) /\ DOMAIN closed' = 1..(Len(closed) + 1)
    BY <1>1, <2>1
  <2>4. QED
    BY <1>1, <2>2, <2>3 DEF Past
<1>3. IsFiniteSet(Past)
  <2>1. Past \subseteq 1..begun /\ begun \in Int /\ 1 \in Int
    BY DEF Books, AgentTypeOK
  <2>2. QED
    BY <2>1, FS_Interval, FS_Subset
<1>4. Cardinality(Past \union {session}) = Cardinality(Past) + 1
  BY <1>3, FS_AddElement DEF Books
<1>5. QED
  BY <1>1, <1>2, <1>4 DEF Books

LEMMA BooksStep ==
  ASSUME AgentTypeOK, LockIsHeld, Books, AgentNext
  PROVE  Books'
<1>1. ASSUME NEW w \in Workers, BeginSession(w) PROVE Books'
  <2>1. begun \in Nat /\ begun' = begun + 1 /\ session' = begun + 1
        /\ labelled' = begun + 1
    BY <1>1 DEF BeginSession, AgentTypeOK
  <2>2. Past' = Past \union ({session} \ {NoSession})
        /\ Cardinality(Past') = Len(closed')
    <3>1. CASE session = NoSession
      BY <1>1, <3>1 DEF BeginSession, Past, Books
    <3>2. CASE session # NoSession
      BY <1>1, <3>2, HistoryGrows DEF BeginSession
    <3>3. QED
      BY <3>1, <3>2
  <2>3. Past' = 1..begun
    BY <2>2 DEF Books
  <2>4. QED
    BY <2>1, <2>2, <2>3 DEF Books, NoSession
<1>2. ASSUME NEW w \in Workers, CloseSession(w) PROVE Books'
  <2>1. session # NoSession
    BY <1>2 DEF LockIsHeld, CloseSession, Goes, Ending
  <2>2. Past' = Past \union {session} /\ Cardinality(Past') = Len(closed')
    BY <1>2, <2>1, HistoryGrows DEF CloseSession
  <2>3. NoSession \notin 1..begun
    BY DEF NoSession, AgentTypeOK
  <2>4. QED
    BY <1>2, <2>1, <2>2, <2>3 DEF Books, CloseSession
<1>3. CASE SameSession
  BY <1>3 DEF SameSession, Books, Past
<1>4. QED
  <2>1. SameSession \/ \E w \in Workers : BeginSession(w) \/ CloseSession(w)
    BY QuietSteps DEF AgentNext, Connect, EnterEndSession, LeaveMonitoring
  <2>2. QED
    BY <2>1, <1>1, <1>2, <1>3

-----------------------------------------------------------------------------
LEMMA AgentInitial == AgentInit => AgentIInv
<1> SUFFICES ASSUME AgentInit PROVE AgentIInv
  OBVIOUS
<1>1. AgentTypeOK
  <2>1. closed \in Seq(1..MaxSessions)
    BY DEF AgentInit
  <2>2. {labelled, session} \subseteq 0..MaxSessions /\ begun \in 0..MaxSessions
    BY SessionAssumption DEF AgentInit, NoSession
  <2>3. phase \in [Workers -> Phases] /\ before \in [Workers -> AgentStateSet]
    BY DEF AgentInit, Phases, AgentStateSet
  <2>4. QED
    BY <2>1, <2>2, <2>3 DEF AgentInit, AgentTypeOK, AgentStateSet
<1>2. LockIsHeld
  BY DEF AgentInit, LockIsHeld, Ending
<1>3. Past = {} /\ 1..begun = {} /\ Len(closed) = 0
  BY DEF AgentInit, Past
<1>4. Books
  BY <1>3, FS_EmptySet DEF AgentInit, Books
<1>5. QED
  BY <1>1, <1>2, <1>4 DEF AgentIInv

LEMMA AgentStepKeeps == AgentIInv /\ [AgentNext]_agentVars => AgentIInv'
<1>1. AgentIInv /\ AgentNext => AgentIInv'
  BY AgentTypeStep, LockStep, BooksStep DEF AgentIInv
<1>2. AgentIInv /\ UNCHANGED agentVars => AgentIInv'
  BY DEF AgentIInv, agentVars, AgentTypeOK, LockIsHeld, Books, Past
<1>3. QED
  BY <1>1, <1>2

\* The inductive invariant: a handler that closes a session holds the lock and
\* the session is still there (_session_lock in end_session).
THEOREM AgentInductive == AgentSpec => []AgentIInv
  BY AgentInitial, AgentStepKeeps, PTL DEF AgentSpec

\* Every variable of the handlers keeps its type.
THEOREM AgentTypeCorrect == AgentSpec => []AgentTypeOK
<1>1. AgentIInv => AgentTypeOK
  BY DEF AgentIInv
<1>2. QED
  BY <1>1, AgentInductive, PTL

\* No session is lost and none is closed twice, however starts, ends and
\* shutdowns overlap.
THEOREM EverySessionIsKept == AgentSpec => []SessionBooks
<1>1. AgentIInv => SessionBooks
  BY DEF AgentIInv, Books, SessionBooks, Past
<1>2. QED
  BY <1>1, AgentInductive, PTL

-----------------------------------------------------------------------------
(***************************************************************************)
(* The way of a message through MCPManager.  What brings a proposal to the *)
(* executor that knows its tool is not in one place: the domain was        *)
(* resolved only if the PCB domain is loaded, the interpreter that         *)
(* proposes names its own domain, and neither domain nor tool is touched   *)
(* once the proposal has been given to an executor.                        *)
(***************************************************************************)

EarlyStages == {"new", "routing", "interpreting", "falling back", "submitting"}

(* A message resolved to PCB found the PCB domain loaded.                   *)
ResolvedIsLoaded == \A m \in Messages : domain[m] = "pcb" => loaded

(* What is about to be submitted is a tool of the domain it goes to.        *)
ProposalFits ==
  \A m \in Messages : stage[m] = "submitting" =>
    domain[m] \in Domains /\ tool[m] \in Tools[domain[m]]

(* A proposal that was given to an executor is past the interpreters.       *)
GivenIsLate ==
  \A m \in Messages : given[m] # NoDomain => stage[m] \notin EarlyStages

TurnIInv ==
  TurnTypeOK /\ ResolvedIsLoaded /\ ProposalFits /\ GivenIsLate /\ RightExecutor

-----------------------------------------------------------------------------
LEMMA DomainNames ==
  /\ "pcb" \in Domains /\ "general" \in Domains
  /\ NoDomain \notin Domains
  BY TurnAssumption DEF Domains

LEMMA ToolsAreNamed ==
  ASSUME NEW d \in Domains
  PROVE  Tools[d] \subseteq ToolNames
  BY DEF Domains, Tools, ToolNames

\* The initial states satisfy the invariant.
LEMMA TurnInitInv == TurnInit => TurnIInv
<1> SUFFICES ASSUME TurnInit PROVE TurnIInv
  OBVIOUS
<1>1. TurnTypeOK
  BY TurnAssumption DEF TurnInit, TurnTypeOK, Channels, Stages, Outcomes
<1>2. ResolvedIsLoaded /\ ProposalFits /\ GivenIsLate /\ RightExecutor
  BY TurnAssumption DEF TurnInit, ResolvedIsLoaded, ProposalFits, GivenIsLate,
       RightExecutor, Domains
<1>3. QED
  BY <1>1, <1>2 DEF TurnIInv

\* A step that leaves domains, tools, gifts and parked proposals alone.
LEMMA PassingOn ==
  ASSUME TurnIInv, NEW m \in Messages,
         NEW to \in Stages \ {"submitting"},
         stage' = [stage EXCEPT ![m] = to],
         to \in EarlyStages => stage[m] \in EarlyStages,
         UNCHANGED <<loaded, domain, tool, given, pending>>
  PROVE  (ResolvedIsLoaded /\ ProposalFits /\ GivenIsLate /\ RightExecutor)'
<1>1. stage \in [Messages -> Stages]
  BY DEF TurnIInv, TurnTypeOK
<1>2. ResolvedIsLoaded' /\ RightExecutor'
  BY DEF TurnIInv, ResolvedIsLoaded, RightExecutor
<1>3. ProposalFits'
  BY <1>1 DEF TurnIInv, ProposalFits
<1>4. GivenIsLate'
  BY <1>1 DEF TurnIInv, GivenIsLate
<1>5. QED
  BY <1>2, <1>3, <1>4

-----------------------------------------------------------------------------
(* Types                                                                    *)

LEMMA WriteType ==
  ASSUME TurnTypeOK, NEW m \in Messages, NEW kind \in Kinds, Write(m, kind)
  PROVE  transcript' \in Seq([about : Messages, kind : Kinds])
  BY DEF TurnTypeOK, Write

LEMMA TripleType == \A d : Triple(d) \in Domains
  BY DEF Triple, Domains

LEMMA RequestType ==
  ASSUME TurnTypeOK, NEW m \in Messages, NEW c \in Channels, Receive(m, c)
  PROVE  TurnTypeOK'
<1>1. transcript' \in Seq([about : Messages, kind : Kinds])
  BY WriteType DEF Receive, Kinds, TurnTypeOK
<1>2. QED
  BY <1>1 DEF TurnTypeOK, Receive, Passes, Stages, Channels

LEMMA InterpretType ==
  ASSUME TurnTypeOK, NEW m \in Messages, NEW v \in Verdicts,
         InterpretPcb(m, v) \/ InterpretGeneral(m, v)
  PROVE  TurnTypeOK'
<1>1. v.tool \in ToolNames \union {NoTool}
  BY DEF Verdicts
<1>2. Renamed(v.tool) \in Tools["general"] => Renamed(v.tool) \in ToolNames
  BY DEF Tools, ToolNames, Domains
<1>3. "general" \in Domains
  BY DEF Domains
<1>4. {Proposed(m), NoProposal(m), "falling back"} \subseteq Stages
  BY DEF Proposed, NoProposal, Stages, Chats
<1>5. CASE InterpretPcb(m, v)
  BY <1>1, <1>4, <1>5 DEF InterpretPcb, TurnTypeOK, Passes
<1>6. CASE InterpretGeneral(m, v)
  BY <1>2, <1>3, <1>4, <1>6 DEF InterpretGeneral, TurnTypeOK, Passes
<1>7. QED
  BY <1>5, <1>6

LEMMA SubmitType ==
  ASSUME TurnTypeOK, NEW m \in Messages, NEW o \in Outcomes, Submit(m, o)
  PROVE  TurnTypeOK'
<1> DEFINE d == Triple(domain[m])
<1>1. d \in Domains
  BY TripleType
<1>2. Submitted(m) \in Stages
  BY DEF Submitted, Stages
<1>3. pending' \in [Domains -> SUBSET Messages]
  BY <1>1 DEF Submit, TurnTypeOK
<1>4. QED
  BY <1>1, <1>2, <1>3 DEF Submit, TurnTypeOK, Passes

LEMMA AnswerType ==
  ASSUME TurnTypeOK, NEW m \in Messages,
         Converse(m) \/ Respond(m) \/ FollowUp(m) \/ ReportError(m)
  PROVE  TurnTypeOK'
<1>1. transcript' \in Seq([about : Messages, kind : Kinds])
  BY WriteType DEF Converse, Respond, FollowUp, ReportError, Kinds
<1>2. stage' \in [Messages -> Stages]
  BY DEF TurnTypeOK, Converse, Respond, FollowUp, ReportError, Passes, Stages
<1>3. QED
  BY <1>1, <1>2 DEF TurnTypeOK, Converse, Respond, FollowUp, ReportError

LEMMA DecisionType ==
  ASSUME TurnTypeOK, NEW m \in Messages, NEW h, NEW s \in BOOLEAN,
         Decide(m, h, s) \/ DecideNothing(m, h, s)
  PROVE  TurnTypeOK'
<1>1. transcript' \in Seq([about : Messages, kind : Kinds])
  BY WriteType DEF Decide, DecideNothing, Kinds, TurnTypeOK
<1>2. decisions' \in 0..MaxDecisions
  BY TurnAssumption DEF Decide, DecideNothing, TurnTypeOK
<1>3. pending' \in [Domains -> SUBSET Messages]
  BY DEF Decide, DecideNothing, TurnTypeOK
<1>4. QED
  BY <1>1, <1>2, <1>3 DEF TurnTypeOK, Decide, DecideNothing

LEMMA TurnTypeStep == TurnTypeOK /\ [TurnNext]_turnVars => TurnTypeOK'
<1> SUFFICES ASSUME TurnTypeOK, [TurnNext]_turnVars PROVE TurnTypeOK'
  OBVIOUS
<1>1. CASE UNCHANGED turnVars
  BY <1>1 DEF turnVars, TurnTypeOK
<1>2. CASE TurnNext
  <2>1. PICK m \in Messages :
          \/ TurnStep(m)
          \/ \E c \in Channels : Receive(m, c)
          \/ \E h \in Domains \union {NoDomain}, s \in BOOLEAN :
               Decide(m, h, s) \/ DecideNothing(m, h, s)
    BY <1>2 DEF TurnNext
  <2>2. CASE \E d \in Domains : Route(m, d)
    <3>1. PICK d \in Domains : Route(m, d)
      BY <2>2
    <3>2. Triple(d) \in Domains
      BY <3>1, TripleType
    <3>3. QED
      BY <3>1, <3>2 DEF TurnTypeOK, Route, Passes, Stages
  <2>3. CASE \E v \in Verdicts : InterpretPcb(m, v) \/ InterpretGeneral(m, v)
    BY <2>3, InterpretType
  <2>4. CASE InterpreterRaises(m)
    BY <2>4 DEF TurnTypeOK, InterpreterRaises, Passes, Stages
  <2>5. CASE \E o \in Outcomes : Submit(m, o)
    BY <2>5, SubmitType
  <2>6. CASE Converse(m) \/ Respond(m) \/ FollowUp(m) \/ ReportError(m)
    BY <2>6, AnswerType
  <2>7. CASE \E c \in Channels : Receive(m, c)
    BY <2>7, RequestType
  <2>8. CASE \E h \in Domains \union {NoDomain}, s \in BOOLEAN :
               Decide(m, h, s) \/ DecideNothing(m, h, s)
    BY <2>8, DecisionType
  <2>9. QED
    BY <2>1, <2>2, <2>3, <2>4, <2>5, <2>6, <2>7, <2>8 DEF TurnStep
<1>3. QED
  BY <1>1, <1>2

-----------------------------------------------------------------------------
(* The invariant, action by action                                          *)

\* An interpreter proposes a tool of its own domain or passes the message on.
LEMMA InterpretKeeps ==
  ASSUME TurnIInv, NEW m \in Messages, NEW v \in Verdicts,
         InterpretPcb(m, v) \/ InterpretGeneral(m, v)
  PROVE  (ResolvedIsLoaded /\ ProposalFits /\ GivenIsLate /\ RightExecutor)'
<1>1. /\ stage \in [Messages -> Stages] /\ tool \in [Messages -> ToolNames \union {NoTool}]
      /\ domain \in [Messages -> Domains \union {NoDomain}]
  BY DEF TurnIInv, TurnTypeOK
<1>2. stage[m] \in EarlyStages /\ given[m] = NoDomain
  BY DEF InterpretPcb, InterpretGeneral, Passes, EarlyStages, TurnIInv,
         GivenIsLate
<1>3. PICK to \in {"falling back", Proposed(m), NoProposal(m)} :
        stage' = [stage EXCEPT ![m] = to]
  BY DEF InterpretPcb, InterpretGeneral, Passes
<1>4. UNCHANGED <<loaded, given, pending>>
  BY DEF InterpretPcb, InterpretGeneral
<1>5. /\ \A n \in Messages \ {m} : /\ domain'[n] = domain[n]
                                  /\ tool'[n] = tool[n]
                                  /\ stage'[n] = stage[n]
      /\ domain'[m] \in {domain[m], "general"}
  BY <1>1, <1>3 DEF InterpretPcb, InterpretGeneral
<1>6. ResolvedIsLoaded'
  BY <1>4, <1>5 DEF TurnIInv, ResolvedIsLoaded
<1>7. ProposalFits'
  <2>1. SUFFICES ASSUME stage'[m] = "submitting"
                 PROVE  domain'[m] \in Domains /\ tool'[m] \in Tools[domain'[m]]
    BY <1>4, <1>5 DEF TurnIInv, ProposalFits
  <2>2. CASE InterpretPcb(m, v)
    <3>1. tool' = [tool EXCEPT ![m] = v.tool] /\ v.tool \in Tools["pcb"]
      BY <1>1, <2>1, <2>2 DEF InterpretPcb, Passes
    <3>2. domain' = domain /\ domain[m] = "pcb"
      BY <2>2 DEF InterpretPcb
    <3>3. QED
      BY <1>1, <3>1, <3>2, DomainNames
  <2>3. CASE InterpretGeneral(m, v)
    <3>1. /\ tool' = [tool EXCEPT ![m] = Renamed(v.tool)]
          /\ domain' = [domain EXCEPT ![m] = "general"]
          /\ Renamed(v.tool) \in Tools["general"]
      BY <1>1, <2>1, <2>3 DEF InterpretGeneral, Passes, NoProposal
    <3>2. QED
      BY <1>1, <3>1, DomainNames
  <2>4. QED
    BY <2>2, <2>3
<1>8. GivenIsLate'
  BY <1>2, <1>4, <1>5 DEF TurnIInv, GivenIsLate
<1>9. RightExecutor'
  <2>1. SUFFICES ASSUME NEW n \in Messages
                 PROVE  /\ given'[n] # NoDomain => tool'[n] \in Tools[given'[n]]
                        /\ \A d \in Domains : n \in pending'[d] => d = given'[n]
    BY DEF RightExecutor
  <2>2. CASE n = m
    BY <1>2, <1>4, <2>2 DEF TurnIInv, RightExecutor
  <2>3. CASE n # m
    BY <1>4, <1>5, <2>3 DEF TurnIInv, RightExecutor
  <2>4. QED
    BY <2>2, <2>3
<1>10. QED
  BY <1>6, <1>7, <1>8, <1>9

\* The proposal goes to the domain it names: that one is loaded.
LEMMA SubmitKeeps ==
  ASSUME TurnIInv, NEW m \in Messages, NEW o \in Outcomes, Submit(m, o)
  PROVE  (ResolvedIsLoaded /\ ProposalFits /\ GivenIsLate /\ RightExecutor)'
<1> DEFINE d == Triple(domain[m])
<1>1. /\ stage \in [Messages -> Stages]
      /\ given \in [Messages -> Domains \union {NoDomain}]
      /\ pending \in [Domains -> SUBSET Messages]
  BY DEF TurnIInv, TurnTypeOK
<1>2. stage[m] = "submitting" /\ domain[m] \in Domains /\ tool[m] \in Tools[domain[m]]
  BY DEF Submit, Passes, TurnIInv, ProposalFits
<1>3. d = domain[m]
  BY <1>2 DEF Triple, Domains, TurnIInv, ResolvedIsLoaded
<1>4. given[m] = NoDomain
  BY <1>2 DEF TurnIInv, GivenIsLate, EarlyStages
<1>5. /\ UNCHANGED <<loaded, domain, tool>>
      /\ given' = [given EXCEPT ![m] = d]
      /\ stage' = [stage EXCEPT ![m] = Submitted(m)]
      /\ Submitted(m) \in {"answering", "done"}
  BY DEF Submit, Passes, Submitted
<1>6. ResolvedIsLoaded'
  BY <1>5 DEF TurnIInv, ResolvedIsLoaded
<1>7. ProposalFits'
  BY <1>1, <1>5 DEF TurnIInv, ProposalFits
<1>8. GivenIsLate'
  BY <1>1, <1>5 DEF TurnIInv, GivenIsLate, EarlyStages
<1>9. \A e \in Domains : pending'[e] \subseteq pending[e] \union (IF e = d THEN {m} ELSE {})
  BY <1>1 DEF Submit
<1>10. RightExecutor'
  <2>1. SUFFICES ASSUME NEW n \in Messages
                 PROVE  /\ given'[n] # NoDomain => tool'[n] \in Tools[given'[n]]
                        /\ \A e \in Domains : n \in pending'[e] => e = given'[n]
    BY DEF RightExecutor
  <2>2. CASE n = m
    <3>1. given'[m] = d
      BY <1>1, <1>5
    <3>2. \A e \in Domains : m \notin pending[e]
      BY <1>4, DomainNames DEF TurnIInv, RightExecutor
    <3>3. QED
      BY <1>2, <1>3, <1>5, <1>9, <2>2, <3>1, <3>2
  <2>3. CASE n # m
    <3>1. given'[n] = given[n]
      BY <1>1, <1>5, <2>3
    <3>2. QED
      BY <1>5, <1>9, <2>3, <3>1 DEF TurnIInv, RightExecutor
  <2>4. QED
    BY <2>2, <2>3
<1>11. QED
  BY <1>6, <1>7, <1>8, <1>10

\* A decision only takes proposals away.
LEMMA DecisionKeeps ==
  ASSUME TurnIInv, NEW m \in Messages, NEW h, NEW s \in BOOLEAN,
         Decide(m, h, s) \/ DecideNothing(m, h, s)
  PROVE  (ResolvedIsLoaded /\ ProposalFits /\ GivenIsLate /\ RightExecutor)'
<1>1. UNCHANGED <<loaded, stage, domain, tool, given>>
  BY DEF Decide, DecideNothing
<1>2. \A d \in Domains : pending'[d] \subseteq pending[d]
  BY DEF Decide, DecideNothing
<1>3. QED
  BY <1>1, <1>2 DEF TurnIInv, ResolvedIsLoaded, ProposalFits, GivenIsLate,
                    RightExecutor

LEMMA RouteKeeps ==
  ASSUME TurnIInv, NEW m \in Messages, NEW d \in Domains, Route(m, d)
  PROVE  (ResolvedIsLoaded /\ ProposalFits /\ GivenIsLate /\ RightExecutor)'
<1>1. /\ stage \in [Messages -> Stages]
      /\ domain \in [Messages -> Domains \union {NoDomain}]
  BY DEF TurnIInv, TurnTypeOK
<1>2. /\ UNCHANGED <<loaded, tool, given, pending>>
      /\ stage[m] = "routing" /\ stage' = [stage EXCEPT ![m] = "interpreting"]
      /\ domain' = [domain EXCEPT ![m] = Triple(d)]
  BY DEF Route, Passes
<1>3. ResolvedIsLoaded'
  BY <1>1, <1>2 DEF TurnIInv, ResolvedIsLoaded, Triple
<1>4. ProposalFits'
  BY <1>1, <1>2 DEF TurnIInv, ProposalFits
<1>5. GivenIsLate' /\ RightExecutor'
  BY <1>1, <1>2 DEF TurnIInv, GivenIsLate, RightExecutor, EarlyStages
<1>6. QED
  BY <1>3, <1>4, <1>5

LEMMA TurnInvStep == TurnIInv /\ [TurnNext]_turnVars => TurnIInv'
<1> SUFFICES ASSUME TurnIInv, [TurnNext]_turnVars PROVE TurnIInv'
  OBVIOUS
<1> DEFINE Kept == ResolvedIsLoaded /\ ProposalFits /\ GivenIsLate /\ RightExecutor
<1>1. TurnTypeOK'
  BY TurnTypeStep DEF TurnIInv
<1>2. Kept'
  <2>1. CASE UNCHANGED turnVars
    BY <2>1 DEF turnVars, TurnIInv, ResolvedIsLoaded, ProposalFits,
                GivenIsLate, RightExecutor
  <2>2. CASE TurnNext
    <3>1. PICK m \in Messages :
            \/ TurnStep(m)
            \/ \E c \in Channels : Receive(m, c)
            \/ \E h \in Domains \union {NoDomain}, s \in BOOLEAN :
                 Decide(m, h, s) \/ DecideNothing(m, h, s)
      BY <2>2 DEF TurnNext
    <3>2. CASE \E d \in Domains : Route(m, d)
      BY <3>2, RouteKeeps
    <3>3. CASE \E v \in Verdicts : InterpretPcb(m, v) \/ InterpretGeneral(m, v)
      BY <3>3, InterpretKeeps
    <3>4. CASE InterpreterRaises(m)
      BY <3>4, PassingOn DEF InterpreterRaises, Passes, Stages, EarlyStages
    <3>5. CASE \E o \in Outcomes : Submit(m, o)
      BY <3>5, SubmitKeeps
    <3>6. CASE Converse(m) \/ Respond(m) \/ FollowUp(m) \/ ReportError(m)
      <4>1. PICK to \in {"following", "done"} : stage' = [stage EXCEPT ![m] = to]
        BY <3>6 DEF Converse, Respond, FollowUp, ReportError, Passes
      <4>2. to \in Stages \ {"submitting"} /\ to \notin EarlyStages
        BY DEF Stages, EarlyStages
      <4>3. UNCHANGED <<loaded, domain, tool, given, pending>>
        BY <3>6 DEF Converse, Respond, FollowUp, ReportError
      <4>4. QED
        BY <4>1, <4>2, <4>3, PassingOn
    <3>7. CASE \E c \in Channels : Receive(m, c)
      BY <3>7, PassingOn DEF Receive, Passes, Stages, EarlyStages
    <3>8. CASE \E h \in Domains \union {NoDomain}, s \in BOOLEAN :
                 Decide(m, h, s) \/ DecideNothing(m, h, s)
      BY <3>8, DecisionKeeps
    <3>9. QED
      BY <3>1, <3>2, <3>3, <3>4, <3>5, <3>6, <3>7, <3>8 DEF TurnStep
  <2>3. QED
    BY <2>1, <2>2
<1>3. QED
  BY <1>1, <1>2 DEF TurnIInv

-----------------------------------------------------------------------------
\* The invariant holds throughout.
THEOREM TurnInductive == TurnSpec => []TurnIInv
  BY TurnInitInv, TurnInvStep, PTL DEF TurnSpec

\* The types hold throughout.
THEOREM TurnTypeCorrect == TurnSpec => []TurnTypeOK
<1>1. TurnIInv => TurnTypeOK
  BY DEF TurnIInv
<1>2. QED
  BY <1>1, TurnInductive, PTL

\* For any number of messages whose verdicts disagree in any way, a proposal
\* is given to, and waits at, the executor that knows its tool.
THEOREM ProposalReachesItsExecutor == TurnSpec => []RightExecutor
<1>1. TurnIInv => RightExecutor
  BY DEF TurnIInv
<1>2. QED
  BY <1>1, TurnInductive, PTL

-----------------------------------------------------------------------------
(* The transcript                                                           *)

Entries(m, kind) ==
  {i \in DOMAIN transcript :
     transcript[i].about = m /\ transcript[i].kind = kind}

LEMMA WriteAppends ==
  ASSUME TurnTypeOK, NEW n \in Messages, NEW k \in Kinds, Write(n, k)
  PROVE  LET last == Len(transcript) + 1
         IN  /\ Len(transcript) \in Nat /\ DOMAIN transcript = 1..Len(transcript)
             /\ DOMAIN transcript' = 1..last
             /\ \A i \in 1..Len(transcript) : transcript'[i] = transcript[i]
             /\ transcript'[last] = [about |-> n, kind |-> k]
<1>1. /\ transcript \in Seq([about : Messages, kind : Kinds])
      /\ transcript' = Append(transcript, [about |-> n, kind |-> k])
  BY DEF TurnTypeOK, Write
<1>2. [about |-> n, kind |-> k] \in [about : Messages, kind : Kinds]
  OBVIOUS
<1>3. QED
  BY <1>1, <1>2, AppendProperties, LenProperties

\* One entry more, of one message and one kind.
LEMMA WriteCounts ==
  ASSUME TurnTypeOK, NEW n \in Messages, NEW k \in Kinds, Write(n, k)
  PROVE  \A m \in Messages, kind \in Kinds :
           /\ Written(m, kind) \in Nat
           /\ Written(m, kind)' = IF m = n /\ kind = k THEN Written(m, kind) + 1
                                                       ELSE Written(m, kind)
<1> DEFINE last == Len(transcript) + 1
<1>1. /\ Len(transcript) \in Nat /\ DOMAIN transcript = 1..Len(transcript)
      /\ DOMAIN transcript' = 1..last
      /\ \A i \in 1..Len(transcript) : transcript'[i] = transcript[i]
      /\ transcript'[last] = [about |-> n, kind |-> k]
  BY WriteAppends
<1>2. TAKE m \in Messages, kind \in Kinds
<1>3. IsFiniteSet(Entries(m, kind)) /\ Written(m, kind) \in Nat
  <2>1. Entries(m, kind) \subseteq 1..Len(transcript)
    BY <1>1 DEF Entries
  <2>2. IsFiniteSet(Entries(m, kind))
    <3>1. IsFiniteSet(1..Len(transcript))
      BY <1>1, FS_Interval
    <3>2. QED
      BY <2>1, <3>1, FS_Subset
  <2>3. QED
    BY <2>2, FS_CardinalityType DEF Entries, Written
<1>4. last \notin Entries(m, kind)
  BY <1>1 DEF Entries
<1>5. CASE m = n /\ kind = k
  <2>1. Entries(m, kind)' = Entries(m, kind) \union {last}
    BY <1>1, <1>5 DEF Entries
  <2>2. Cardinality(Entries(m, kind)') = Cardinality(Entries(m, kind)) + 1
    BY <1>3, <1>4, <2>1, FS_AddElement
  <2>3. QED
    BY <1>3, <1>5, <2>2 DEF Entries, Written
<1>6. CASE ~ (m = n /\ kind = k)
  <2>1. Entries(m, kind)' = Entries(m, kind)
    BY <1>1, <1>6 DEF Entries
  <2>2. QED
    BY <1>3, <1>6, <2>1 DEF Entries, Written
<1>7. QED
  BY <1>3, <1>5, <1>6

Mentioned(m) == \E i \in DOMAIN transcript : transcript[i].about = m

\* The question first, the summary after the answer.
InOrder(m) ==
  \A i, j \in DOMAIN transcript :
     /\ transcript[i].about = m /\ transcript[j].about = m
     /\ transcript[i].kind = "question" \/
        (transcript[i].kind = "answer" /\ transcript[j].kind = "summary")
     => i <= j

\* What the transcript holds about a message is told by the stage it is in.
Told(m) ==
  /\ stage[m] = "new" => ~ Mentioned(m)
  /\ Written(m, "question") = IF Chats(m) /\ stage[m] # "new" THEN 1 ELSE 0
  /\ Written(m, "answer") =
       IF Chats(m) /\ stage[m] \in {"following", "done"} THEN 1 ELSE 0
  /\ Written(m, "summary") =
       IF Chats(m) /\ stage[m] = "done" /\ outcome[m] = "executed" THEN 1 ELSE 0
  /\ InOrder(m)

\* Only chat messages are answered here, and an outcome comes of a submission.
StageFits(m) ==
  /\ stage[m] \in {"conversing", "answering", "following", "failing"} => Chats(m)
  /\ stage[m] \in EarlyStages \union {"conversing", "failing"}
       => outcome[m] = "none"
  /\ stage[m] = "following" => outcome[m] = "executed"

StagesFit == \A m \in Messages : StageFits(m)

Chronicle == \A m \in Messages : Told(m)

\* An entry about another message tells nothing of this one.
LEMMA OthersUntold ==
  ASSUME TurnTypeOK, NEW n \in Messages, NEW m \in Messages \ {n},
         UNCHANGED transcript \/ \E k \in Kinds : Write(n, k),
         stage'[m] = stage[m], channel'[m] = channel[m], outcome'[m] = outcome[m],
         Told(m)
  PROVE  Told(m)'
<1>1. CASE UNCHANGED transcript
  BY <1>1 DEF Told, Mentioned, InOrder, Written, Chats
<1>2. ASSUME NEW k \in Kinds, Write(n, k) PROVE Told(m)'
  <2>1. \A kind \in Kinds : Written(m, kind)' = Written(m, kind)
    BY <1>2, WriteCounts
  <2>2. /\ Written(m, "question")' = Written(m, "question")
        /\ Written(m, "answer")' = Written(m, "answer")
        /\ Written(m, "summary")' = Written(m, "summary")
    BY <2>1 DEF Kinds
  <2>3. \A i \in DOMAIN transcript' :
          transcript'[i].about = m =>
            i \in DOMAIN transcript /\ transcript'[i] = transcript[i]
    <3>1. /\ Len(transcript) \in Nat /\ DOMAIN transcript = 1..Len(transcript)
          /\ DOMAIN transcript' = 1..Len(transcript) + 1
          /\ \A i \in 1..Len(transcript) : transcript'[i] = transcript[i]
          /\ transcript'[Len(transcript) + 1] = [about |-> n, kind |-> k]
      BY <1>2, WriteAppends
    <3>2. transcript'[Len(transcript) + 1].about # m
      BY <3>1
    <3>3. QED
      BY <3>1, <3>2
  <2>4. InOrder(m)'
    BY <2>3 DEF Told, InOrder
  <2>5. Mentioned(m)' => Mentioned(m)
    BY <2>3 DEF Mentioned
  <2>6. QED
    BY <2>2, <2>4, <2>5 DEF Told, Chats
<1>3. QED
  BY <1>1, <1>2

LEMMA NothingWritten ==
  ASSUME TurnTypeOK, NEW m \in Messages, NEW kind, Written(m, kind) = 0
  PROVE  \A i \in DOMAIN transcript :
           ~ (transcript[i].about = m /\ transcript[i].kind = kind)
<1>1. DOMAIN transcript = 1..Len(transcript) /\ Len(transcript) \in Nat
  BY LenProperties DEF TurnTypeOK
<1>2. Entries(m, kind) \subseteq 1..Len(transcript)
  BY <1>1 DEF Entries
<1>3. IsFiniteSet(Entries(m, kind))
  <2>1. IsFiniteSet(1..Len(transcript))
    BY <1>1, FS_Interval
  <2>2. QED
    BY <1>2, <2>1, FS_Subset
<1>4. Entries(m, kind) = {}
  BY <1>3, FS_EmptySet DEF Entries, Written
<1>5. QED
  BY <1>4 DEF Entries

LEMMA OwnEntryInOrder ==
  ASSUME TurnTypeOK, NEW m \in Messages, NEW k \in Kinds, Write(m, k), InOrder(m),
         k = "question" => ~ Mentioned(m),
         k = "answer" => Written(m, "summary") = 0
  PROVE  InOrder(m)'
<1> DEFINE last == Len(transcript) + 1
<1>1. /\ Len(transcript) \in Nat /\ DOMAIN transcript = 1..Len(transcript)
      /\ DOMAIN transcript' = 1..last
      /\ \A i \in 1..Len(transcript) : transcript'[i] = transcript[i]
      /\ transcript'[last] = [about |-> m, kind |-> k]
  BY WriteAppends
<1>2. transcript'[last].kind = k
  BY <1>1
<1> SUFFICES ASSUME NEW i \in 1..last, NEW j \in 1..last,
                    transcript'[i].about = m, transcript'[j].about = m,
                    transcript'[i].kind = "question" \/
                      (transcript'[i].kind = "answer" /\
                       transcript'[j].kind = "summary"),
                    j < i
             PROVE  FALSE
  BY <1>1 DEF InOrder
<1>3. j \in DOMAIN transcript /\ transcript'[j] = transcript[j]
  BY <1>1
<1>4. CASE i = last
  <2>1. CASE k = "question"
    BY <1>3, <2>1 DEF Mentioned
  <2>2. CASE k = "answer" /\ transcript[j].kind = "summary"
    BY <1>3, <2>2, NothingWritten
  <2>3. QED
    BY <1>2, <1>3, <1>4, <2>1, <2>2
<1>5. CASE i # last
  <2>1. i \in DOMAIN transcript /\ transcript'[i] = transcript[i]
    BY <1>1, <1>5
  <2>2. i <= j
    BY <1>3, <2>1 DEF InOrder
  <2>3. QED
    BY <1>1, <2>2
<1>6. QED
  BY <1>4, <1>5

\* A message that is new has no entry; one that is received as a chat has its
\* question.
LEMMA ReceiveTells ==
  ASSUME TurnTypeOK, StagesFit, NEW m \in Messages, NEW c \in Channels,
         Receive(m, c), Told(m)
  PROVE  Told(m)'
<1>1. /\ stage[m] = "new" /\ stage'[m] = "routing" /\ channel'[m] = c
      /\ outcome' = outcome
  BY DEF Receive, Passes, TurnTypeOK
<1>2. /\ ~ Mentioned(m) /\ InOrder(m) /\ Written(m, "question") = 0
      /\ Written(m, "answer") = 0 /\ Written(m, "summary") = 0
  BY <1>1 DEF Told
<1>3. CASE c = "chat"
  <2>1. Write(m, "question") /\ "question" \in Kinds
    BY <1>3 DEF Receive, Kinds
  <2>2. /\ Written(m, "question")' = 1 /\ Written(m, "answer")' = 0
        /\ Written(m, "summary")' = 0
    BY <1>2, <2>1, WriteCounts DEF Kinds
  <2>3. InOrder(m)'
    BY <1>2, <2>1, OwnEntryInOrder
  <2>4. QED
    BY <1>1, <1>3, <2>2, <2>3 DEF Told, Chats
<1>4. CASE c # "chat"
  <2>1. UNCHANGED transcript
    BY <1>4 DEF Receive
  <2>2. /\ Written(m, "question")' = 0 /\ Written(m, "answer")' = 0
        /\ Written(m, "summary")' = 0 /\ InOrder(m)'
    BY <1>2, <2>1 DEF Written, InOrder
  <2>3. QED
    BY <1>1, <1>4, <2>2 DEF Told, Chats
<1>5. QED
  BY <1>3, <1>4

\* Up to the submission nothing is written, and a chat message is not done.
LEMMA SilentStepTells ==
  ASSUME TurnTypeOK, NEW m \in Messages, Told(m),
         UNCHANGED <<transcript, channel>>,
         stage[m] \in EarlyStages \ {"new"}, stage'[m] # "new",
         stage'[m] \in {"following", "done"} => ~ Chats(m)
  PROVE  Told(m)'
  BY DEF Told, Written, Mentioned, InOrder, Chats, EarlyStages

LEMMA AnswerTells ==
  ASSUME TurnTypeOK, StagesFit, NEW m \in Messages, Told(m),
         Converse(m) \/ Respond(m) \/ ReportError(m)
  PROVE  Told(m)'
<1>1. /\ stage[m] \in {"conversing", "answering", "failing"}
      /\ Write(m, "answer") /\ "answer" \in Kinds
      /\ UNCHANGED <<channel, outcome>>
  BY DEF Converse, Respond, ReportError, Passes, Kinds
<1>2. Chats(m) /\ (stage[m] # "answering" => outcome[m] = "none")
  BY <1>1 DEF StagesFit, StageFits
<1>3. /\ stage'[m] \in {"following", "done"}
      /\ stage'[m] = "done" => outcome[m] # "executed"
  BY <1>2 DEF Converse, Respond, ReportError, Passes, TurnTypeOK
<1>4. /\ Written(m, "question") = 1 /\ Written(m, "answer") = 0
      /\ Written(m, "summary") = 0 /\ InOrder(m)
  BY <1>1, <1>2 DEF Told
<1>5. /\ Written(m, "question")' = 1 /\ Written(m, "answer")' = 1
      /\ Written(m, "summary")' = 0
  BY <1>1, <1>4, WriteCounts DEF Kinds
<1>6. InOrder(m)'
  BY <1>1, <1>4, OwnEntryInOrder
<1>7. QED
  BY <1>1, <1>2, <1>3, <1>5, <1>6 DEF Told, Chats

LEMMA FollowUpTells ==
  ASSUME TurnTypeOK, StagesFit, NEW m \in Messages, Told(m), FollowUp(m)
  PROVE  Told(m)'
<1>1. /\ stage[m] = "following" /\ stage'[m] = "done"
      /\ Write(m, "summary") /\ "summary" \in Kinds
      /\ UNCHANGED <<channel, outcome>>
  BY DEF FollowUp, Passes, Kinds, TurnTypeOK
<1>2. Chats(m) /\ outcome[m] = "executed"
  BY <1>1 DEF StagesFit, StageFits
<1>3. /\ Written(m, "question") = 1 /\ Written(m, "answer") = 1
      /\ Written(m, "summary") = 0 /\ InOrder(m)
  BY <1>1, <1>2 DEF Told
<1>4. /\ Written(m, "question")' = 1 /\ Written(m, "answer")' = 1
      /\ Written(m, "summary")' = 1
  BY <1>1, <1>3, WriteCounts DEF Kinds
<1>5. InOrder(m)'
  BY <1>1, <1>3, OwnEntryInOrder
<1>6. QED
  BY <1>1, <1>2, <1>4, <1>5 DEF Told, Chats

LEMMA DecisionTells ==
  ASSUME TurnIInv, NEW m \in Messages, NEW h, NEW spoken \in BOOLEAN, Told(m),
         Decide(m, h, spoken) \/ DecideNothing(m, h, spoken)
  PROVE  Told(m)'
<1>1. UNCHANGED <<stage, channel, outcome>>
  BY DEF Decide, DecideNothing
<1>2. given[m] # NoDomain
  BY DomainNames DEF Decide, DecideNothing, Asked, TurnIInv, RightExecutor
<1>3. stage[m] # "new"
  BY <1>2 DEF TurnIInv, GivenIsLate, EarlyStages
<1>4. CASE UNCHANGED transcript
  BY <1>1, <1>4 DEF Told, Written, Mentioned, InOrder, Chats
<1>5. CASE Write(m, "decision")
  <2>1. "decision" \in Kinds /\ TurnTypeOK
    BY DEF Kinds, TurnIInv
  <2>2. /\ Written(m, "question")' = Written(m, "question")
        /\ Written(m, "answer")' = Written(m, "answer")
        /\ Written(m, "summary")' = Written(m, "summary")
    BY <1>5, <2>1, WriteCounts DEF Kinds
  <2>3. InOrder(m)'
    BY <1>5, <2>1, OwnEntryInOrder DEF Told
  <2>4. QED
    BY <1>1, <1>3, <2>2, <2>3 DEF Told, Chats
<1>6. QED
  BY <1>4, <1>5 DEF Decide, DecideNothing

\* Every step is about one message, in whose name alone it may write.
LEMMA OneMessage ==
  ASSUME TurnTypeOK, TurnNext
  PROVE  \E m \in Messages :
           /\ \/ TurnStep(m)
              \/ \E c \in Channels : Receive(m, c)
              \/ \E h \in Domains \union {NoDomain}, s \in BOOLEAN :
                   Decide(m, h, s) \/ DecideNothing(m, h, s)
           /\ \A n \in Messages \ {m} :
                stage'[n] = stage[n] /\ channel'[n] = channel[n]
                /\ outcome'[n] = outcome[n]
           /\ UNCHANGED transcript \/ \E k \in Kinds : Write(m, k)
<1>1. PICK m \in Messages :
        \/ TurnStep(m)
        \/ \E c \in Channels : Receive(m, c)
        \/ \E h \in Domains \union {NoDomain}, s \in BOOLEAN :
             Decide(m, h, s) \/ DecideNothing(m, h, s)
  BY DEF TurnNext
<1> DEFINE Own == /\ \A n \in Messages \ {m} :
                       stage'[n] = stage[n] /\ channel'[n] = channel[n]
                       /\ outcome'[n] = outcome[n]
                  /\ UNCHANGED transcript \/ \E k \in Kinds : Write(m, k)
<1>2. Own
  <2> USE DEF TurnTypeOK, Passes, Kinds
  <2>1. ASSUME NEW d \in Domains, Route(m, d) PROVE Own
    BY <2>1 DEF Route
  <2>2. ASSUME NEW v \in Verdicts, InterpretPcb(m, v) PROVE Own
    BY <2>2 DEF InterpretPcb
  <2>3. ASSUME NEW v \in Verdicts, InterpretGeneral(m, v) PROVE Own
    BY <2>3 DEF InterpretGeneral
  <2>4. CASE InterpreterRaises(m)
    BY <2>4 DEF InterpreterRaises
  <2>5. ASSUME NEW o \in Outcomes, Submit(m, o) PROVE Own
    BY <2>5 DEF Submit
  <2>6. CASE Converse(m) \/ Respond(m) \/ FollowUp(m) \/ ReportError(m)
    BY <2>6 DEF Converse, Respond, FollowUp, ReportError
  <2>7. ASSUME NEW c \in Channels, Receive(m, c) PROVE Own
    BY <2>7 DEF Receive
  <2>8. ASSUME NEW h \in Domains \union {NoDomain}, NEW s \in BOOLEAN,
               Decide(m, h, s) \/ DecideNothing(m, h, s)
        PROVE  Own
    BY <2>8 DEF Decide, DecideNothing
  <2>9. QED
    BY <1>1, <2>1, <2>2, <2>3, <2>4, <2>5, <2>6, <2>7, <2>8 DEF TurnStep
<1>3. QED
  BY <1>1, <1>2

LEMMA OwnStageFits ==
  ASSUME TurnTypeOK, StagesFit, NEW m \in Messages,
         \/ TurnStep(m)
         \/ \E c \in Channels : Receive(m, c)
         \/ \E h \in Domains \union {NoDomain}, s \in BOOLEAN :
              Decide(m, h, s) \/ DecideNothing(m, h, s)
  PROVE  StageFits(m)'
<1> USE DEF TurnTypeOK, StagesFit, StageFits, Passes, EarlyStages, Chats
<1>1. ASSUME NEW d \in Domains, Route(m, d) PROVE StageFits(m)'
  BY <1>1 DEF Route
<1>2. ASSUME NEW v \in Verdicts, InterpretPcb(m, v) PROVE StageFits(m)'
  BY <1>2 DEF InterpretPcb, Proposed
<1>3. ASSUME NEW v \in Verdicts, InterpretGeneral(m, v) PROVE StageFits(m)'
  BY <1>3 DEF InterpretGeneral, Proposed, NoProposal
<1>4. CASE InterpreterRaises(m)
  BY <1>4 DEF InterpreterRaises
<1>5. ASSUME NEW o \in Outcomes, Submit(m, o) PROVE StageFits(m)'
  BY <1>5 DEF Submit, Submitted
<1>6. CASE Converse(m) \/ Respond(m) \/ FollowUp(m) \/ ReportError(m)
  BY <1>6 DEF Converse, Respond, FollowUp, ReportError
<1>7. ASSUME NEW c \in Channels, Receive(m, c) PROVE StageFits(m)'
  BY <1>7 DEF Receive
<1>8. ASSUME NEW h, NEW s, Decide(m, h, s) \/ DecideNothing(m, h, s)
      PROVE  StageFits(m)'
  BY <1>8 DEF Decide, DecideNothing
<1>9. QED
  BY <1>1, <1>2, <1>3, <1>4, <1>5, <1>6, <1>7, <1>8 DEF TurnStep

LEMMA OwnTold ==
  ASSUME TurnIInv, StagesFit, NEW m \in Messages, Told(m),
         \/ TurnStep(m)
         \/ \E c \in Channels : Receive(m, c)
         \/ \E h \in Domains \union {NoDomain}, s \in BOOLEAN :
              Decide(m, h, s) \/ DecideNothing(m, h, s)
  PROVE  Told(m)'
<1>1. TurnTypeOK /\ stage \in [Messages -> Stages]
  BY DEF TurnIInv, TurnTypeOK
<1>2. CASE \/ \E d \in Domains : Route(m, d)
           \/ \E v \in Verdicts : InterpretPcb(m, v) \/ InterpretGeneral(m, v)
           \/ InterpreterRaises(m)
           \/ \E o \in Outcomes : Submit(m, o)
  <2> DEFINE Silent == /\ UNCHANGED <<transcript, channel>>
                       /\ stage[m] \in EarlyStages \ {"new"} /\ stage'[m] # "new"
                       /\ stage'[m] \in {"following", "done"} => ~ Chats(m)
  <2>1. Silent
    <3> USE <1>1 DEF Passes, EarlyStages
    <3>1. ASSUME NEW d \in Domains, Route(m, d) PROVE Silent
      BY <3>1 DEF Route
    <3>2. ASSUME NEW v \in Verdicts, InterpretPcb(m, v) PROVE Silent
      BY <3>2 DEF InterpretPcb, Proposed, Chats
    <3>3. ASSUME NEW v \in Verdicts, InterpretGeneral(m, v) PROVE Silent
      BY <3>3 DEF InterpretGeneral, Proposed, NoProposal, Chats
    <3>4. CASE InterpreterRaises(m)
      BY <3>4 DEF InterpreterRaises
    <3>5. ASSUME NEW o \in Outcomes, Submit(m, o) PROVE Silent
      BY <3>5 DEF Submit, Submitted
    <3>6. QED
      BY <1>2, <3>1, <3>2, <3>3, <3>4, <3>5
  <2>2. QED
    BY <1>1, <2>1, SilentStepTells
<1>3. CASE Converse(m) \/ Respond(m) \/ ReportError(m)
  BY <1>1, <1>3, AnswerTells
<1>4. CASE FollowUp(m)
  BY <1>1, <1>4, FollowUpTells
<1>5. CASE \E c \in Channels : Receive(m, c)
  BY <1>1, <1>5, ReceiveTells
<1>6. CASE \E h \in Domains \union {NoDomain}, s \in BOOLEAN :
             Decide(m, h, s) \/ DecideNothing(m, h, s)
  BY <1>6, DecisionTells
<1>7. QED
  BY <1>2, <1>3, <1>4, <1>5, <1>6 DEF TurnStep

ChronicleIInv == TurnIInv /\ StagesFit /\ Chronicle

LEMMA ChronicleStep == ChronicleIInv /\ [TurnNext]_turnVars => ChronicleIInv'
<1> SUFFICES ASSUME ChronicleIInv, [TurnNext]_turnVars PROVE ChronicleIInv'
  OBVIOUS
<1>1. TurnIInv /\ StagesFit /\ Chronicle /\ TurnTypeOK
  BY DEF ChronicleIInv, TurnIInv
<1>2. TurnIInv'
  BY <1>1, TurnInvStep
<1>3. CASE UNCHANGED turnVars
  <2>1. UNCHANGED <<stage, channel, outcome, transcript>>
    BY <1>3 DEF turnVars
  <2>2. StagesFit'
    BY <1>1, <2>1 DEF StagesFit, StageFits, Chats
  <2>3. Chronicle'
    <3>1. ASSUME NEW m \in Messages PROVE Told(m)'
      <4>1. Told(m)
        BY <1>1 DEF Chronicle
      <4>2. QED
        BY <2>1, <4>1 DEF Told, Mentioned, InOrder, Written, Chats
    <3>2. QED
      BY <3>1 DEF Chronicle
  <2>4. QED
    BY <1>2, <2>2, <2>3 DEF ChronicleIInv
<1>4. CASE TurnNext
  <2>1. PICK m \in Messages :
          /\ \/ TurnStep(m)
             \/ \E c \in Channels : Receive(m, c)
             \/ \E h \in Domains \union {NoDomain}, s \in BOOLEAN :
                  Decide(m, h, s) \/ DecideNothing(m, h, s)
          /\ \A n \in Messages \ {m} :
               stage'[n] = stage[n] /\ channel'[n] = channel[n]
               /\ outcome'[n] = outcome[n]
          /\ UNCHANGED transcript \/ \E k \in Kinds : Write(m, k)
    BY <1>1, <1>4, OneMessage
  <2>2. StageFits(m)'
    BY <1>1, <2>1, OwnStageFits
  <2>3. StagesFit'
    BY <1>1, <2>1, <2>2 DEF StagesFit, StageFits, Chats
  <2>4. Told(m)'
    BY <1>1, <2>1, OwnTold DEF Chronicle
  <2>5. ASSUME NEW n \in Messages \ {m} PROVE Told(n)'
    <3>1. Told(n)
      BY <1>1 DEF Chronicle
    <3>2. QED
      BY <1>1, <2>1, <3>1, OthersUntold
  <2>6. Chronicle'
    BY <2>4, <2>5 DEF Chronicle
  <2>7. QED
    BY <1>2, <2>3, <2>6 DEF ChronicleIInv
<1>5. QED
  BY <1>3, <1>4

LEMMA ChronicleInitial == TurnInit => ChronicleIInv
<1> SUFFICES ASSUME TurnInit PROVE ChronicleIInv
  OBVIOUS
<1>1. TurnIInv
  BY TurnInitInv
<1>2. StagesFit
  BY DEF TurnInit, StagesFit, StageFits
<1>3. DOMAIN transcript = {}
  BY DEF TurnInit
<1>4. \A m \in Messages : \A kind : Written(m, kind) = 0
  <2> SUFFICES ASSUME NEW m \in Messages, NEW kind PROVE Written(m, kind) = 0
    OBVIOUS
  <2>1. Entries(m, kind) = {}
    BY <1>3 DEF Entries
  <2>2. Cardinality(Entries(m, kind)) = 0
    BY <2>1, FS_EmptySet
  <2>3. QED
    BY <2>2 DEF Entries, Written
<1>5. Chronicle
  BY <1>3, <1>4 DEF TurnInit, Chronicle, Told, Mentioned, InOrder
<1>6. QED
  BY <1>1, <1>2, <1>5 DEF ChronicleIInv

\* The inductive invariant of the transcript: what it holds about a message is
\* a function of the stage the message has reached.
THEOREM ChronicleInductive == TurnSpec => []ChronicleIInv
  BY ChronicleInitial, ChronicleStep, PTL DEF TurnSpec

\* For any number of messages, interleaved in any way with each other and with
\* decisions, every chat message has one question, then one answer, and a
\* summary exactly when its tool was executed (handle_turn).
THEOREM EveryMessageIsAnsweredOnce == TurnSpec => []OneAnswer
<1>1. ChronicleIInv => OneAnswer
  BY DEF ChronicleIInv, Chronicle, Told, InOrder, OneAnswer
<1>2. QED
  BY <1>1, ChronicleInductive, PTL

-----------------------------------------------------------------------------
(***************************************************************************)
(* The analysis of a frame                                                 *)
(***************************************************************************)

\* A task that analyses names its analysis.
GoodTask == {t \in Task : t.tool = "analyze" => t.runs \in Analyses}

AnalysisTyped ==
  /\ at \in [Analyses -> Places] /\ agentic \in SUBSET Analyses
  /\ said \in [Analyses -> Sayings]
  /\ verdict \in [Analyses -> {"none", "clear", "defect"}]
  /\ round \in [Analyses -> 0..MaxRounds]
  /\ holder \in Analyses \union {NoOne} /\ image \in Analyses \union {NoOne}
  /\ queue \in Seq(GoodTask) /\ task \in [Pool -> GoodTask]
  /\ parked \in SUBSET Analyses
  /\ shown \in [by : Analyses \union {NoOne}, image : Analyses \union {NoOne},
               awaited : BOOLEAN]

\* The model is asked only while a round is left.
RoundsLeft ==
  \A a \in Analyses :
    at[a] \in {"new", "queued", "asking"} => round[a] < MaxRounds

\* From the write of the image to the end of the call, the caller holds the
\* lock, and nobody writes another image without it.
CallerHoldsLock ==
  \A a \in Analyses :
    at[a] \in {"waiting", "answered"} => holder = a /\ image = a

AnalysisIInv ==
  AnalysisTyped /\ RoundsLeft /\ CallerHoldsLock /\ AwaitedSeesItsImage

LEMMA AnalysisTypes == AnalysisTyped => AnalysisTypeOK
<1> SUFFICES ASSUME AnalysisTyped PROVE AnalysisTypeOK
  OBVIOUS
<1>1. GoodTask \subseteq Task
  BY DEF GoodTask
<1>2. queue \in Seq(Task)
  BY <1>1, LenProperties DEF AnalysisTyped
<1>3. task \in [Pool -> Task]
  BY <1>1 DEF AnalysisTyped
<1>4. QED
  BY <1>2, <1>3 DEF AnalysisTyped, AnalysisTypeOK

LEMMA NoTaskIsGood == NoTask \in GoodTask
  BY AnalysisAssumption DEF NoTask, GoodTask, Task

LEMMA AnalysisInitial == AnalysisInit => AnalysisIInv
<1> SUFFICES ASSUME AnalysisInit PROVE AnalysisIInv
  OBVIOUS
<1>1. queue \in Seq(GoodTask)
  BY DEF AnalysisInit
<1>2. task \in [Pool -> GoodTask]
  BY NoTaskIsGood DEF AnalysisInit
<1>3. /\ agentic \in SUBSET Analyses /\ parked \in SUBSET Analyses
      /\ round \in [Analyses -> 0..MaxRounds]
      /\ shown \in [by : Analyses \union {NoOne}, image : Analyses \union {NoOne},
                   awaited : BOOLEAN]
  BY AnalysisAssumption DEF AnalysisInit
<1>4. AnalysisTyped
  BY <1>1, <1>2, <1>3 DEF AnalysisInit, AnalysisTyped, Places, Sayings
<1>5. RoundsLeft /\ CallerHoldsLock /\ AwaitedSeesItsImage
  BY AnalysisAssumption
     DEF AnalysisInit, RoundsLeft, CallerHoldsLock, AwaitedSeesItsImage
<1>6. QED
  BY <1>4, <1>5 DEF AnalysisIInv

\* A step of one analysis that neither calls a tool nor asks the pool.
LEMMA ThinkingKeeps ==
  ASSUME AnalysisIInv, NEW a \in Analyses,
         \/ OwnThread(a) /\ agentic' \in SUBSET Analyses
         \/ Fail(a) \/ ReadAnswer(a) \/ RecordEvent(a)
         \/ \E s \in Sayings \ {"nothing"} : Answer(a, s)
  PROVE  AnalysisIInv'
<1>1. /\ UNCHANGED <<holder, image, queue, task, parked, shown>>
      /\ agentic' \in SUBSET Analyses
  BY DEF OwnThread, Fail, ReadAnswer, RecordEvent, Answer, AnalysisIInv,
         AnalysisTyped
<1>2. PICK to \in {"asking", "done", "reading", "recording", "calling"} :
        /\ at' = [at EXCEPT ![a] = to]
        /\ to = "asking" => at[a] = "new" /\ round' = round
  BY DEF OwnThread, Fail, ReadAnswer, RecordEvent, Answer, Moves
<1>3. /\ said' \in [Analyses -> Sayings]
      /\ verdict' \in [Analyses -> {"none", "clear", "defect"}]
  <2>1. ASSUME NEW s \in Sayings \ {"nothing"}, Answer(a, s)
        PROVE  /\ said' \in [Analyses -> Sayings]
               /\ verdict' \in [Analyses -> {"none", "clear", "defect"}]
    <3>1. Judged(a, s) \in {"clear", "defect"}
      BY DEF Judged
    <3>2. \/ UNCHANGED <<said, verdict>>
          \/ /\ said' = [said EXCEPT ![a] = s]
             /\ verdict' = [verdict EXCEPT ![a] = Judged(a, s)]
      BY <2>1 DEF Answer
    <3>3. said \in [Analyses -> Sayings] /\ s \in Sayings
          /\ verdict \in [Analyses -> {"none", "clear", "defect"}]
      BY DEF AnalysisIInv, AnalysisTyped
    <3>4. QED
      BY <3>1, <3>2, <3>3
  <2>2. CASE \E s \in Sayings \ {"nothing"} : Answer(a, s)
    BY <2>1, <2>2
  <2>3. CASE OwnThread(a) \/ Fail(a) \/ ReadAnswer(a) \/ RecordEvent(a)
    BY <2>3 DEF OwnThread, Fail, ReadAnswer, RecordEvent, AnalysisIInv,
                AnalysisTyped
  <2>4. QED
    BY <2>2, <2>3
<1>4. /\ round' \in [Analyses -> 0..MaxRounds]
      /\ \A b \in Analyses \ {a} : round'[b] = round[b]
  <2>1. CASE \E s \in Sayings \ {"nothing"} : Answer(a, s)
    <3>1. round' = [round EXCEPT ![a] = @ + 1] /\ round[a] < MaxRounds
      BY <2>1 DEF Answer, Moves, AnalysisIInv, RoundsLeft
    <3>2. round[a] + 1 \in 0..MaxRounds
      BY <3>1, AnalysisAssumption DEF AnalysisIInv, AnalysisTyped
    <3>3. QED
      BY <3>1, <3>2 DEF AnalysisIInv, AnalysisTyped
  <2>2. CASE UNCHANGED round
    BY <2>2 DEF AnalysisIInv, AnalysisTyped
  <2>3. QED
    BY <2>1, <2>2 DEF OwnThread, Fail, ReadAnswer, RecordEvent
<1>5. at' \in [Analyses -> Places] /\ to \in Places
  BY <1>2 DEF AnalysisIInv, AnalysisTyped, Places
<1>6. AnalysisTyped'
  BY <1>1, <1>3, <1>4, <1>5 DEF AnalysisIInv, AnalysisTyped
<1>7. RoundsLeft'
  BY <1>2, <1>4, <1>5 DEF AnalysisIInv, AnalysisTyped, RoundsLeft
<1>8. CallerHoldsLock'
  BY <1>1, <1>2, <1>5 DEF AnalysisIInv, AnalysisTyped, CallerHoldsLock
<1>9. AwaitedSeesItsImage'
  BY <1>1 DEF AnalysisIInv, AwaitedSeesItsImage
<1>10. QED
  BY <1>6, <1>7, <1>8, <1>9 DEF AnalysisIInv

LEMMA QueueGrows ==
  ASSUME AnalysisIInv, NEW t \in Task, t.tool = "analyze" => t.runs \in Analyses,
         queue' = Append(queue, t)
  PROVE  queue' \in Seq(GoodTask)
<1>1. t \in GoodTask
  BY DEF GoodTask
<1>2. QED
  BY <1>1, AppendProperties DEF AnalysisIInv, AnalysisTyped

\* The requests that end up in the queue of the pool.
LEMMA QueueingKeeps ==
  ASSUME AnalysisIInv, NEW a \in Analyses, RequestByTool(a) \/ Approve(a)
  PROVE  AnalysisIInv'
<1>1. /\ UNCHANGED <<agentic, said, verdict, round, holder, image, task, shown>>
      /\ parked' \in SUBSET Analyses
  BY DEF RequestByTool, Approve, AnalysisIInv, AnalysisTyped
<1>2. queue' \in Seq(GoodTask)
  <2>1. CASE RequestByTool(a)
    <3>1. [tool |-> "analyze", by |-> NoOne, round |-> 0, runs |-> a] \in Task
      BY AnalysisAssumption DEF Task
    <3>2. QED
      BY <2>1, <3>1, QueueGrows DEF RequestByTool
  <2>2. CASE Approve(a)
    <3>1. [tool |-> "email", by |-> a, round |-> 0, runs |-> NoOne] \in Task
      BY AnalysisAssumption DEF Task
    <3>2. QED
      BY <2>2, <3>1, QueueGrows DEF Approve
  <2>3. QED
    BY <2>1, <2>2
<1>3. at' \in [Analyses -> Places]
  BY DEF RequestByTool, Approve, Moves, AnalysisIInv, AnalysisTyped, Places
<1>4. AnalysisTyped'
  BY <1>1, <1>2, <1>3 DEF AnalysisIInv, AnalysisTyped
<1>5. RoundsLeft' /\ CallerHoldsLock' /\ AwaitedSeesItsImage'
  BY <1>1 DEF RequestByTool, Approve, Moves, AnalysisIInv, AnalysisTyped,
              RoundsLeft, CallerHoldsLock, AwaitedSeesItsImage
<1>6. QED
  BY <1>4, <1>5 DEF AnalysisIInv

\* While the lock is free no call is under way, so its image may be written.
LEMMA RefusalKeeps ==
  ASSUME AnalysisIInv, NEW a \in Analyses,
         \/ CallUnknown(a) \/ CallRejected(a) \/ CallParked(a)
         \/ CallReturns(a) \/ CallTimesOut(a)
  PROVE  AnalysisIInv'
<1>1. /\ UNCHANGED <<agentic, said, verdict, round, queue, task, shown>>
      /\ parked' \in SUBSET Analyses
      /\ holder' \in {holder, NoOne} /\ image' \in {image, a}
      /\ at' = [at EXCEPT ![a] = AfterCall(a)]
  BY DEF CallUnknown, CallRejected, CallParked, CallReturns, CallTimesOut,
         Release, Moves,
         AnalysisIInv, AnalysisTyped
<1>2. AfterCall(a) \in {"asking", "recording"}
      /\ (AfterCall(a) = "asking" => round[a] < MaxRounds)
  BY DEF AfterCall
<1>3. AnalysisTyped'
  BY <1>1, <1>2 DEF AnalysisIInv, AnalysisTyped, Places
<1>4. RoundsLeft' /\ AwaitedSeesItsImage'
  BY <1>1, <1>2 DEF AnalysisIInv, AnalysisTyped, RoundsLeft, AwaitedSeesItsImage
<1>5. CallerHoldsLock'
  <2>1. CASE CallUnknown(a) \/ CallRejected(a) \/ CallParked(a)
    <3>1. UNCHANGED image \/ holder = NoOne
      BY <2>1 DEF CallUnknown, CallRejected, CallParked
    <3>2. holder' = holder
      BY <2>1 DEF CallUnknown, CallRejected, CallParked
    <3>3. QED
      BY <1>1, <1>2, <3>1, <3>2, AnalysisAssumption
         DEF AnalysisIInv, AnalysisTyped, CallerHoldsLock
  <2>2. CASE CallReturns(a) \/ CallTimesOut(a)
    <3>1. at[a] \in {"waiting", "answered"} /\ image' = image
      BY <2>2 DEF CallReturns, CallTimesOut, Moves, Release
    <3>2. \A b \in Analyses \ {a} : at[b] \notin {"waiting", "answered"}
      BY <3>1 DEF AnalysisIInv, CallerHoldsLock
    <3>3. QED
      BY <1>1, <1>2, <3>2 DEF AnalysisIInv, AnalysisTyped, CallerHoldsLock
  <2>3. QED
    BY <2>1, <2>2
<1>6. QED
  BY <1>3, <1>4, <1>5 DEF AnalysisIInv

LEMMA CallRunsKeeps ==
  ASSUME AnalysisIInv, NEW a \in Analyses, CallRuns(a)
  PROVE  AnalysisIInv'
<1>1. /\ holder = NoOne /\ holder' = a /\ image' = a
      /\ UNCHANGED <<agentic, said, verdict, round, task, parked, shown>>
  BY DEF CallRuns
<1>2. \A b \in Analyses : at[b] \notin {"waiting", "answered"}
  BY <1>1, AnalysisAssumption DEF AnalysisIInv, CallerHoldsLock
<1>3. /\ at' \in [Analyses -> Places]
      /\ \A b \in Analyses \ {a} :
           \/ at'[b] = at[b]
           \/ at[b] = "new" /\ at'[b] = "queued"
      /\ at'[a] = "waiting"
  <2>1. CASE Moves(a, "calling", "waiting")
    BY <2>1 DEF Moves, AnalysisIInv, AnalysisTyped, Places
  <2>2. CASE \E b \in Analyses :
               /\ at[a] = "calling" /\ at[b] = "new"
               /\ at' = [at EXCEPT ![a] = "waiting", ![b] = "queued"]
    BY <2>2 DEF AnalysisIInv, AnalysisTyped, Places
  <2>3. QED
    BY <2>1, <2>2 DEF CallRuns
<1>4. queue' \in Seq(GoodTask)
  <2>1. round[a] \in 0..MaxRounds
    BY DEF AnalysisIInv, AnalysisTyped
  <2>2. [tool |-> "evidence", by |-> a, round |-> round[a], runs |-> NoOne] \in Task
    BY <2>1 DEF Task
  <2>3. \A b \in Analyses :
          [tool |-> "analyze", by |-> a, round |-> round[a], runs |-> b] \in Task
    BY <2>1 DEF Task
  <2>4. CASE queue' = Append(queue, [tool |-> "evidence", by |-> a,
                                     round |-> round[a], runs |-> NoOne])
    BY <2>2, <2>4, QueueGrows
  <2>5. ASSUME NEW b \in Analyses,
               queue' = Append(queue, [tool |-> "analyze", by |-> a,
                                       round |-> round[a], runs |-> b])
        PROVE  queue' \in Seq(GoodTask)
    BY <2>3, <2>5, QueueGrows
  <2>6. QED
    BY <2>4, <2>5 DEF CallRuns
<1>5. AnalysisTyped'
  BY <1>1, <1>3, <1>4 DEF AnalysisIInv, AnalysisTyped
<1>6. RoundsLeft' /\ CallerHoldsLock' /\ AwaitedSeesItsImage'
  BY <1>1, <1>2, <1>3
     DEF AnalysisIInv, RoundsLeft, CallerHoldsLock, AwaitedSeesItsImage
<1>7. QED
  BY <1>5, <1>6 DEF AnalysisIInv

LEMMA TakeKeeps ==
  ASSUME AnalysisIInv, NEW w \in Pool, Take(w)
  PROVE  AnalysisIInv'
<1> DEFINE t == Head(queue)
<1>1. /\ queue # <<>> /\ queue' = Tail(queue) /\ task' = [task EXCEPT ![w] = t]
      /\ UNCHANGED <<said, verdict, round, holder, image, parked, shown>>
  BY DEF Take
<1>2. t \in GoodTask /\ queue' \in Seq(GoodTask)
  BY <1>1, HeadTailProperties DEF AnalysisIInv, AnalysisTyped
<1>3. /\ at' \in [Analyses -> Places] /\ agentic' \in SUBSET Analyses
      /\ \A b \in Analyses :
           at'[b] = at[b] \/ (at[b] = "queued" /\ at'[b] = "asking")
  <2>1. CASE t.tool = "analyze"
    <3>1. t.runs \in Analyses
      BY <1>2, <2>1 DEF GoodTask
    <3>2. Moves(t.runs, "queued", "asking") /\ MarkAgentic(t.runs)
      BY <2>1 DEF Take
    <3>3. QED
      BY <3>1, <3>2 DEF Moves, MarkAgentic, AnalysisIInv, AnalysisTyped, Places
  <2>2. CASE t.tool # "analyze"
    BY <2>2 DEF Take, AnalysisIInv, AnalysisTyped
  <2>3. QED
    BY <2>1, <2>2
<1> HIDE DEF t
<1>4. AnalysisTyped'
  BY <1>1, <1>2, <1>3 DEF AnalysisIInv, AnalysisTyped
<1>5. RoundsLeft' /\ CallerHoldsLock' /\ AwaitedSeesItsImage'
  BY <1>1, <1>3 DEF AnalysisIInv, RoundsLeft, CallerHoldsLock, AwaitedSeesItsImage
<1>6. QED
  BY <1>4, <1>5 DEF AnalysisIInv

\* A tool that is awaited finds the image its caller wrote.
LEMMA CompletionKeeps ==
  ASSUME AnalysisIInv, NEW w \in Pool, UseImage(w) \/ EndAnalyze(w)
  PROVE  AnalysisIInv'
<1> DEFINE t == task[w]
<1>1. /\ Complete(w)
      /\ UNCHANGED <<agentic, said, verdict, round, holder, image, queue, parked>>
      /\ \/ UNCHANGED shown
         \/ shown' = [by |-> t.by, image |-> image, awaited |-> Awaited(t)]
  BY DEF UseImage, EndAnalyze
<1>2. t \in Task /\ t.by \in Analyses \union {NoOne}
  BY DEF AnalysisIInv, AnalysisTyped, GoodTask, Task
<1> HIDE DEF t
<1>3. Awaited(t) => t.by \in Analyses /\ at[t.by] = "waiting"
  BY <1>2 DEF Awaited
<1>4. /\ task' = [task EXCEPT ![w] = NoTask]
      /\ at' = IF Awaited(t) THEN [at EXCEPT ![t.by] = "answered"] ELSE at
  BY <1>1 DEF Complete, t
<1>5. /\ at' \in [Analyses -> Places]
      /\ \A b \in Analyses :
           at'[b] = at[b] \/ (at[b] = "waiting" /\ at'[b] = "answered")
  <2>1. CASE Awaited(t)
    BY <1>3, <1>4, <2>1 DEF AnalysisIInv, AnalysisTyped, Places
  <2>2. CASE ~ Awaited(t)
    BY <1>4, <2>2 DEF AnalysisIInv, AnalysisTyped
  <2>3. QED
    BY <2>1, <2>2
<1>6. Awaited(t) \in BOOLEAN
  BY DEF Awaited
<1>7. shown' \in [by : Analyses \union {NoOne}, image : Analyses \union {NoOne},
                  awaited : BOOLEAN]
  <2>1. image \in Analyses \union {NoOne}
    BY DEF AnalysisIInv, AnalysisTyped
  <2>2. CASE UNCHANGED shown
    BY <2>2 DEF AnalysisIInv, AnalysisTyped
  <2>3. CASE shown' = [by |-> t.by, image |-> image, awaited |-> Awaited(t)]
    BY <1>2, <1>6, <2>1, <2>3
  <2>4. QED
    BY <1>1, <2>2, <2>3
<1>8. AnalysisTyped'
  BY <1>1, <1>4, <1>5, <1>7, NoTaskIsGood DEF AnalysisIInv, AnalysisTyped
<1>9. RoundsLeft' /\ CallerHoldsLock'
  BY <1>1, <1>5 DEF AnalysisIInv, RoundsLeft, CallerHoldsLock
<1>10. AwaitedSeesItsImage'
  <2>1. CASE UNCHANGED shown
    BY <2>1 DEF AnalysisIInv, AwaitedSeesItsImage
  <2>2. CASE shown' = [by |-> t.by, image |-> image, awaited |-> Awaited(t)]
    <3>1. Awaited(t) => image = t.by
      BY <1>3 DEF AnalysisIInv, CallerHoldsLock
    <3>2. shown'.awaited = Awaited(t) /\ shown'.image = image /\ shown'.by = t.by
      BY <2>2
    <3>3. QED
      BY <3>1, <3>2 DEF AwaitedSeesItsImage
  <2>3. QED
    BY <1>1, <2>1, <2>2
<1>11. QED
  BY <1>8, <1>9, <1>10 DEF AnalysisIInv

LEMMA AnalysisStepKeeps == AnalysisIInv /\ [AnalysisNext]_analysisVars => AnalysisIInv'
<1> SUFFICES ASSUME AnalysisIInv, [AnalysisNext]_analysisVars PROVE AnalysisIInv'
  OBVIOUS
<1>1. CASE UNCHANGED analysisVars
  BY <1>1 DEF analysisVars, AnalysisIInv, AnalysisTyped, RoundsLeft,
              CallerHoldsLock, AwaitedSeesItsImage
<1>2. ASSUME NEW a \in Analyses,
             \/ AnalyzePrompt(a) \/ AnalyzeAgentic(a) \/ AnalyzeFrame(a)
             \/ AnalyzeUploaded(a) \/ RequestByTool(a) \/ Approve(a)
             \/ AnalysisStep(a)
      PROVE  AnalysisIInv'
  <2>1. CASE \/ AnalyzePrompt(a) \/ AnalyzeAgentic(a) \/ AnalyzeFrame(a)
             \/ AnalyzeUploaded(a)
    <3>1. OwnThread(a) /\ agentic' \in SUBSET Analyses
      BY <2>1 DEF AnalyzePrompt, AnalyzeAgentic, AnalyzeFrame, AnalyzeUploaded,
                  MarkAgentic, AnalysisIInv, AnalysisTyped
    <3>2. QED
      BY <3>1, ThinkingKeeps
  <2>2. CASE RequestByTool(a) \/ Approve(a)
    BY <2>2, QueueingKeeps
  <2>3. CASE \/ Fail(a) \/ ReadAnswer(a) \/ RecordEvent(a)
             \/ \E s \in Sayings \ {"nothing"} : Answer(a, s)
    BY <2>3, ThinkingKeeps
  <2>4. CASE \/ CallUnknown(a) \/ CallRejected(a) \/ CallParked(a)
             \/ CallReturns(a) \/ CallTimesOut(a)
    BY <2>4, RefusalKeeps
  <2>5. CASE CallRuns(a)
    BY <2>5, CallRunsKeeps
  <2>6. QED
    BY <1>2, <2>1, <2>2, <2>3, <2>4, <2>5 DEF AnalysisStep
<1>3. ASSUME NEW w \in Pool, WorkerStep(w) PROVE AnalysisIInv'
  BY <1>3, TakeKeeps, CompletionKeeps DEF WorkerStep
<1>4. QED
  BY <1>1, <1>2, <1>3 DEF AnalysisNext

\* The inductive invariant: the lock is held by the one analysis that waits.
THEOREM AnalysisInductive == AnalysisSpec => []AnalysisIInv
  BY AnalysisInitial, AnalysisStepKeeps, PTL DEF AnalysisSpec

\* However analyses nest, time out and overlap, a tool whose caller still waits
\* for it uses the caller's image (submit_agentic_call).
THEOREM ToolsSeeTheirImage == AnalysisSpec => []AwaitedSeesItsImage
<1>1. AnalysisIInv => AwaitedSeesItsImage
  BY DEF AnalysisIInv
<1>2. QED
  BY <1>1, AnalysisInductive, PTL

-----------------------------------------------------------------------------
(* The three parts side by side                                             *)

LEMMA PartsStart == MCInit => AgentIInv /\ TurnIInv /\ AnalysisIInv
  BY AgentInitial, TurnInitInv, AnalysisInitial DEF MCInit

LEMMA PartsStep ==
  ASSUME AgentIInv, TurnIInv, AnalysisIInv,
         [MCNext]_<<agentVars, turnVars, analysisVars, part>>
  PROVE  AgentIInv' /\ TurnIInv' /\ AnalysisIInv'
<1>1. /\ [AgentNext]_agentVars /\ [TurnNext]_turnVars
      /\ [AnalysisNext]_analysisVars
  BY DEF MCNext, MCAgent, MCTurn, MCAnalysis
<1>2. QED
  BY <1>1, AgentStepKeeps, TurnInvStep, AnalysisStepKeeps

\* A behaviour of the parts together is one of each: what is proved of a part
\* holds of them together, and what the run finds of them is about each part.
THEOREM SessionsKeepTheirPromise == MCSpec => AgentSpec /\ TurnSpec /\ AnalysisSpec
<1>1. MCInit => AgentInit /\ TurnInit /\ AnalysisInit
  BY DEF MCInit
<1>2. [MCNext]_<<agentVars, turnVars, analysisVars, part>> =>
        /\ [AgentNext]_agentVars /\ [TurnNext]_turnVars
        /\ [AnalysisNext]_analysisVars
  BY DEF MCNext, MCAgent, MCTurn, MCAnalysis
<1>3. QED
  BY <1>1, <1>2, PTL DEF MCSpec, AgentSpec, TurnSpec, AnalysisSpec

\* Whichever part moves, every variable of the three keeps its type.
THEOREM SessionsTypeCorrect == MCSpec => []MCTypeOK
<1> DEFINE IInv == AgentIInv /\ TurnIInv /\ AnalysisIInv
<1>1. MCInit => IInv
  BY PartsStart
<1>2. IInv /\ [MCNext]_<<agentVars, turnVars, analysisVars, part>> => IInv'
  BY PartsStep
<1>3. IInv => MCTypeOK
  BY AnalysisTypes DEF AgentIInv, TurnIInv, AnalysisIInv, MCTypeOK
<1> HIDE DEF IInv
<1>4. QED
  BY <1>1, <1>2, <1>3, PTL DEF MCSpec

-----------------------------------------------------------------------------
(***************************************************************************)
(* The sessions of the chat.  First the helpers: what becomes of the order *)
(* of use, whom an eviction spares and how many it leaves, and what the    *)
(* list in memory keeps of a transcript.                                   *)
(***************************************************************************)

(* The order of use *)

LEMMA RestrictedOrder ==
  ASSUME NEW r, NEW S, NEW T \in SUBSET S, Ordered(r, S)
  PROVE  Ordered(r \cap (T \X T), T)
BY DEF Ordered

LEMMA TouchedOrder ==
  ASSUME Ordered(older, Listed), NEW o
  PROVE  Ordered(Touched(o), Listed \cup {o})
<1>. DEFINE U == Listed
<1>1. Touched(o) = {p \in older : o # p[1] /\ o # p[2]} \cup ((U \ {o}) \X {o})
  BY DEF Touched
<1>2. \A p, q : <<p, q>> \in Touched(o) <=>
        \/ <<p, q>> \in older /\ p # o /\ q # o
        \/ p \in U \ {o} /\ q = o
  BY <1>1
<1>3. Touched(o) \subseteq (U \cup {o}) \X (U \cup {o})
  <2>1. older \subseteq U \X U  BY DEF Ordered
  <2>. QED  BY <1>1, <2>1
<1>. HIDE DEF U
<1>4. /\ \A p \in U : <<p, p>> \notin older
      /\ \A p, q \in U : p # q => <<p, q>> \in older \/ <<q, p>> \in older
      /\ \A p, q, x \in U :
           <<p, q>> \in older /\ <<q, x>> \in older => <<p, x>> \in older
      /\ \A p, q : <<p, q>> \in older => p \in U /\ q \in U
  BY DEF Ordered, U
<1>5. Ordered(Touched(o), U \cup {o})
  BY <1>2, <1>3, <1>4 DEF Ordered
<1>. QED  BY <1>5 DEF U

\* The members of a set with fewer than k before them.
Foremost(r, S, k) ==
  {o \in S : Cardinality({p \in S : <<p, o>> \in r}) < k}

\* The foremost of a finite ordered set are k, or all there are.
LEMMA FirstOnes ==
  ASSUME NEW r, NEW S, IsFiniteSet(S), NEW k \in Nat,
         \A o \in S : <<o, o>> \notin r,
         \A o, p \in S : o # p => <<o, p>> \in r \/ <<p, o>> \in r,
         \A o, p, q \in S :
           <<o, p>> \in r /\ <<p, q>> \in r => <<o, q>> \in r
  PROVE  Foremost(r, S, k) = S \/ Cardinality(Foremost(r, S, k)) >= k
<1>. DEFINE earlier(o) == {p \in S : <<p, o>> \in r}
            n == Cardinality(S)
            rank == [o \in S |-> Cardinality(earlier(o))]
            first == {o \in S : Cardinality(earlier(o)) < k}
<1>0. Foremost(r, S, k) = first  BY DEF Foremost
<1>1. n \in Nat  BY FS_CardinalityType
<1>2. \A o \in S : /\ IsFiniteSet(earlier(o)) /\ Cardinality(earlier(o)) \in Nat
                   /\ Cardinality(earlier(o)) < n
  <2>. SUFFICES ASSUME NEW o \in S
                PROVE  /\ IsFiniteSet(earlier(o))
                       /\ Cardinality(earlier(o)) \in Nat
                       /\ Cardinality(earlier(o)) < n
    OBVIOUS
  <2>1. earlier(o) \in SUBSET S /\ earlier(o) # S  OBVIOUS
  <2>2. /\ IsFiniteSet(earlier(o)) /\ Cardinality(earlier(o)) <= n
        /\ n # Cardinality(earlier(o))
    BY <2>1, FS_Subset
  <2>3. Cardinality(earlier(o)) \in Nat  BY <2>2, FS_CardinalityType
  <2>. QED  BY <1>1, <2>2, <2>3
<1>3. \A o, p \in S : <<p, o>> \in r =>
        Cardinality(earlier(p)) < Cardinality(earlier(o))
  <2>. SUFFICES ASSUME NEW o \in S, NEW p \in S, <<p, o>> \in r
                PROVE  Cardinality(earlier(p)) < Cardinality(earlier(o))
    OBVIOUS
  <2>1. earlier(p) \in SUBSET earlier(o) /\ earlier(p) # earlier(o)  OBVIOUS
  <2>2. /\ Cardinality(earlier(p)) <= Cardinality(earlier(o))
        /\ Cardinality(earlier(o)) # Cardinality(earlier(p))
    BY <1>2, <2>1, FS_Subset
  <2>3. /\ Cardinality(earlier(p)) \in Nat
        /\ Cardinality(earlier(o)) \in Nat
    BY <1>2
  <2>. HIDE DEF earlier
  <2>. QED  BY <2>2, <2>3
<1>4. rank \in [S -> 0..(n - 1)]  BY <1>1, <1>2
<1>5. \A o, p \in S : o # p => rank[o] # rank[p]
  <2>. SUFFICES ASSUME NEW o \in S, NEW p \in S, o # p
                PROVE  rank[o] # rank[p]
    OBVIOUS
  <2>1. <<o, p>> \in r \/ <<p, o>> \in r  OBVIOUS
  <2>2. rank[o] < rank[p] \/ rank[p] < rank[o]  BY <1>3, <2>1
  <2>3. rank[o] \in Nat /\ rank[p] \in Nat  BY <1>2
  <2>. HIDE DEF rank
  <2>. QED  BY <2>2, <2>3
<1>. HIDE DEF rank
<1>6. rank \in Injection(S, 0..(n - 1))
  BY <1>4, <1>5 DEF Injection, IsInjective
<1>7. IsFiniteSet(0..(n - 1)) /\ Cardinality(0..(n - 1)) = n
  <2>1. n - 1 \in Int  BY <1>1
  <2>. HIDE DEF n
  <2>2. /\ IsFiniteSet(0..(n - 1))
        /\ Cardinality(0..(n - 1)) = IF 0 > n - 1 THEN 0 ELSE (n - 1) - 0 + 1
    BY <2>1, FS_Interval
  <2>. QED  BY <1>1, <2>2
<1>8. rank \in Surjection(S, 0..(n - 1))
  BY <1>6, <1>7, FS_Injection
<1>9. CASE k >= n
  <2>1. \A o \in S : Cardinality(earlier(o)) < k
    <3>. HIDE DEF earlier, n
    <3>. QED  BY <1>1, <1>2, <1>9
  <2>. QED  BY <1>0, <2>1
<1>10. CASE k < n
  <2>1. PICK o \in S : rank[o] = k  BY <1>1, <1>8, <1>10 DEF Surjection
  <2>2. Cardinality(earlier(o)) = k  BY <2>1 DEF rank
  <2>3. earlier(o) \in SUBSET first  BY <1>3, <2>2
  <2>4. first \in SUBSET S  OBVIOUS
  <2>5. IsFiniteSet(first)  BY <2>4, FS_Subset
  <2>6. Cardinality(earlier(o)) <= Cardinality(first)
    BY <2>3, <2>5, FS_Subset
  <2>7. Cardinality(first) \in Nat  BY <2>5, FS_CardinalityType
  <2>. HIDE DEF first, earlier
  <2>. QED  BY <1>0, <2>2, <2>6, <2>7
<1>. QED  BY <1>1, <1>9, <1>10

-----------------------------------------------------------------------------
(* Eviction *)

\* Eviction only takes entries away, and never one whose socket is in the map.
LEMMA EvictionSpares ==
  ASSUME NEW ss, NEW cs \in [Ids -> Objects \cup {None}], NEW objects,
         NEW activity, NEW old
  PROVE  LET after == Evicted(ss, cs, objects, activity, old) IN
         /\ after \in [Ids -> Objects \cup {None}]
         /\ \A c \in Ids : after[c] \in {cs[c], None}
         /\ \A c \in Ids : IsLive(cs[c], ss, objects) => after[c] = cs[c]
BY DEF Evicted

\* A sweep leaves no more entries than the cap, or nothing but live sessions.
LEMMA EvictionBounds ==
  ASSUME NEW ss, NEW cs \in [Ids -> Objects \cup {None}], NEW objects,
         NEW activity, NEW old, NEW S, Ordered(activity, S),
         \A c \in Ids : cs[c] # None => cs[c] \in S
  PROVE  LET after == Evicted(ss, cs, objects, activity, old) IN
         \/ Cardinality(Registered(after)) <= Cap
         \/ \A c \in Registered(after) : IsLive(after[c], ss, objects)
<1>. DEFINE live(o) == IsLive(o, ss, objects)
            rest == [c \in Ids |->
                       IF cs[c] \notin old \/ live(cs[c]) THEN cs[c] ELSE None]
            candidates == {o \in Objects : /\ \E c \in Ids : rest[c] = o
                                           /\ ~ live(o)}
            k == Surplus(rest)
            gone == {o \in candidates :
                       Cardinality({p \in candidates : <<p, o>> \in activity}) < k}
            after == [c \in Ids |-> IF rest[c] \in gone THEN None ELSE rest[c]]
            n == Cardinality(Registered(rest))
<1>1. after = Evicted(ss, cs, objects, activity, old)
  BY DEF Evicted
<1>2. IsFiniteSet(Ids)  BY ChatAssumption DEF Ids
<1>3. IsFiniteSet(Registered(rest)) /\ n \in Nat
  <2>1. Registered(rest) \in SUBSET Ids  BY DEF Registered
  <2>. HIDE DEF rest
  <2>. QED  BY <1>2, <2>1, FS_Subset, FS_CardinalityType
<1>4. candidates \subseteq S
  <2>1. \A c \in Ids : rest[c] # None => rest[c] \in S  OBVIOUS
  <2>2. None \notin Objects  BY ChatAssumption
  <2>. HIDE DEF rest
  <2>. QED  BY <2>1, <2>2
<1>5. IsFiniteSet(candidates)
  <2>. DEFINE D == {c \in Ids : rest[c] \in candidates}
              f == [c \in D |-> rest[c]]
  <2>1. D \in SUBSET Ids  OBVIOUS
  <2>2. IsFiniteSet(D)  BY <1>2, <2>1, FS_Subset
  <2>3. f \in Surjection(D, candidates)
    <3>. HIDE DEF rest
    <3>. QED  BY DEF Surjection
  <2>. HIDE DEF f, D, candidates
  <2>. QED  BY <2>2, <2>3, FS_Surjection
<1>6. k = n - Cap  BY DEF Surplus
<1>7. CASE k <= 0
  <2>1. gone = {}
    <3>. HIDE DEF candidates, k
    <3>1. \A o \in candidates :
            Cardinality({p \in candidates : <<p, o>> \in activity}) \in Nat
      <4>. SUFFICES ASSUME NEW o \in candidates
                    PROVE  Cardinality({p \in candidates : <<p, o>> \in activity}) \in Nat
        OBVIOUS
      <4>1. {p \in candidates : <<p, o>> \in activity} \in SUBSET candidates
        OBVIOUS
      <4>2. IsFiniteSet({p \in candidates : <<p, o>> \in activity})
        BY <1>5, <4>1, FS_Subset
      <4>. QED  BY <4>2, FS_CardinalityType
    <3>2. k \in Int  BY <1>3, <1>6, ChatAssumption
    <3>. QED  BY <1>7, <3>1, <3>2
  <2>2. after = rest
    <3>. HIDE DEF gone
    <3>. QED  BY <2>1
  <2>3. n <= Cap
    <3>. HIDE DEF k, n
    <3>. QED  BY <1>3, <1>6, <1>7, ChatAssumption
  <2>4. Cardinality(Registered(after)) <= Cap
    <3>. HIDE DEF after, rest
    <3>. QED  BY <2>2, <2>3
  <2>. HIDE DEF after
  <2>. QED  BY <1>1, <2>4
<1>8. CASE k > 0
  <2>1. k \in Nat
    <3>. HIDE DEF k, n
    <3>. QED  BY <1>3, <1>6, <1>8, ChatAssumption
  <2>2. /\ \A o \in candidates : <<o, o>> \notin activity
        /\ \A o, p \in candidates :
             o # p => <<o, p>> \in activity \/ <<p, o>> \in activity
        /\ \A o, p, q \in candidates :
             <<o, p>> \in activity /\ <<p, q>> \in activity
               => <<o, q>> \in activity
    <3>. HIDE DEF candidates
    <3>. QED  BY <1>4 DEF Ordered
  <2>3. gone = candidates \/ Cardinality(gone) >= k
    <3>. HIDE DEF candidates, k
    <3>1. gone = Foremost(activity, candidates, k)  BY DEF Foremost
    <3>. HIDE DEF gone
    <3>. QED  BY <1>5, <2>1, <2>2, <3>1, FirstOnes
  <2>4. CASE gone = candidates
    <3>1. \A c \in Registered(after) : after[c] = rest[c] /\ rest[c] \notin gone
      <4>. HIDE DEF gone, rest
      <4>. QED  BY DEF Registered
    <3>2. rest \in [Ids -> Objects \cup {None}]  OBVIOUS
    <3>3. \A c \in Registered(after) : live(after[c])
      <4>. SUFFICES ASSUME NEW c \in Registered(after)
                    PROVE  live(after[c])
        OBVIOUS
      <4>1. c \in Ids /\ after[c] # None  BY DEF Registered
      <4>. HIDE DEF after, rest, gone
      <4>. QED  BY <2>4, <3>1, <3>2, <4>1
    <3>. HIDE DEF after
    <3>. QED  BY <1>1, <3>3
  <2>5. CASE Cardinality(gone) >= k
    <3>. DEFINE D == {c \in Ids : rest[c] \in gone}
                f == [c \in D |-> rest[c]]
    <3>1. D \in SUBSET Ids  OBVIOUS
    <3>2. IsFiniteSet(D)  BY <1>2, <3>1, FS_Subset
    <3>3. f \in Surjection(D, gone)
      <4>1. \A o \in gone : \E c \in Ids : rest[c] = o  OBVIOUS
      <4>. HIDE DEF rest, gone
      <4>. QED  BY <4>1 DEF Surjection
    <3>4. Cardinality(gone) <= Cardinality(D) /\ IsFiniteSet(gone)
      <4>. HIDE DEF f, D, gone
      <4>. QED  BY <3>2, <3>3, FS_Surjection
    <3>5. Registered(after) = Registered(rest) \ D
      <4>1. None \notin gone  BY ChatAssumption
      <4>. HIDE DEF gone, rest
      <4>. QED  BY <4>1 DEF Registered
    <3>6. Registered(rest) \cap D = D
      <4>1. None \notin gone  BY ChatAssumption
      <4>. HIDE DEF gone, rest
      <4>. QED  BY <4>1 DEF Registered
    <3>7. Cardinality(Registered(after)) = n - Cardinality(D)
      <4>. HIDE DEF after, rest, D
      <4>. QED  BY <1>3, <3>5, <3>6, FS_Difference
    <3>8. Cardinality(D) \in Nat /\ Cardinality(gone) \in Nat
      <4>. HIDE DEF D, gone
      <4>. QED  BY <3>2, <3>4, FS_CardinalityType
    <3>9. Cardinality(Registered(after)) <= Cap
      <4>. HIDE DEF after, D, gone, n, k
      <4>. QED  BY <1>3, <1>6, <2>1, <2>5, <3>4, <3>7, <3>8, ChatAssumption
    <3>. HIDE DEF after
    <3>. QED  BY <1>1, <3>9
  <2>. QED  BY <2>3, <2>4, <2>5
<1>9. k \in Int
  <2>. HIDE DEF k, n
  <2>. QED  BY <1>3, <1>6, ChatAssumption
<1>. HIDE DEF k
<1>. QED  BY <1>7, <1>8, <1>9

-----------------------------------------------------------------------------
(* What memory keeps of a transcript *)

LEMMA LatestTyped ==
  ASSUME NEW m \in Seq(Nat)
  PROVE  /\ Latest(m) \in Seq(Nat) /\ Len(Latest(m)) <= MaxMessages
         /\ Len(Latest(m)) =
              IF Len(m) > MaxMessages THEN MaxMessages ELSE Len(m)
         /\ \A i \in 1..Len(Latest(m)) :
              Latest(m)[i] = m[Len(m) - Len(Latest(m)) + i]
<1>. DEFINE n == Len(m)
            a == IF n > MaxMessages THEN n - MaxMessages + 1 ELSE 1
<1>1. n \in Nat /\ MaxMessages \in Nat \ {0}  BY ChatAssumption
<1>2. a \in Int /\ a >= 1 /\ \A i \in a..n : m[i] \in Nat  BY <1>1
<1>3. Latest(m) = SubSeq(m, a, n)  BY DEF Latest
<1>. HIDE DEF a
<1>4. /\ SubSeq(m, a, n) \in Seq(Nat)
      /\ Len(SubSeq(m, a, n)) = IF a <= n THEN n - a + 1 ELSE 0
      /\ \A i \in 1..(n - a + 1) : SubSeq(m, a, n)[i] = m[a + i - 1]
  BY <1>1, <1>2, SubSeqProperties
<1>. HIDE DEF n
<1>5. Len(Latest(m)) = IF n > MaxMessages THEN MaxMessages ELSE n
  <2>1. CASE n > MaxMessages
    <3>1. a = n - MaxMessages + 1  BY <2>1 DEF a
    <3>2. a <= n /\ n - a + 1 = MaxMessages  BY <1>1, <3>1
    <3>. QED  BY <1>3, <1>4, <2>1, <3>2
  <2>2. CASE ~ (n > MaxMessages)
    <3>1. a = 1  BY <2>2 DEF a
    <3>2. (IF a <= n THEN n - a + 1 ELSE 0) = n  BY <1>1, <3>1
    <3>. QED  BY <1>3, <1>4, <2>2, <3>2
  <2>. QED  BY <2>1, <2>2
<1>6. n - Len(Latest(m)) = a - 1 /\ Len(Latest(m)) \in Nat
  BY <1>1, <1>5 DEF a
<1>7. \A i \in 1..Len(Latest(m)) : Latest(m)[i] = m[n - Len(Latest(m)) + i]
  <2>. SUFFICES ASSUME NEW i \in 1..Len(Latest(m))
                PROVE  Latest(m)[i] = m[n - Len(Latest(m)) + i]
    OBVIOUS
  <2>1. i \in 1..(n - a + 1)  BY <1>1, <1>2, <1>5, <1>6
  <2>2. Latest(m)[i] = m[a + i - 1]  BY <1>3, <1>4, <2>1
  <2>3. a + i - 1 = n - Len(Latest(m)) + i  BY <1>1, <1>2, <1>6
  <2>. QED  BY <2>2, <2>3
<1>8. Len(Latest(m)) <= MaxMessages  BY <1>1, <1>5
<1>. QED  BY <1>3, <1>4, <1>5, <1>7, <1>8 DEF n

-----------------------------------------------------------------------------
(***************************************************************************)
(* The invariant of the maps.  An object in use has been bound by some     *)
(* socket, one that nobody uses is blank, a client's entry leads to the    *)
(* object that has its id, and a handler works on the object of its socket *)
(* unless the socket has been taken off the map.                           *)
(***************************************************************************)

SessionRecords ==
  [socket : Sockets \cup {None}, client : Ids \cup {None},
   messages : {m \in Seq(Nat) : Len(m) <= MaxMessages}]

MapsTyped ==
  /\ sessions \in [Sockets -> Objects \cup {None}]
  /\ clients \in [Ids -> Objects \cup {None}]
  /\ held \in [Sockets -> Objects \cup {None}]

ObjectsTyped ==
  /\ obj \in [Objects -> SessionRecords]
  /\ Ordered(older, Listed) /\ idle \subseteq Listed
  /\ beside \subseteq InUse

RestTyped ==
  /\ connected \subseteq Sockets
  /\ stored \in [Ids -> Seq(Nat)] /\ issued \subseteq Ids
  /\ doing \in [Sockets -> Jobs]
  /\ \A s \in Sockets : (held[s] = None) = (doing[s] = "none")
  /\ added \in 0..MaxAdded /\ faults \in 0..MaxFaults
  /\ unsaved \subseteq 1..added

ObjectsKept ==
  /\ \A o \in InUse : obj[o].socket # None
  /\ \A o \in Objects \ InUse : obj[o] = Blank
  /\ \A o \in InUse \ beside : ~ HasTwin(o, obj, InUse)

ClientsKept ==
  /\ \A c \in Registered(clients) : obj[clients[c]].client = c
  /\ \A o \in Objects : obj[o].client # None => obj[o].client \in issued

HoldersKept ==
  \A s \in Sockets : held[s] # None => sessions[s] \in {held[s], None}

ChatIInv ==
  /\ MapsTyped /\ ObjectsTyped /\ RestTyped
  /\ ObjectsKept /\ ClientsKept /\ HoldersKept
  /\ Bounded

LEMMA ChatTypes == ChatIInv => TypeOK
<1>. SUFFICES ASSUME ChatIInv  PROVE TypeOK
  OBVIOUS
<1>. QED
  BY DEF ChatIInv, MapsTyped, ObjectsTyped, RestTyped, SessionRecords, TypeOK

LEMMA UsedAreObjects ==
  ASSUME MapsTyped
  PROVE  InUse \subseteq Objects
BY DEF MapsTyped, InUse

\* An object is free: each socket uses at most one and each client has at most
\* one, and some socket or some client has none.
LEMMA NewObjectIsNew ==
  ASSUME MapsTyped, HoldersKept,
         \/ \E s \in Sockets : sessions[s] = None /\ held[s] = None
         \/ \E c \in Ids : clients[c] = None
  PROVE  NewObject \in Objects \ InUse
<1>. DEFINE bySocket == [s \in Sockets |->
                           IF sessions[s] # None THEN sessions[s] ELSE held[s]]
            A == {bySocket[s] : s \in Sockets}
            B == {clients[c] : c \in Ids}
<1>1. InUse \subseteq A \cup B
  BY DEF InUse, HoldersKept, MapsTyped
<1>2. IsFiniteSet(A) /\ Cardinality(A) <= Cardinality(Sockets)
  <2>1. bySocket \in Surjection(Sockets, A)  BY DEF Surjection
  <2>. HIDE DEF bySocket, A
  <2>. QED  BY <2>1, FS_Surjection, ChatAssumption
<1>3. IsFiniteSet(B) /\ Cardinality(B) <= Cardinality(Ids)
  <2>1. IsFiniteSet(Ids)  BY ChatAssumption DEF Ids
  <2>2. clients \in Surjection(Ids, B)  BY DEF Surjection, MapsTyped
  <2>. HIDE DEF B
  <2>. QED  BY <2>1, <2>2, FS_Surjection
<1>4. None \in A \cup B
  OBVIOUS
<1>. HIDE DEF A, B
<1>5. /\ IsFiniteSet(A \cup B)
      /\ Cardinality(A \cup B) <= Cardinality(Sockets) + Cardinality(Ids)
  <2>1. /\ IsFiniteSet(A \cup B)
        /\ Cardinality(A \cup B) =
             Cardinality(A) + Cardinality(B) - Cardinality(A \cap B)
    BY <1>2, <1>3, FS_Union
  <2>2. Cardinality(A \cap B) \in Nat /\ Cardinality(A) \in Nat
        /\ Cardinality(B) \in Nat
    BY <1>2, <1>3, FS_Intersection, FS_CardinalityType
  <2>3. Cardinality(Sockets) \in Nat /\ Cardinality(Ids) \in Nat
    BY FS_CardinalityType, ChatAssumption DEF Ids
  <2>. QED  BY <1>2, <1>3, <2>1, <2>2, <2>3
<1>6. ~ (Objects \subseteq InUse)
  <2>. SUFFICES ASSUME Objects \subseteq InUse  PROVE FALSE
    OBVIOUS
  <2>1. Objects \cup {None} \in SUBSET (A \cup B)  BY <1>1, <1>4
  <2>2. Objects \in SUBSET (A \cup B)  BY <1>1
  <2>3. IsFiniteSet(Objects)  BY <1>5, <2>2, FS_Subset
  <2>4. Cardinality(Objects \cup {None}) = Cardinality(Objects) + 1
    <3>1. None \notin Objects  BY ChatAssumption
    <3>. QED  BY <2>3, <3>1, FS_AddElement
  <2>5. Cardinality(Objects \cup {None}) <= Cardinality(A \cup B)
    BY <1>5, <2>1, FS_Subset
  <2>6. /\ Cardinality(Objects) \in Nat /\ Cardinality(A \cup B) \in Nat
        /\ Cardinality(Sockets) \in Nat /\ Cardinality(Ids) \in Nat
    BY <1>5, <2>3, FS_CardinalityType, ChatAssumption DEF Ids
  <2>7. Cardinality(Objects) >= Cardinality(Sockets) + Cardinality(Ids)
    BY <2>3, ObjectsSuffice DEF Ids
  <2>. QED  BY <1>5, <2>4, <2>5, <2>6, <2>7
<1>. QED  BY <1>6 DEF NewObject

LEMMA BlankTyped == Blank \in SessionRecords
<1>1. <<>> \in Seq(Nat) /\ Len(<<>>) <= MaxMessages  BY ChatAssumption
<1>. QED  BY <1>1 DEF Blank, SessionRecords

\* What collection leaves.
LEMMA Collected ==
  ASSUME NEW objects \in [Objects -> SessionRecords], NEW activity, NEW old,
         NEW S, Ordered(activity, S), Listed' \subseteq S,
         InUse' \subseteq Objects,
         \A o \in InUse' : objects[o].socket # None,
         Collect(objects, activity, old)
  PROVE  /\ ObjectsTyped' /\ ObjectsKept'
         /\ \A o \in InUse' : obj'[o] = objects[o]
         /\ \A o \in Objects : obj'[o] \in {objects[o], Blank}
         /\ beside \cap InUse' \subseteq beside'
<1>. DEFINE used == InUse'
            seen == Listed'
<1>1. /\ obj' = [o \in Objects |-> IF o \in used THEN objects[o] ELSE Blank]
      /\ older' = activity \cap (seen \X seen)
      /\ idle' = old \cap seen
      /\ beside' = {o \in used : o \in beside \/ HasTwin(o, objects, used)}
  BY DEF Collect
<1>2. Ordered(older', seen)
  <2>. HIDE DEF seen
  <2>1. seen \in SUBSET S  BY DEF seen
  <2>. QED  BY <1>1, <2>1, RestrictedOrder
<1>3. Ordered(older, Listed)'  BY <1>2 DEF Ordered
<1>4. obj' \in [Objects -> SessionRecords]
  BY <1>1, BlankTyped
<1>5. \A o \in used \ beside' : ~ HasTwin(o, obj', used)
  <2>1. \A o \in used : obj'[o] = objects[o]  BY <1>1
  <2>. HIDE DEF used
  <2>. QED  BY <1>1, <2>1 DEF HasTwin
<1>6. \A o \in InUse' \ beside' : ~ HasTwin(o, obj, InUse)'
  BY <1>5 DEF HasTwin
<1>. QED
  BY <1>1, <1>3, <1>4, <1>6 DEF ObjectsTyped, ObjectsKept

-----------------------------------------------------------------------------
(* Binding *)

Histories == {m \in Seq(Nat) : Len(m) <= MaxMessages}

\* A socket is bound to its client's object, or to a new one that begins with
\* the end of the transcript or with nothing; an id the server mints is nobody's
\* yet.
LEMMA BindCases ==
  ASSUME ChatIInv, NEW s \in Sockets, NEW claim \in Ids, NEW valid, NEW broken,
         Bind(s, claim, valid, broken)
  PROVE  \E c \in Ids, o \in Objects, messages \in Histories :
           /\ BindTo(s, c, o, messages)
           /\ \/ clients[c] = o /\ messages = obj[o].messages
              \/ /\ clients[c] = None /\ o \notin InUse
                 /\ messages \in {<<>>, Latest(stored[c])}
<1>1. ASSUME NEW c \in Ids, clients[c] = None
      PROVE  NewObject \in Objects \ InUse
  BY <1>1, NewObjectIsNew DEF ChatIInv
<1>2. <<>> \in Histories  BY ChatAssumption DEF Histories
<1>3. \A c \in Ids : Latest(stored[c]) \in Histories
  <2>1. \A c \in Ids : stored[c] \in Seq(Nat)  BY DEF ChatIInv, RestTyped
  <2>. QED  BY <2>1, LatestTyped DEF Histories
<1>. DEFINE refused == NeedsToken(claim, broken) /\ ~ valid
<1>4. CASE refused
  <2>1. PICK c \in Minted \ issued : BindTo(s, c, NewObject, <<>>)
    BY <1>4 DEF Bind
  <2>2. c \in Ids /\ c # None  BY ChatAssumption DEF Ids
  <2>3. clients[c] = None
    <3>. SUFFICES ASSUME clients[c] # None  PROVE FALSE
      OBVIOUS
    <3>1. clients[c] \in Objects  BY <2>2 DEF ChatIInv, MapsTyped
    <3>2. obj[clients[c]].client = c
      BY <2>2 DEF ChatIInv, ClientsKept, Registered
    <3>. QED  BY <2>2, <3>1, <3>2 DEF ChatIInv, ClientsKept
  <2>. QED  BY <1>1, <1>2, <2>1, <2>2, <2>3
<1>5. CASE ~ refused /\ clients[claim] # None
  <2>. DEFINE o == clients[claim]
  <2>1. BindTo(s, claim, o, obj[o].messages)  BY <1>5 DEF Bind
  <2>2. o \in Objects  BY <1>5 DEF ChatIInv, MapsTyped
  <2>3. obj[o].messages \in Histories
    BY <2>2 DEF ChatIInv, ObjectsTyped, SessionRecords, Histories
  <2>. QED  BY <2>1, <2>2, <2>3
<1>6. CASE ~ refused /\ clients[claim] = None
  <2>. DEFINE m == IF broken THEN <<>> ELSE Latest(stored[claim])
  <2>1. BindTo(s, claim, NewObject, m)  BY <1>6 DEF Bind
  <2>2. m \in Histories /\ m \in {<<>>, Latest(stored[claim])}
    BY <1>2, <1>3
  <2>3. NewObject \in Objects \ InUse  BY <1>1, <1>6
  <2>. HIDE DEF m
  <2>. QED  BY <1>6, <2>1, <2>2, <2>3
<1>. QED  BY <1>4, <1>5, <1>6

\* What binding socket s and client c to object o leaves.
BindLeaves(s, c, o, messages) ==
  /\ MapsTyped' /\ ObjectsTyped' /\ ObjectsKept' /\ ClientsKept'
  /\ HoldersKept' /\ Bounded'
  /\ issued' = issued \cup {c} /\ beside \cap InUse' \subseteq beside'
  /\ sessions' = [sessions EXCEPT ![s] = o]
  /\ held' = [held EXCEPT ![s] = o]
  /\ clients'[c] = o
  /\ obj'[o] = [socket |-> s, client |-> c, messages |-> messages]
  /\ \A p \in InUse' \ {o} : p \in InUse /\ obj'[p] = obj[p]
  /\ \A d \in Ids \ {c} :
       /\ clients'[d] # o /\ clients'[d] \in {clients[d], None}
       /\ clients[d] # None /\ sessions'[obj[clients[d]].socket] # None
            => clients'[d] = clients[d]

LEMMA BindStep ==
  ASSUME ChatIInv, NEW s \in Sockets, NEW c \in Ids, NEW o \in Objects,
         NEW messages \in Histories, doing[s] = "none",
         BindTo(s, c, o, messages),
         clients[c] = o \/ (clients[c] = None /\ o \notin InUse)
  PROVE  BindLeaves(s, c, o, messages)
<1>. DEFINE bound == [socket |-> s, client |-> c, messages |-> messages]
            objects == [obj EXCEPT ![o] = bound]
            old == idle \ {o}
            cs == [clients EXCEPT ![c] = o]
            ss == [sessions EXCEPT ![s] = o]
            after == Evicted(ss, cs, objects, Touched(o), old)
            S == Listed \cup {o}
            U == InUse \cup {o}
<1>1. /\ sessions' = ss /\ clients' = after
      /\ held' = [held EXCEPT ![s] = o]
      /\ Collect(objects, Touched(o), old)
      /\ issued' = issued \cup {c}
  BY DEF BindTo
<1>2. /\ sessions \in [Sockets -> Objects \cup {None}]
      /\ clients \in [Ids -> Objects \cup {None}]
      /\ held \in [Sockets -> Objects \cup {None}]
      /\ None \notin Objects /\ None \notin Sockets /\ None \notin Ids
      /\ obj \in [Objects -> SessionRecords]
  BY ChatAssumption DEF ChatIInv, MapsTyped, ObjectsTyped, Ids
<1>3. /\ \A p \in Sockets : sessions[p] # None => sessions[p] \in InUse
      /\ \A p \in Sockets : held[p] # None => held[p] \in InUse
      /\ \A d \in Ids : clients[d] # None =>
           clients[d] \in InUse /\ clients[d] \in Listed
  BY DEF InUse, Listed
<1>4. /\ objects \in [Objects -> SessionRecords]
      /\ objects[o] = bound
      /\ \A p \in Objects \ {o} : objects[p] = obj[p]
  BY <1>2 DEF SessionRecords, Histories
<1>5. cs \in [Ids -> Objects \cup {None}]  BY <1>2
<1>6. /\ ss[s] = o /\ ss \in [Sockets -> Objects \cup {None}]
      /\ \A p \in Sockets \ {s} : ss[p] = sessions[p]
  BY <1>2
<1>7. cs[c] = o /\ \A d \in Ids \ {c} : cs[d] = clients[d]  BY <1>2
<1>8. \A d \in Ids \ {c} : clients[d] # o
  <2>. SUFFICES ASSUME NEW d \in Ids \ {c}, clients[d] = o  PROVE FALSE
    OBVIOUS
  <2>1. o \in InUse  BY <1>2, <1>3
  <2>2. obj[o].client = d
    BY <1>2 DEF ChatIInv, ClientsKept, Registered
  <2>3. clients[c] = o  BY <2>1
  <2>4. obj[o].client = c
    BY <1>2, <2>3 DEF ChatIInv, ClientsKept, Registered
  <2>. QED  BY <2>2, <2>4
<1>. HIDE DEF objects, cs, ss
<1>9. /\ after \in [Ids -> Objects \cup {None}]
      /\ \A d \in Ids : after[d] \in {cs[d], None}
      /\ \A d \in Ids : IsLive(cs[d], ss, objects) => after[d] = cs[d]
  BY <1>5, EvictionSpares
<1>10. Ordered(Touched(o), S)
  BY TouchedOrder DEF ChatIInv, ObjectsTyped
<1>11. \/ Cardinality(Registered(after)) <= Cap
       \/ \A d \in Registered(after) : IsLive(after[d], ss, objects)
  <2>1. \A d \in Ids : cs[d] # None => cs[d] \in S
    BY <1>3, <1>7
  <2>. HIDE DEF S, after
  <2>2. after = Evicted(ss, cs, objects, Touched(o), old)  BY DEF after
  <2>. QED  BY <1>5, <1>10, <2>1, <2>2, EvictionBounds
<1>12. IsLive(o, ss, objects)
  BY <1>2, <1>4, <1>6 DEF IsLive
<1>13. after[c] = o  BY <1>7, <1>9, <1>12
<1>. HIDE DEF after
<1>14. MapsTyped'
  BY <1>1, <1>2, <1>6, <1>9 DEF MapsTyped
<1>15. /\ InUse' \subseteq U /\ InUse' \subseteq Objects
       /\ Listed' \subseteq S
  <2>1. \A d \in Ids : clients'[d] # None => clients'[d] \in U \cap S
    BY <1>1, <1>3, <1>7, <1>9
  <2>2. \A p \in Sockets : sessions'[p] # None => sessions'[p] \in U
    BY <1>1, <1>3, <1>6
  <2>3. \A p \in Sockets : held'[p] # None => held'[p] \in U
    BY <1>1, <1>2, <1>3
  <2>4. InUse' \subseteq U /\ Listed' \subseteq S
    <3>. HIDE DEF S, U
    <3>. QED  BY <2>1, <2>2, <2>3 DEF InUse, Listed
  <2>. QED  BY <1>14, <2>4, UsedAreObjects DEF MapsTyped, InUse
<1>16. \A p \in InUse' : objects[p].socket # None
  <2>. SUFFICES ASSUME NEW p \in InUse'  PROVE objects[p].socket # None
    OBVIOUS
  <2>1. CASE p = o  BY <1>2, <1>4, <2>1
  <2>2. CASE p # o
    <3>1. p \in InUse /\ p \in Objects  BY <1>15, <2>2
    <3>. QED  BY <1>4, <2>2, <3>1 DEF ChatIInv, ObjectsKept
  <2>. QED  BY <2>1, <2>2
<1>17. /\ ObjectsTyped' /\ ObjectsKept'
       /\ \A p \in InUse' : obj'[p] = objects[p]
       /\ \A p \in Objects : obj'[p] \in {objects[p], Blank}
       /\ beside \cap InUse' \subseteq beside'
  <2>. HIDE DEF S, U, old
  <2>. QED  BY <1>1, <1>4, <1>10, <1>15, <1>16, Collected
<1>18. \A d \in Ids : clients'[d] # None => clients'[d] \in InUse'
  BY DEF InUse
<1>19. o \in InUse'  BY <1>1, <1>2, <1>13, <1>18
<1>20. ClientsKept'
  <2>1. ASSUME NEW d \in Ids, clients'[d] # None
        PROVE  obj'[clients'[d]].client = d
    <3>1. CASE d = c
      BY <1>1, <1>4, <1>13, <1>17, <1>19, <3>1
    <3>2. CASE d # c
      <4>1. clients'[d] = clients[d] /\ clients[d] # o
        BY <1>1, <1>7, <1>8, <1>9, <2>1, <3>2
      <4>2. obj[clients[d]].client = d
        BY <2>1, <4>1 DEF ChatIInv, ClientsKept, Registered
      <4>3. clients[d] \in Objects /\ clients'[d] \in InUse'
        BY <1>2, <1>18, <2>1, <4>1
      <4>. QED  BY <1>4, <1>17, <4>1, <4>2, <4>3
    <3>. QED  BY <3>1, <3>2
  <2>2. ASSUME NEW p \in Objects, obj'[p].client # None
        PROVE  obj'[p].client \in issued'
    <3>1. obj'[p] = objects[p]  BY <1>17, <2>2 DEF Blank
    <3>2. CASE p = o  BY <1>1, <1>4, <3>1, <3>2
    <3>3. CASE p # o
      BY <1>1, <1>4, <2>2, <3>1, <3>3 DEF ChatIInv, ClientsKept
    <3>. QED  BY <3>2, <3>3
  <2>. QED  BY <2>1, <2>2 DEF ClientsKept, Registered
<1>21. HoldersKept'
  BY <1>1, <1>2, <1>6 DEF ChatIInv, HoldersKept
<1>22. Bounded'
  <2>1. \A d \in Registered(clients') : clients'[d] \in InUse'
    BY <1>18 DEF Registered
  <2>2. \A d \in Registered(clients') :
          IsLive(clients'[d], ss, objects) = IsLive(clients'[d], sessions', obj')
    BY <1>1, <1>17, <2>1 DEF IsLive
  <2>. QED  BY <1>1, <1>11, <2>2 DEF Bounded, Registered
<1>23. \A p \in InUse' \ {o} : p \in InUse /\ obj'[p] = obj[p]
  BY <1>4, <1>15, <1>17 DEF U
<1>24. \A d \in Ids \ {c} :
         /\ clients'[d] # o /\ clients'[d] \in {clients[d], None}
         /\ clients[d] # None /\ sessions'[obj[clients[d]].socket] # None
              => clients'[d] = clients[d]
  <2>. SUFFICES ASSUME NEW d \in Ids \ {c}
                PROVE  /\ clients'[d] # o /\ clients'[d] \in {clients[d], None}
                       /\ clients[d] # None
                            /\ sessions'[obj[clients[d]].socket] # None
                            => clients'[d] = clients[d]
    OBVIOUS
  <2>1. cs[d] = clients[d] /\ clients[d] # o  BY <1>7, <1>8
  <2>2. clients[d] # None => objects[clients[d]] = obj[clients[d]]
    BY <1>2, <1>4, <2>1
  <2>. QED  BY <1>1, <1>2, <1>9, <2>1, <2>2 DEF IsLive
<1>. QED
  BY <1>1, <1>4, <1>13, <1>14, <1>17, <1>19, <1>20, <1>21, <1>22, <1>23,
     <1>24 DEF BindLeaves, ss

-----------------------------------------------------------------------------
(* Finding a session, working on it, sweeping *)

\* What looking up the session of socket s leaves: object o.
GetLeaves(s, o) ==
  /\ MapsTyped' /\ ObjectsTyped' /\ ObjectsKept' /\ ClientsKept'
  /\ HoldersKept' /\ Bounded'
  /\ issued' = issued /\ clients' = clients
  /\ beside \cap InUse' \subseteq beside'
  /\ sessions' = [sessions EXCEPT ![s] = o]
  /\ held' = [held EXCEPT ![s] = o]
  /\ \A p \in InUse : p \in InUse' /\ obj'[p] = obj[p]
  /\ \/ sessions[s] = o
     \/ /\ sessions[s] = None /\ o \notin InUse
        /\ obj'[o].client = None /\ obj'[o].messages = <<>>

LEMMA GetStep ==
  ASSUME ChatIInv, NEW s \in Sockets, doing[s] = "none", GetSession(s)
  PROVE  \E o \in Objects : GetLeaves(s, o)
<1>1. PICK o \in Objects :
        /\ \/ sessions[s] = o
           \/ sessions[s] = None /\ o \notin InUse
        /\ sessions' = [sessions EXCEPT ![s] = o]
        /\ held' = [held EXCEPT ![s] = o]
        /\ clients' = clients /\ issued' = issued
        /\ Collect(IF sessions[s] # None THEN obj
                   ELSE [obj EXCEPT ![o].socket = s],
                   Touched(o), idle \ {o})
  <2>1. sessions[s] = None => NewObject \in Objects \ InUse
    BY NewObjectIsNew DEF ChatIInv, RestTyped
  <2>2. sessions[s] # None => sessions[s] \in Objects
    BY DEF ChatIInv, MapsTyped
  <2>3. CASE sessions[s] # None  BY <2>2, <2>3 DEF GetSession
  <2>4. CASE sessions[s] = None  BY <2>1, <2>4 DEF GetSession
  <2>. QED  BY <2>3, <2>4
<1>. DEFINE objects == IF sessions[s] # None THEN obj
                       ELSE [obj EXCEPT ![o].socket = s]
            S == Listed \cup {o}
            U == InUse \cup {o}
<1>2. /\ sessions \in [Sockets -> Objects \cup {None}]
      /\ clients \in [Ids -> Objects \cup {None}]
      /\ held \in [Sockets -> Objects \cup {None}]
      /\ None \notin Objects /\ None \notin Sockets /\ None \notin Ids
      /\ obj \in [Objects -> SessionRecords]
      /\ held[s] = None
  BY ChatAssumption
     DEF ChatIInv, MapsTyped, ObjectsTyped, RestTyped, Ids
<1>3. /\ \A p \in Sockets : sessions[p] # None => sessions[p] \in InUse
      /\ \A p \in Sockets : held[p] # None => held[p] \in InUse
      /\ \A d \in Ids : clients[d] # None => clients[d] \in InUse
  BY DEF InUse
<1>4. o \notin InUse => obj[o] = Blank
  BY DEF ChatIInv, ObjectsKept
<1>5. /\ objects \in [Objects -> SessionRecords]
      /\ \A p \in Objects \ {o} : objects[p] = obj[p]
      /\ objects[o].client = obj[o].client
      /\ objects[o].messages = obj[o].messages
      /\ o \in InUse => objects[o] = obj[o]
      /\ objects[o].socket # None
  <2>1. CASE sessions[s] # None
    <3>1. o \in InUse  BY <1>1, <1>2, <1>3, <2>1
    <3>2. objects = obj  BY <2>1
    <3>. HIDE DEF objects
    <3>. QED  BY <1>2, <3>1, <3>2 DEF ChatIInv, ObjectsKept
  <2>2. CASE sessions[s] = None
    <3>1. objects = [obj EXCEPT ![o].socket = s]  BY <2>2
    <3>2. o \notin InUse  BY <1>1, <1>2, <2>2
    <3>3. PICK b \in SessionRecords : b = [obj[o] EXCEPT !.socket = s]
      <4>1. obj[o] \in SessionRecords  BY <1>2
      <4>. QED  BY <4>1 DEF SessionRecords
    <3>4. /\ b.socket = s /\ b.client = obj[o].client
          /\ b.messages = obj[o].messages
      <4>1. obj[o] \in SessionRecords  BY <1>2
      <4>. QED  BY <3>3, <4>1 DEF SessionRecords
    <3>5. objects = [obj EXCEPT ![o] = b]  BY <3>1, <3>3
    <3>. HIDE DEF objects
    <3>. QED  BY <1>2, <3>2, <3>4, <3>5
  <2>. QED  BY <2>1, <2>2
<1>6. Collect(objects, Touched(o), idle \ {o})  BY <1>1
<1>. HIDE DEF objects
<1>7. MapsTyped'  BY <1>1, <1>2 DEF MapsTyped
<1>8. /\ InUse' \subseteq U /\ InUse' \subseteq Objects
      /\ Listed' \subseteq S
  <2>1. InUse' \subseteq U
    BY <1>1, <1>2, <1>3 DEF InUse
  <2>2. Listed' \subseteq S  BY <1>1 DEF Listed
  <2>. QED  BY <1>7, <2>1, <2>2 DEF MapsTyped, InUse
<1>9. InUse \subseteq InUse' /\ o \in InUse'
  <2>1. \A p \in Sockets : sessions[p] # None => sessions'[p] = sessions[p]
    BY <1>1, <1>2
  <2>2. \A p \in Sockets : held[p] # None => held'[p] = held[p]
    BY <1>1, <1>2
  <2>3. sessions'[s] = o  BY <1>1, <1>2
  <2>. QED  BY <1>1, <1>2, <2>1, <2>2, <2>3 DEF InUse
<1>10. \A p \in InUse' : objects[p].socket # None
  <2>1. \A p \in InUse' \ {o} : p \in InUse /\ p \in Objects  BY <1>8
  <2>. QED  BY <1>5, <2>1 DEF ChatIInv, ObjectsKept
<1>11. Ordered(Touched(o), S)
  BY TouchedOrder DEF ChatIInv, ObjectsTyped
<1>12. /\ ObjectsTyped' /\ ObjectsKept'
       /\ \A p \in InUse' : obj'[p] = objects[p]
       /\ \A p \in Objects : obj'[p] \in {objects[p], Blank}
       /\ beside \cap InUse' \subseteq beside'
  <2>. HIDE DEF S, U
  <2>. QED  BY <1>5, <1>6, <1>8, <1>10, <1>11, Collected
<1>13. \A p \in InUse : obj'[p] = obj[p]
  BY <1>5, <1>8, <1>9, <1>12
<1>14. ClientsKept'
  <2>1. ASSUME NEW d \in Ids, clients'[d] # None
        PROVE  obj'[clients'[d]].client = d
    BY <1>1, <1>3, <1>13, <2>1 DEF ChatIInv, ClientsKept, Registered
  <2>2. ASSUME NEW p \in Objects, obj'[p].client # None
        PROVE  obj'[p].client \in issued'
    <3>1. obj'[p].client = obj[p].client
      BY <1>5, <1>12, <2>2 DEF Blank
    <3>. QED  BY <1>1, <2>2, <3>1 DEF ChatIInv, ClientsKept
  <2>. QED  BY <2>1, <2>2 DEF ClientsKept, Registered
<1>15. HoldersKept'
  BY <1>1, <1>2 DEF ChatIInv, HoldersKept
<1>16. Bounded'
  <2>1. \A d \in Registered(clients) :
          IsLive(clients[d], sessions, obj)
            => IsLive(clients[d], sessions', obj')
    <3>. SUFFICES ASSUME NEW d \in Ids, clients[d] # None,
                         IsLive(clients[d], sessions, obj)
                  PROVE  IsLive(clients[d], sessions', obj')
      BY DEF Registered
    <3>1. obj'[clients[d]] = obj[clients[d]] /\ clients[d] \in InUse
      BY <1>3, <1>13
    <3>2. obj[clients[d]].socket \in Sockets
      <4>1. clients[d] \in Objects  BY <1>2
      <4>. QED
        BY <1>2, <3>1, <4>1 DEF ChatIInv, ObjectsKept, SessionRecords
    <3>. QED  BY <1>1, <1>2, <3>1, <3>2 DEF IsLive
  <2>. QED  BY <1>1, <2>1 DEF ChatIInv, Bounded
<1>17. \/ sessions[s] = o
       \/ /\ sessions[s] = None /\ o \notin InUse
          /\ obj'[o].client = None /\ obj'[o].messages = <<>>
  <2>1. o \notin InUse =>
          objects[o].client = None /\ objects[o].messages = <<>>
    BY <1>4, <1>5 DEF Blank
  <2>. QED  BY <1>1, <1>9, <1>12, <2>1
<1>18. GetLeaves(s, o)
  BY <1>1, <1>7, <1>9, <1>12, <1>13, <1>14, <1>15, <1>16, <1>17
     DEF GetLeaves
<1>. QED  BY <1>18

\* What a handler that works on its object, or lets it go, leaves: it changes
\* no map and nothing but messages.
WorkLeaves(objects) ==
  /\ MapsTyped' /\ ObjectsTyped' /\ ObjectsKept' /\ ClientsKept'
  /\ HoldersKept' /\ Bounded' /\ beside \cap InUse' \subseteq beside'
  /\ \A p \in InUse' : p \in InUse /\ obj'[p] = objects[p]

LEMMA WorkStep ==
  ASSUME ChatIInv, NEW objects \in [Objects -> SessionRecords],
         \A p \in Objects : /\ objects[p].socket = obj[p].socket
                            /\ objects[p].client = obj[p].client,
         sessions' = sessions, clients' = clients, issued' = issued,
         held' \in [Sockets -> Objects \cup {None}],
         \A p \in Sockets : held'[p] \in {held[p], None},
         NEW activity, NEW old, NEW S, Ordered(activity, S),
         Listed \subseteq S, Collect(objects, activity, old)
  PROVE  WorkLeaves(objects)
<1>1. MapsTyped'  BY DEF ChatIInv, MapsTyped
<1>2. InUse' \subseteq InUse /\ InUse' \subseteq Objects
  <2>1. InUse' \subseteq InUse  BY DEF InUse
  <2>. QED  BY <2>1, UsedAreObjects DEF ChatIInv
<1>3. \A p \in InUse' : objects[p].socket # None
  BY <1>2 DEF ChatIInv, ObjectsKept
<1>4. /\ ObjectsTyped' /\ ObjectsKept'
      /\ \A p \in InUse' : obj'[p] = objects[p]
      /\ \A p \in Objects : obj'[p] \in {objects[p], Blank}
      /\ beside \cap InUse' \subseteq beside'
  <2>1. Listed' \subseteq S  BY DEF Listed
  <2>. QED  BY <1>2, <1>3, <2>1, Collected
<1>5. \A d \in Ids : clients[d] # None =>
        clients[d] \in Objects /\ obj'[clients[d]] = objects[clients[d]]
  <2>1. \A d \in Ids : clients'[d] # None => clients'[d] \in InUse'
    BY DEF InUse
  <2>. QED  BY <1>2, <1>4, <2>1
<1>6. ClientsKept'
  <2>1. ASSUME NEW p \in Objects, obj'[p].client # None
        PROVE  obj'[p].client \in issued'
    <3>1. obj'[p].client = obj[p].client  BY <1>4, <2>1 DEF Blank
    <3>. QED  BY <2>1, <3>1 DEF ChatIInv, ClientsKept
  <2>. QED
    BY <1>5, <2>1 DEF ChatIInv, ClientsKept, Registered
<1>7. HoldersKept'  BY DEF ChatIInv, HoldersKept
<1>8. Bounded'
  <2>1. \A d \in Registered(clients) :
          IsLive(clients[d], sessions, obj)
            => IsLive(clients[d], sessions', obj')
    BY <1>5 DEF IsLive, Registered
  <2>. QED  BY <2>1 DEF ChatIInv, Bounded
<1>. QED
  BY <1>1, <1>2, <1>4, <1>6, <1>7, <1>8 DEF WorkLeaves

\* What a sweep leaves, with a socket taken off the map before it or not.
SweepLeaves ==
  /\ MapsTyped' /\ ObjectsTyped' /\ ObjectsKept' /\ ClientsKept'
  /\ HoldersKept' /\ Bounded' /\ beside \cap InUse' \subseteq beside'
  /\ \A p \in InUse' : p \in InUse /\ obj'[p] = obj[p]
  /\ \A d \in Ids : /\ clients'[d] \in {clients[d], None}
                    /\ clients[d] # None
                         /\ sessions'[obj[clients[d]].socket] # None
                         => clients'[d] = clients[d]

LEMMA SweepStep ==
  ASSUME ChatIInv,
         sessions' \in [Sockets -> Objects \cup {None}],
         \A p \in Sockets : sessions'[p] \in {sessions[p], None},
         clients' = Evicted(sessions', clients, obj, older, idle),
         held' = held, issued' = issued, Collect(obj, older, idle)
  PROVE  SweepLeaves
<1>1. /\ clients \in [Ids -> Objects \cup {None}]
      /\ obj \in [Objects -> SessionRecords]
      /\ Ordered(older, Listed)
  BY DEF ChatIInv, MapsTyped, ObjectsTyped
<1>2. /\ clients' \in [Ids -> Objects \cup {None}]
      /\ \A d \in Ids : clients'[d] \in {clients[d], None}
      /\ \A d \in Ids :
           IsLive(clients[d], sessions', obj) => clients'[d] = clients[d]
  BY <1>1, EvictionSpares
<1>3. \/ Cardinality(Registered(clients')) <= Cap
      \/ \A d \in Registered(clients') : IsLive(clients'[d], sessions', obj)
  <2>1. \A d \in Ids : clients[d] # None => clients[d] \in Listed
    BY DEF Listed
  <2>. QED  BY <1>1, <2>1, EvictionBounds
<1>4. MapsTyped'  BY <1>2 DEF ChatIInv, MapsTyped
<1>5. InUse' \subseteq InUse /\ InUse' \subseteq Objects
  <2>1. InUse' \subseteq InUse  BY <1>2 DEF InUse
  <2>. QED  BY <2>1, UsedAreObjects DEF ChatIInv
<1>13. Listed' \subseteq Listed  BY <1>2 DEF Listed
<1>6. \A p \in InUse' : obj[p].socket # None
  BY <1>5 DEF ChatIInv, ObjectsKept
<1>7. /\ ObjectsTyped' /\ ObjectsKept'
      /\ \A p \in InUse' : obj'[p] = obj[p]
      /\ \A p \in Objects : obj'[p] \in {obj[p], Blank}
      /\ beside \cap InUse' \subseteq beside'
  BY <1>1, <1>5, <1>6, <1>13, Collected
<1>8. \A d \in Ids : clients'[d] # None => clients'[d] \in InUse'
  BY DEF InUse
<1>9. ClientsKept'
  <2>1. ASSUME NEW p \in Objects, obj'[p].client # None
        PROVE  obj'[p].client \in issued'
    <3>1. obj'[p].client = obj[p].client  BY <1>7, <2>1 DEF Blank
    <3>. QED  BY <2>1, <3>1 DEF ChatIInv, ClientsKept
  <2>2. ASSUME NEW d \in Ids, clients'[d] # None
        PROVE  obj'[clients'[d]].client = d
    BY <1>2, <1>7, <1>8, <2>2 DEF ChatIInv, ClientsKept, Registered
  <2>. QED  BY <2>1, <2>2 DEF ClientsKept, Registered
<1>10. HoldersKept'  BY DEF ChatIInv, HoldersKept
<1>11. Bounded'
  <2>1. \A d \in Registered(clients') :
          IsLive(clients'[d], sessions', obj)
            = IsLive(clients'[d], sessions', obj')
    BY <1>7, <1>8 DEF IsLive, Registered
  <2>. QED  BY <1>3, <2>1 DEF Bounded, Registered
<1>. QED
  BY <1>2, <1>4, <1>5, <1>7, <1>9, <1>10, <1>11 DEF SweepLeaves, IsLive

-----------------------------------------------------------------------------
(* The handlers *)

\* A message more or none: only messages change.
LEMMA OnlyMessages ==
  ASSUME ObjectsTyped, NEW o \in Objects, NEW m \in Histories
  PROVE  LET objects == [obj EXCEPT ![o].messages = m] IN
         /\ objects \in [Objects -> SessionRecords]
         /\ \A p \in Objects : /\ objects[p].socket = obj[p].socket
                               /\ objects[p].client = obj[p].client
                               /\ p # o => objects[p] = obj[p]
         /\ objects[o].messages = m
<1>1. obj \in [Objects -> SessionRecords] /\ obj[o] \in SessionRecords
  BY DEF ObjectsTyped
<1>2. PICK b \in SessionRecords : b = [obj[o] EXCEPT !.messages = m]
  BY <1>1 DEF SessionRecords, Histories
<1>3. b.messages = m /\ b.socket = obj[o].socket /\ b.client = obj[o].client
  BY <1>1, <1>2 DEF SessionRecords
<1>4. [obj EXCEPT ![o].messages = m] = [obj EXCEPT ![o] = b]
  BY <1>2
<1>. QED  BY <1>1, <1>3, <1>4

\* The count of failures stays within its bound.
LEMMA FaultsCounted ==
  ASSUME faults \in 0..MaxFaults, NEW broken \in BOOLEAN, NEW queries,
         Fails(broken, queries)
  PROVE  faults' \in 0..MaxFaults
BY ChatAssumption DEF Fails

\* connect, chat_connect: what is bound to what.
LEMMA ConnectShape ==
  ASSUME ChatIInv, NEW s \in Sockets, NEW claim \in Ids,
         NEW valid \in BOOLEAN, NEW broken \in BOOLEAN,
         ConnectClient(s, claim, valid, broken)
  PROVE  \E c \in Ids, o \in Objects, messages \in Histories :
           /\ BindLeaves(s, c, o, messages)
           /\ \/ clients[c] = o /\ messages = obj[o].messages
              \/ /\ clients[c] = None /\ o \notin InUse
                 /\ messages \in {<<>>, Latest(stored[c])}
<1>1. Bind(s, claim, valid, broken) /\ doing[s] = "none"  BY DEF ConnectClient
<1>2. PICK c \in Ids, o \in Objects, messages \in Histories :
        /\ BindTo(s, c, o, messages)
        /\ \/ clients[c] = o /\ messages = obj[o].messages
           \/ /\ clients[c] = None /\ o \notin InUse
              /\ messages \in {<<>>, Latest(stored[c])}
  BY <1>1, BindCases
<1>3. BindLeaves(s, c, o, messages)  BY <1>1, <1>2, BindStep
<1>. QED  BY <1>2, <1>3

LEMMA ConnectStep ==
  ASSUME ChatIInv, NEW s \in Sockets, NEW claim \in Ids,
         NEW valid \in BOOLEAN, NEW broken \in BOOLEAN,
         ConnectClient(s, claim, valid, broken)
  PROVE  ChatIInv'
<1>1. PICK c \in Ids, o \in Objects, messages \in Histories :
        BindLeaves(s, c, o, messages)
  BY ConnectShape
<1>2. /\ connected' \subseteq Sockets /\ faults' \in 0..MaxFaults
      /\ doing' = [doing EXCEPT ![s] = "greet"]
      /\ UNCHANGED <<stored, added, unsaved>>
  BY FaultsCounted DEF ConnectClient, Start, ChatIInv, RestTyped
<1>3. held' = [held EXCEPT ![s] = o] /\ issued' = issued \cup {c}
  BY <1>1 DEF BindLeaves
<1>4. RestTyped'
  BY <1>2, <1>3, ChatAssumption DEF ChatIInv, MapsTyped, RestTyped, Jobs
<1>. QED  BY <1>1, <1>4 DEF BindLeaves, ChatIInv

\* A socket that connects without an id, or whose event is handled.
Looks(s) ==
  \/ ConnectAnonymously(s)
  \/ \E job \in {"user", "clear"} : HandleEvent(s, job)

LEMMA LookStep ==
  ASSUME ChatIInv, NEW s \in Sockets, Looks(s)
  PROVE  ChatIInv'
<1>1. PICK o \in Objects : GetLeaves(s, o)
  BY GetStep DEF Looks, ConnectAnonymously, HandleEvent
<1>2. /\ connected' \subseteq Sockets
      /\ \E job \in {"greet", "user", "clear"} :
           doing' = [doing EXCEPT ![s] = job]
      /\ UNCHANGED <<stored, added, faults, unsaved>>
  BY DEF Looks, ConnectAnonymously, HandleEvent, Start, ChatIInv, RestTyped
<1>3. held' = [held EXCEPT ![s] = o] /\ issued' = issued
  BY <1>1 DEF GetLeaves
<1>4. RestTyped'
  BY <1>2, <1>3, ChatAssumption DEF ChatIInv, MapsTyped, RestTyped, Jobs
<1>. QED  BY <1>1, <1>4 DEF GetLeaves, ChatIInv

\* The steps of a handler that has its object.
Working(s) ==
  \/ ReadHistory(s)
  \/ \E broken \in BOOLEAN : Clear(s, broken) \/ AddMessage(s, broken)

\* What the handler of socket s that works on its object does to the objects.
Works(s, objects) ==
  \/ /\ ReadHistory(s) /\ objects = obj /\ stored' = stored
     /\ UNCHANGED <<added, unsaved>>
  \/ /\ \E broken \in BOOLEAN : Clear(s, broken)
     /\ objects = [obj EXCEPT ![held[s]].messages = <<>>]
  \/ /\ \E broken \in BOOLEAN : AddMessage(s, broken)
     /\ objects = [obj EXCEPT ![held[s]].messages =
                     Latest(Append(obj[held[s]].messages, added + 1))]

\* Nobody's owner changes, nor the messages of any other object.
KeepsOwners(s, objects) ==
  \A p \in Objects : /\ objects[p].socket = obj[p].socket
                     /\ objects[p].client = obj[p].client
                     /\ p # held[s] => objects[p] = obj[p]

LEMMA WorkShape ==
  ASSUME ChatIInv, NEW s \in Sockets, Working(s)
  PROVE  \E objects \in [Objects -> SessionRecords] :
           /\ Works(s, objects) /\ WorkLeaves(objects)
           /\ KeepsOwners(s, objects) /\ held[s] \in Objects
           /\ \A p \in Sockets : held'[p] \in {held[p], None}
<1>. DEFINE Goal == \E objects \in [Objects -> SessionRecords] :
                      /\ Works(s, objects) /\ WorkLeaves(objects)
                      /\ KeepsOwners(s, objects) /\ held[s] \in Objects
                      /\ \A p \in Sockets : held'[p] \in {held[p], None}
<1>1. /\ sessions' = sessions /\ clients' = clients /\ issued' = issued
  BY DEF Working, ReadHistory, Clear, AddMessage
<1>2. /\ held \in [Sockets -> Objects \cup {None}]
      /\ held[s] # None /\ held[s] \in InUse /\ held[s] \in Objects
      /\ Ordered(older, Listed)
      /\ obj \in [Objects -> SessionRecords]
  <2>1. doing[s] # "none"
    BY DEF Working, ReadHistory, Clear, AddMessage
  <2>. QED
    BY <2>1 DEF ChatIInv, MapsTyped, RestTyped, ObjectsTyped, InUse
<1>3. /\ held' \in [Sockets -> Objects \cup {None}]
      /\ \A p \in Sockets : held'[p] \in {held[p], None}
  BY <1>2 DEF Working, ReadHistory, Clear, AddMessage, Start, Finish
<1>4. CASE ReadHistory(s)
  <2>1. /\ Collect(obj, older, idle) /\ stored' = stored
        /\ UNCHANGED <<added, unsaved>>
    BY <1>4 DEF ReadHistory
  <2>2. WorkLeaves(obj)  BY <1>1, <1>2, <1>3, <2>1, WorkStep
  <2>. QED  BY <1>1, <1>2, <1>3, <1>4, <2>1, <2>2 DEF Works, KeepsOwners
<1>5. ASSUME NEW broken \in BOOLEAN, Clear(s, broken)
      PROVE  Goal
  <2>. DEFINE objects == [obj EXCEPT ![held[s]].messages = <<>>]
  <2>1. Collect(objects, older, idle)  BY <1>5 DEF Clear
  <2>2. <<>> \in Histories  BY ChatAssumption DEF Histories
  <2>3. /\ objects \in [Objects -> SessionRecords]
        /\ \A p \in Objects : /\ objects[p].socket = obj[p].socket
                              /\ objects[p].client = obj[p].client
        /\ KeepsOwners(s, objects)
    BY <1>2, <2>2, OnlyMessages DEF ChatIInv, KeepsOwners
  <2>4. Works(s, objects)  BY <1>1, <1>5 DEF Works
  <2>. HIDE DEF objects
  <2>5. WorkLeaves(objects)
    BY <1>1, <1>2, <1>3, <2>1, <2>3, WorkStep
  <2>. QED  BY <1>2, <1>3, <2>3, <2>4, <2>5
<1>6. ASSUME NEW broken \in BOOLEAN, AddMessage(s, broken)
      PROVE  Goal
  <2>. DEFINE m == Latest(Append(obj[held[s]].messages, added + 1))
              objects == [obj EXCEPT ![held[s]].messages = m]
  <2>1. Collect(objects, Touched(held[s]), idle \ {held[s]})
    BY <1>6 DEF AddMessage
  <2>2. m \in Histories
    <3>1. obj[held[s]].messages \in Seq(Nat)
      BY <1>2 DEF SessionRecords
    <3>2. added + 1 \in Nat
      BY ChatAssumption DEF ChatIInv, RestTyped
    <3>3. Append(obj[held[s]].messages, added + 1) \in Seq(Nat)
      BY <3>1, <3>2
    <3>. QED  BY <3>3, LatestTyped DEF Histories
  <2>3. Works(s, objects)  BY <1>1, <1>6 DEF Works
  <2>. HIDE DEF m
  <2>4. /\ objects \in [Objects -> SessionRecords]
        /\ \A p \in Objects : /\ objects[p].socket = obj[p].socket
                              /\ objects[p].client = obj[p].client
        /\ KeepsOwners(s, objects)
    BY <1>2, <2>2, OnlyMessages DEF ChatIInv, KeepsOwners
  <2>6. /\ Ordered(Touched(held[s]), Listed \cup {held[s]})
        /\ Listed \subseteq Listed \cup {held[s]}
    BY <1>2, TouchedOrder
  <2>. HIDE DEF objects
  <2>7. WorkLeaves(objects)
    BY <1>1, <1>2, <1>3, <2>1, <2>4, <2>6, WorkStep
  <2>. QED  BY <1>2, <1>3, <2>3, <2>4, <2>7
<1>. QED  BY <1>4, <1>5, <1>6 DEF Working

LEMMA WorkingStep ==
  ASSUME ChatIInv, NEW s \in Sockets, Working(s)
  PROVE  ChatIInv'
<1>1. PICK objects \in [Objects -> SessionRecords] :
        WorkLeaves(objects) /\ held[s] \in Objects
  BY WorkShape
<1>2. /\ \/ /\ doing' = [doing EXCEPT ![s] = "none"]
            /\ held' = [held EXCEPT ![s] = None]
         \/ /\ \E job \in {"welcome", "answer"} :
                 doing' = [doing EXCEPT ![s] = job]
            /\ held' = held
      /\ UNCHANGED <<connected, issued>>
      /\ added' \in {added, added + 1} /\ added' <= MaxAdded
      /\ unsaved' \in {unsaved, unsaved \cup {added'}}
      /\ unsaved' = unsaved \/ added' = added + 1
  BY DEF Working, ReadHistory, Clear, AddMessage, Start, Finish, ChatIInv,
         RestTyped
<1>3. stored' \in [Ids -> Seq(Nat)] /\ faults' \in 0..MaxFaults
  <2>1. stored \in [Ids -> Seq(Nat)] /\ faults \in 0..MaxFaults
    BY DEF ChatIInv, RestTyped
  <2>2. CASE ReadHistory(s)  BY <2>1, <2>2 DEF ReadHistory
  <2>3. ASSUME NEW broken \in BOOLEAN, Clear(s, broken)
        PROVE  stored' \in [Ids -> Seq(Nat)] /\ faults' \in 0..MaxFaults
    <3>1. <<>> \in Seq(Nat)  OBVIOUS
    <3>. QED  BY <2>1, <2>3, <3>1, FaultsCounted DEF Clear
  <2>4. ASSUME NEW broken \in BOOLEAN, AddMessage(s, broken)
        PROVE  stored' \in [Ids -> Seq(Nat)] /\ faults' \in 0..MaxFaults
    <3>1. added + 1 \in Nat
      BY ChatAssumption DEF ChatIInv, RestTyped
    <3>2. CASE obj[held[s]].client = None \/ broken
      BY <2>1, <2>4, <3>2, FaultsCounted DEF AddMessage
    <3>3. CASE ~ (obj[held[s]].client = None \/ broken)
      <4>1. obj[held[s]].client \in Ids
        BY <1>1, <3>3 DEF ChatIInv, ObjectsTyped, SessionRecords
      <4>2. Persisted(held[s], added + 1) \in Seq(Nat)
        <5>1. stored[obj[held[s]].client] \in Seq(Nat)  BY <2>1, <4>1
        <5>. QED  BY <3>1, <5>1 DEF Persisted
      <4>. QED  BY <2>1, <2>4, <3>3, <4>2, FaultsCounted DEF AddMessage
    <3>. QED  BY <3>2, <3>3
  <2>. QED  BY <2>2, <2>3, <2>4 DEF Working
<1>4. RestTyped'
  <2>1. /\ held \in [Sockets -> Objects \cup {None}]
        /\ doing \in [Sockets -> Jobs]
        /\ \A p \in Sockets : held[p] = None <=> doing[p] = "none"
        /\ held[s] # None
    BY <1>1, ChatAssumption DEF ChatIInv, MapsTyped, RestTyped
  <2>2. doing' \in [Sockets -> Jobs]  BY <1>2, <2>1 DEF Jobs
  <2>3. \A p \in Sockets : held'[p] = None <=> doing'[p] = "none"
    BY <1>2, <2>1
  <2>4. added' \in 0..MaxAdded
    BY <1>2, ChatAssumption DEF ChatIInv, RestTyped
  <2>5. connected' \subseteq Sockets /\ issued' \subseteq Ids
    BY <1>2 DEF ChatIInv, RestTyped
  <2>6. unsaved' \subseteq 1..added'
    BY <1>2, ChatAssumption DEF ChatIInv, RestTyped
  <2>. QED  BY <1>3, <2>2, <2>3, <2>4, <2>5, <2>6 DEF RestTyped
<1>. QED  BY <1>1, <1>4 DEF WorkLeaves, ChatIInv

restVars == <<connected, stored, issued, doing, held, added, faults, unsaved>>

\* chat_disconnect and the sweep on its own.
LEMMA LeaveShape ==
  ASSUME ChatIInv, Sweep \/ \E s \in Sockets : ChatDisconnect(s)
  PROVE  /\ SweepLeaves
         /\ \A p \in Sockets : sessions'[p] \in {sessions[p], None}
         /\ UNCHANGED restVars
<1>1. sessions \in [Sockets -> Objects \cup {None}]
  BY DEF ChatIInv, MapsTyped
<1>2. /\ sessions' \in [Sockets -> Objects \cup {None}]
      /\ \A p \in Sockets : sessions'[p] \in {sessions[p], None}
      /\ clients' = Evicted(sessions', clients, obj, older, idle)
      /\ Collect(obj, older, idle)
      /\ UNCHANGED restVars
  <2>1. CASE Sweep  BY <1>1, <2>1 DEF Sweep, restVars
  <2>2. ASSUME NEW s \in Sockets, ChatDisconnect(s)
        PROVE  /\ sessions' \in [Sockets -> Objects \cup {None}]
               /\ \A p \in Sockets : sessions'[p] \in {sessions[p], None}
               /\ clients' = Evicted(sessions', clients, obj, older, idle)
               /\ Collect(obj, older, idle)
               /\ UNCHANGED restVars
    BY <1>1, <2>2 DEF ChatDisconnect, restVars
  <2>. QED  BY <2>1, <2>2
<1>3. SweepLeaves  BY <1>2, SweepStep DEF restVars
<1>. QED  BY <1>2, <1>3

LEMMA LeaveStep ==
  ASSUME ChatIInv, Sweep \/ \E s \in Sockets : ChatDisconnect(s)
  PROVE  ChatIInv'
<1>1. SweepLeaves /\ UNCHANGED restVars
  BY LeaveShape
<1>2. RestTyped'  BY <1>1 DEF ChatIInv, RestTyped, restVars
<1>. QED  BY <1>1, <1>2 DEF SweepLeaves, ChatIInv

LEMMA UnchangedMaps ==
  ASSUME ChatIInv, UNCHANGED <<sessions, clients, obj, older, beside, restVars>>,
         idle' \subseteq Listed
  PROVE  ChatIInv'
<1>1. /\ InUse' = InUse /\ Listed' = Listed
      /\ UNCHANGED <<sessions, clients, obj, older, beside>>
      /\ UNCHANGED <<connected, stored, issued, doing, held, added, faults, unsaved>>
  BY DEF InUse, Listed, restVars
<1>2. MapsTyped' /\ HoldersKept' /\ RestTyped'
  BY <1>1 DEF ChatIInv, MapsTyped, HoldersKept, RestTyped
<1>3. ObjectsTyped' /\ ObjectsKept'
  BY <1>1 DEF ChatIInv, ObjectsTyped, ObjectsKept, Ordered, HasTwin
<1>4. ClientsKept' /\ Bounded'
  BY <1>1 DEF ChatIInv, ClientsKept, Bounded, Registered, IsLive
<1>. QED  BY <1>2, <1>3, <1>4 DEF ChatIInv

\* A step that binds nothing and works on nothing.
Idles == UNCHANGED vars \/ TimePasses

LEMMA IdleShape ==
  ASSUME ChatIInv, Idles
  PROVE  /\ UNCHANGED <<sessions, clients, obj, older, beside, restVars>>
         /\ idle' \subseteq Listed
<1>1. CASE UNCHANGED vars
  BY <1>1 DEF vars, objVars, restVars, ChatIInv, ObjectsTyped
<1>2. CASE TimePasses
  BY <1>2 DEF TimePasses, restVars
<1>. QED  BY <1>1, <1>2 DEF Idles

\* Every step of the manager and its handlers is one of five shapes.
LEMMA ChatSteps ==
  ASSUME [Next]_vars
  PROVE  \/ \E s \in Sockets, claim \in Ids, valid, broken \in BOOLEAN :
              ConnectClient(s, claim, valid, broken)
         \/ \E s \in Sockets : Looks(s) \/ Working(s)
         \/ Sweep \/ \E s \in Sockets : ChatDisconnect(s)
         \/ Idles
BY DEF Next, Looks, Working, Idles

LEMMA ChatStep ==
  ASSUME ChatIInv, [Next]_vars
  PROVE  ChatIInv'
<1>1. CASE \E s \in Sockets, claim \in Ids, valid, broken \in BOOLEAN :
             ConnectClient(s, claim, valid, broken)
  BY <1>1, ConnectStep
<1>2. CASE \E s \in Sockets : Looks(s)
  BY <1>2, LookStep
<1>3. CASE \E s \in Sockets : Working(s)
  BY <1>3, WorkingStep
<1>4. CASE Sweep \/ \E s \in Sockets : ChatDisconnect(s)
  BY <1>4, LeaveStep
<1>5. CASE Idles
  BY <1>5, IdleShape, UnchangedMaps
<1>. QED  BY <1>1, <1>2, <1>3, <1>4, <1>5, ChatSteps

LEMMA ChatInitial == Init => ChatIInv
<1>. SUFFICES ASSUME Init  PROVE ChatIInv
  OBVIOUS
<1>1. InUse = {} /\ Listed = {}  BY DEF Init, InUse, Listed
<1>2. MapsTyped  BY DEF Init, MapsTyped
<1>3. ObjectsTyped
  <2>1. obj \in [Objects -> SessionRecords]  BY BlankTyped DEF Init
  <2>2. /\ Ordered(older, Listed) /\ idle \subseteq Listed
        /\ beside \subseteq InUse
    BY <1>1 DEF Init, Ordered
  <2>. QED  BY <2>1, <2>2 DEF ObjectsTyped
<1>4. RestTyped
  <2>1. <<>> \in Seq(Nat) /\ 0 \in 0..MaxAdded /\ 0 \in 0..MaxFaults
    BY ChatAssumption
  <2>. QED  BY <2>1 DEF Init, RestTyped, Jobs
<1>5. ObjectsKept  BY <1>1 DEF ObjectsKept, Init
<1>6. ClientsKept /\ HoldersKept
  BY DEF Init, ClientsKept, HoldersKept, Registered, Blank
<1>7. Bounded
  <2>1. Registered(clients) = {}  BY DEF Init, Registered
  <2>. QED  BY <2>1 DEF Bounded
<1>. QED  BY <1>2, <1>3, <1>4, <1>5, <1>6, <1>7 DEF ChatIInv

\* The inductive invariant of the maps.
THEOREM ChatInductive == Spec => []ChatIInv
<1>. QED  BY ChatInitial, ChatStep, PTL DEF Spec

\* Types of the maps, the objects and the handlers, and the bound on the client
\* map that _evict_locked promises, whatever connects and however it leaves.
THEOREM ChatTypeCorrect == Spec => []TypeOK
<1>. QED  BY ChatTypes, ChatInductive, PTL
-----------------------------------------------------------------------------
(***************************************************************************)
(* One conversation per client.  A socket that bound a session last and is *)
(* still in the map keeps its client's entry there: the entry is evicted   *)
(* only when that socket has left, and only a binding makes it lead        *)
(* somewhere else, which is then the session bound last.                   *)
(***************************************************************************)

LEMMA ConnectKeepsLast ==
  ASSUME ChatIInv, LastBoundKeepsSession, NEW s \in Sockets, NEW claim \in Ids,
         NEW valid \in BOOLEAN, NEW broken \in BOOLEAN,
         ConnectClient(s, claim, valid, broken)
  PROVE  LastBoundKeepsSession'
<1>1. PICK c \in Ids, o \in Objects, messages \in Histories :
        BindLeaves(s, c, o, messages) /\ clients[c] \in {o, None}
  BY ConnectShape
<1>2. /\ sessions' = [sessions EXCEPT ![s] = o]
      /\ clients'[c] = o
      /\ obj'[o] = [socket |-> s, client |-> c, messages |-> messages]
      /\ \A p \in InUse' \ {o} : p \in InUse /\ obj'[p] = obj[p]
      /\ \A d \in Ids \ {c} :
           clients[d] # None /\ sessions'[obj[clients[d]].socket] # None
             => clients'[d] = clients[d]
  BY <1>1 DEF BindLeaves
<1>3. /\ sessions \in [Sockets -> Objects \cup {None}] /\ None \notin Objects
      /\ obj \in [Objects -> SessionRecords] /\ InUse' \subseteq Objects
  BY <1>1, ChatAssumption
     DEF ChatIInv, MapsTyped, ObjectsTyped, InUse, BindLeaves
<1>4. ASSUME NEW p \in InUse', obj'[p].client # None, obj'[p].socket # None,
             sessions'[obj'[p].socket] = p
      PROVE  clients'[obj'[p].client] = p
  <2>1. CASE p = o  BY <1>2, <2>1
  <2>2. CASE p # o
    <3>1. /\ p \in InUse /\ p \in Objects /\ obj'[p] = obj[p]
          /\ obj[p].client \in Ids /\ obj[p].socket \in Sockets
      BY <1>2, <1>3, <1>4, <2>2 DEF SessionRecords
    <3>2. sessions[obj[p].socket] = p  BY <1>2, <1>3, <1>4, <2>2, <3>1
    <3>3. clients[obj[p].client] = p
      BY <1>4, <3>1, <3>2 DEF LastBoundKeepsSession
    <3>4. obj[p].client # c  BY <1>1, <1>3, <2>2, <3>1, <3>3
    <3>. QED  BY <1>2, <1>3, <1>4, <3>1, <3>3, <3>4
  <2>. QED  BY <2>1, <2>2
<1>. QED  BY <1>4 DEF LastBoundKeepsSession

LEMMA LookKeepsLast ==
  ASSUME ChatIInv, LastBoundKeepsSession, NEW s \in Sockets, Looks(s)
  PROVE  LastBoundKeepsSession'
<1>1. PICK o \in Objects : GetLeaves(s, o)
  BY GetStep DEF Looks, ConnectAnonymously, HandleEvent
<1>2. /\ clients' = clients /\ sessions' = [sessions EXCEPT ![s] = o]
      /\ \A p \in InUse : p \in InUse' /\ obj'[p] = obj[p]
      /\ \/ sessions[s] = o
         \/ sessions[s] = None /\ o \notin InUse /\ obj'[o].client = None
      /\ \A p \in InUse' : p \in InUse \/ p = o
  <2>1. \A p \in InUse' : p \in InUse \/ p = o
    BY <1>1 DEF GetLeaves, InUse, ChatIInv, MapsTyped
  <2>. QED  BY <1>1, <2>1 DEF GetLeaves
<1>3. /\ sessions \in [Sockets -> Objects \cup {None}] /\ None \notin Objects
      /\ obj \in [Objects -> SessionRecords] /\ InUse \subseteq Objects
  BY ChatAssumption, UsedAreObjects DEF ChatIInv, MapsTyped, ObjectsTyped
<1>4. ASSUME NEW p \in InUse', obj'[p].client # None, obj'[p].socket # None,
             sessions'[obj'[p].socket] = p
      PROVE  clients'[obj'[p].client] = p
  <2>1. p \in InUse
    <3>1. sessions[s] = o => o \in InUse  BY <1>3 DEF InUse
    <3>. QED  BY <1>2, <1>4, <3>1
  <2>2. obj'[p] = obj[p] /\ obj[p].socket \in Sockets
    BY <1>2, <1>3, <1>4, <2>1 DEF SessionRecords
  <2>3. sessions[obj[p].socket] = p  BY <1>2, <1>3, <1>4, <2>1, <2>2
  <2>. QED  BY <1>2, <1>4, <2>1, <2>2, <2>3 DEF LastBoundKeepsSession
<1>. QED  BY <1>4 DEF LastBoundKeepsSession

LEMMA WorkKeepsLast ==
  ASSUME ChatIInv, LastBoundKeepsSession, NEW s \in Sockets, Working(s)
  PROVE  LastBoundKeepsSession'
<1>1. PICK objects \in [Objects -> SessionRecords] :
        WorkLeaves(objects) /\ KeepsOwners(s, objects)
  BY WorkShape
<1>2. /\ sessions' = sessions /\ clients' = clients
      /\ \A p \in InUse' : p \in InUse /\ obj'[p] = objects[p]
  BY <1>1 DEF WorkLeaves, Working, ReadHistory, Clear, AddMessage
<1>3. InUse \subseteq Objects  BY UsedAreObjects DEF ChatIInv
<1>. QED  BY <1>1, <1>2, <1>3 DEF LastBoundKeepsSession, KeepsOwners

LEMMA LeaveKeepsLast ==
  ASSUME ChatIInv, LastBoundKeepsSession,
         Sweep \/ \E s \in Sockets : ChatDisconnect(s)
  PROVE  LastBoundKeepsSession'
<1>1. /\ SweepLeaves
      /\ \A p \in Sockets : sessions'[p] \in {sessions[p], None}
  BY LeaveShape
<1>2. /\ \A p \in InUse' : p \in InUse /\ obj'[p] = obj[p]
      /\ \A d \in Ids : clients[d] # None /\ sessions'[obj[clients[d]].socket] # None
                          => clients'[d] = clients[d]
  BY <1>1 DEF SweepLeaves
<1>3. /\ obj \in [Objects -> SessionRecords] /\ InUse \subseteq Objects
      /\ None \notin Objects
  BY ChatAssumption, UsedAreObjects DEF ChatIInv, ObjectsTyped
<1>4. ASSUME NEW p \in InUse', obj'[p].client # None, obj'[p].socket # None,
             sessions'[obj'[p].socket] = p
      PROVE  clients'[obj'[p].client] = p
  <2>1. /\ p \in InUse /\ p # None /\ obj'[p] = obj[p]
        /\ obj[p].client \in Ids /\ obj[p].socket \in Sockets
    BY <1>2, <1>3, <1>4 DEF SessionRecords
  <2>2. sessions[obj[p].socket] = p  BY <1>1, <1>4, <2>1
  <2>3. clients[obj[p].client] = p
    BY <1>4, <2>1, <2>2 DEF LastBoundKeepsSession
  <2>. QED  BY <1>2, <1>4, <2>1, <2>3
<1>. QED  BY <1>4 DEF LastBoundKeepsSession

LEMMA IdleKeepsLast ==
  ASSUME ChatIInv, LastBoundKeepsSession, Idles
  PROVE  LastBoundKeepsSession'
<1>1. UNCHANGED <<sessions, clients, obj, held>>
  BY IdleShape DEF restVars
<1>. QED  BY <1>1 DEF LastBoundKeepsSession, InUse

LEMMA LastStep ==
  ASSUME ChatIInv, LastBoundKeepsSession, [Next]_vars
  PROVE  LastBoundKeepsSession'
<1>1. CASE \E s \in Sockets, claim \in Ids, valid, broken \in BOOLEAN :
             ConnectClient(s, claim, valid, broken)
  BY <1>1, ConnectKeepsLast
<1>2. CASE \E s \in Sockets : Looks(s)  BY <1>2, LookKeepsLast
<1>3. CASE \E s \in Sockets : Working(s)  BY <1>3, WorkKeepsLast
<1>4. CASE Sweep \/ \E s \in Sockets : ChatDisconnect(s)
  BY <1>4, LeaveKeepsLast
<1>5. CASE Idles  BY <1>5, IdleKeepsLast
<1>. QED  BY <1>1, <1>2, <1>3, <1>4, <1>5, ChatSteps

\* Whichever tabs share a client, however many clients there are and however
\* long they idle: while the socket that bound a session last is in the map and
\* bound nowhere else, its client's entry leads to that session
\* (get_or_bind_client_session, _evict_locked).
THEOREM ConversationIsOne == Spec => []LastBoundKeepsSession
<1>1. Init => LastBoundKeepsSession
  BY DEF Init, LastBoundKeepsSession, InUse
<1>2. ChatIInv /\ LastBoundKeepsSession /\ [Next]_vars => LastBoundKeepsSession'
  BY LastStep
<1>. QED  BY <1>1, <1>2, ChatInductive, PTL DEF Spec

-----------------------------------------------------------------------------
(***************************************************************************)
(* What memory holds of a transcript.  Messages are numbered as they are   *)
(* added, so that both lists rise; what a trim drops is older than what it *)
(* keeps.                                                                  *)
(***************************************************************************)

\* A rising list of numbers up to n.
Rising(q, n) ==
  /\ \A i \in 1..Len(q) : q[i] <= n
  /\ \A i, j \in 1..Len(q) : i < j => q[i] < q[j]

\* m is a cache of t, but for the messages of u.
Caches(m, t, u) ==
  /\ Elements(m) \subseteq Elements(t) \cup u
  /\ \A x \in Elements(t) \ Elements(m), k \in Elements(m) : x < k

LEMMA EmptyCaches ==
  ASSUME NEW t, NEW u, NEW n
  PROVE  Caches(<<>>, t, u) /\ Rising(<<>>, n)
BY DEF Caches, Elements, Rising

\* What a trim keeps, and what it drops.
LEMMA LatestCaches ==
  ASSUME NEW q \in Seq(Nat), NEW n \in Nat, Rising(q, n), NEW u
  PROVE  /\ Caches(Latest(q), q, u) /\ Rising(Latest(q), n)
         /\ Elements(Latest(q)) \subseteq Elements(q)
<1>. DEFINE v == Latest(q)
            d == Len(q) - Len(v)
<1>1. /\ v \in Seq(Nat) /\ d \in Nat /\ Len(v) \in Nat /\ Len(q) \in Nat
      /\ \A i \in 1..Len(v) : v[i] = q[d + i]
  BY LatestTyped, ChatAssumption
<1>. HIDE DEF v
<1>2. \A i \in 1..Len(v) : d + i \in 1..Len(q)  BY <1>1
<1>3. Elements(v) \subseteq Elements(q)  BY <1>1, <1>2 DEF Elements
<1>4. Rising(v, n)
  <2>1. \A i, j \in 1..Len(v) : i < j => d + i < d + j  BY <1>1
  <2>. HIDE DEF d
  <2>. QED  BY <1>1, <1>2, <2>1 DEF Rising
<1>5. ASSUME NEW x \in Elements(q) \ Elements(v), NEW k \in Elements(v)
      PROVE  x < k
  <2>1. PICK i \in 1..Len(q) : x = q[i]  BY <1>5 DEF Elements
  <2>2. PICK j \in 1..Len(v) : k = v[j]  BY <1>5 DEF Elements
  <2>3. i <= d
    <3>. SUFFICES ASSUME i > d  PROVE FALSE
      BY <1>1
    <3>1. i - d \in 1..Len(v) /\ d + (i - d) = i  BY <1>1
    <3>2. v[i - d] = x  BY <1>1, <2>1, <3>1
    <3>. QED  BY <1>5, <3>1, <3>2 DEF Elements
  <2>4. i < d + j /\ d + j \in 1..Len(q)  BY <1>1, <1>2, <2>3
  <2>. HIDE DEF d
  <2>. QED  BY <1>1, <2>1, <2>2, <2>4 DEF Rising
<1>. QED  BY <1>3, <1>4, <1>5 DEF Caches, v

LEMMA AppendRises ==
  ASSUME NEW q \in Seq(Nat), NEW n \in Nat, Rising(q, n)
  PROVE  /\ Append(q, n + 1) \in Seq(Nat) /\ Rising(Append(q, n + 1), n + 1)
         /\ Elements(Append(q, n + 1)) = Elements(q) \cup {n + 1}
         /\ Rising(q, n + 1)
         /\ \A x \in Elements(q) : x <= n /\ x \in Nat
<1>. DEFINE w == Append(q, n + 1)
<1>1. /\ w \in Seq(Nat) /\ Len(w) = Len(q) + 1 /\ Len(q) \in Nat
      /\ \A i \in 1..Len(q) : w[i] = q[i] /\ q[i] \in Nat
      /\ w[Len(q) + 1] = n + 1
  OBVIOUS
<1>. HIDE DEF w
<1>2. \A i \in 1..Len(w) : i \in 1..Len(q) \/ i = Len(q) + 1  BY <1>1
<1>3. \A i \in 1..Len(q) : i \in 1..Len(w)  BY <1>1
<1>4. Elements(w) = Elements(q) \cup {n + 1}
  <2>1. Len(q) + 1 \in 1..Len(w)  BY <1>1
  <2>. QED  BY <1>1, <1>2, <1>3, <2>1 DEF Elements
<1>5. Rising(w, n + 1)
  <2>1. ASSUME NEW i \in 1..Len(w)  PROVE w[i] <= n + 1
    <3>1. CASE i \in 1..Len(q)
      <4>1. w[i] = q[i] /\ q[i] \in Nat  BY <1>1, <3>1
      <4>2. q[i] <= n  BY <3>1 DEF Rising
      <4>. QED  BY <4>1, <4>2
    <3>2. CASE i = Len(q) + 1  BY <1>1, <3>2
    <3>. QED  BY <1>2, <3>1, <3>2
  <2>2. ASSUME NEW i \in 1..Len(w), NEW j \in 1..Len(w), i < j
        PROVE  w[i] < w[j]
    <3>1. i \in 1..Len(q)  BY <1>1, <2>2
    <3>2. CASE j \in 1..Len(q)  BY <1>1, <2>2, <3>1, <3>2 DEF Rising
    <3>3. CASE j = Len(q) + 1  BY <1>1, <3>1, <3>3 DEF Rising
    <3>. QED  BY <1>2, <3>2, <3>3
  <2>. QED  BY <2>1, <2>2 DEF Rising
<1>6. Rising(q, n + 1)  BY <1>1 DEF Rising
<1>7. \A x \in Elements(q) : x <= n /\ x \in Nat  BY <1>1 DEF Rising, Elements
<1>. QED  BY <1>1, <1>4, <1>5, <1>6, <1>7 DEF w

\* A message is added, trimmed or not, and its write succeeds or fails.
LEMMA AddedCaches ==
  ASSUME NEW q \in Seq(Nat), NEW t \in Seq(Nat), NEW n \in Nat, NEW u,
         Rising(q, n), Rising(t, n), Caches(q, t, u)
  PROVE  /\ Caches(Latest(Append(q, n + 1)), Append(t, n + 1), u)
         /\ Caches(Latest(Append(q, n + 1)), t, u \cup {n + 1})
<1>. DEFINE w == Append(q, n + 1)
            v == Latest(w)
            grown == Append(t, n + 1)
<1>1. /\ w \in Seq(Nat) /\ Rising(w, n + 1) /\ n + 1 \in Nat
      /\ Elements(w) = Elements(q) \cup {n + 1}
  BY AppendRises
<1>2. /\ Elements(grown) = Elements(t) \cup {n + 1}
      /\ \A x \in Elements(t) : x <= n /\ x \in Nat
  BY AppendRises
<1>. HIDE DEF w, grown
<1>3. Caches(v, w, u) /\ Elements(v) \subseteq Elements(w)
  BY <1>1, LatestCaches
<1>. HIDE DEF v
<1>4. ASSUME NEW x \in (Elements(t) \cup {n + 1}) \ Elements(v), NEW k \in Elements(v)
      PROVE  x < k
  <2>1. CASE x \in Elements(w)  BY <1>3, <1>4, <2>1 DEF Caches
  <2>2. CASE x \notin Elements(w)
    <3>1. x \in Elements(t) \ Elements(q)  BY <1>1, <1>4, <2>2
    <3>2. k \in Elements(q) \cup {n + 1}  BY <1>1, <1>3
    <3>3. CASE k \in Elements(q)  BY <3>1, <3>3 DEF Caches
    <3>4. CASE k = n + 1  BY <1>2, <3>1, <3>4
    <3>. QED  BY <3>2, <3>3, <3>4
  <2>. QED  BY <2>1, <2>2
<1>5. Elements(v) \subseteq Elements(t) \cup u \cup {n + 1}
  BY <1>1, <1>3 DEF Caches
<1>. QED  BY <1>2, <1>4, <1>5 DEF Caches, v, w, grown

Numbered ==
  /\ \A c \in Ids : Rising(stored[c], added)
  /\ \A o \in InUse : Rising(obj[o].messages, added)

LEMMA CacheByObject ==
  MemoryIsCache <=>
    \A o \in InUse \ beside :
      obj[o].client # None =>
        Caches(obj[o].messages, stored[obj[o].client], unsaved)
BY DEF MemoryIsCache, Caches

LEMMA CacheByObjectNext ==
  MemoryIsCache' <=>
    \A o \in InUse' \ beside' :
      obj'[o].client # None =>
        Caches(obj'[o].messages, stored'[obj'[o].client], unsaved')
BY DEF MemoryIsCache, Caches, Elements

CacheIInv == Numbered /\ MemoryIsCache

LEMMA ConnectKeepsCache ==
  ASSUME ChatIInv, CacheIInv, NEW s \in Sockets, NEW claim \in Ids,
         NEW valid \in BOOLEAN, NEW broken \in BOOLEAN,
         ConnectClient(s, claim, valid, broken)
  PROVE  CacheIInv'
<1>1. PICK c \in Ids, o \in Objects, messages \in Histories :
        /\ BindLeaves(s, c, o, messages)
        /\ \/ clients[c] = o /\ messages = obj[o].messages
           \/ /\ clients[c] = None /\ o \notin InUse
              /\ messages \in {<<>>, Latest(stored[c])}
  BY ConnectShape
<1>2. /\ obj'[o] = [socket |-> s, client |-> c, messages |-> messages]
      /\ \A p \in InUse' \ {o} : p \in InUse /\ obj'[p] = obj[p]
      /\ beside \cap InUse' \subseteq beside'
      /\ UNCHANGED <<stored, added, unsaved>>
  BY <1>1 DEF BindLeaves, ConnectClient
<1>3. /\ stored[c] \in Seq(Nat) /\ added \in Nat /\ None \notin Objects
      /\ None \notin Ids
  BY ChatAssumption DEF ChatIInv, RestTyped, Ids
<1>4. clients[c] = o => o \in InUse /\ obj[o].client = c
  BY <1>3 DEF InUse, ChatIInv, ClientsKept, Registered
<1>5. Rising(messages, added)
  BY <1>1, <1>3, <1>4, EmptyCaches, LatestCaches DEF CacheIInv, Numbered
<1>6. o \in InUse' \ beside' => Caches(messages, stored[c], unsaved)
  <2>1. CASE clients[c] = o /\ messages = obj[o].messages
    BY <1>2, <1>3, <1>4, <2>1, CacheByObject DEF CacheIInv
  <2>2. CASE messages \in {<<>>, Latest(stored[c])}
    BY <1>3, <2>2, EmptyCaches, LatestCaches DEF CacheIInv, Numbered
  <2>. QED  BY <1>1, <2>1, <2>2
<1>7. Numbered'  BY <1>2, <1>5 DEF CacheIInv, Numbered
<1>8. MemoryIsCache'
  <2>1. ASSUME NEW p \in InUse' \ beside', obj'[p].client # None
        PROVE  Caches(obj'[p].messages, stored'[obj'[p].client], unsaved')
    <3>1. CASE p = o  BY <1>2, <1>6, <3>1
    <3>2. CASE p # o
      BY <1>2, <2>1, <3>2, CacheByObject DEF CacheIInv
    <3>. QED  BY <3>1, <3>2
  <2>. QED  BY <2>1, CacheByObjectNext
<1>. QED  BY <1>7, <1>8 DEF CacheIInv

LEMMA LookKeepsCache ==
  ASSUME ChatIInv, CacheIInv, ChatIInv', NEW s \in Sockets, Looks(s)
  PROVE  CacheIInv'
<1>1. PICK o \in Objects : GetLeaves(s, o)
  BY GetStep DEF Looks, ConnectAnonymously, HandleEvent
<1>2. /\ UNCHANGED <<stored, added, unsaved>>
      /\ beside \cap InUse' \subseteq beside'
      /\ \A p \in InUse : p \in InUse' /\ obj'[p] = obj[p]
      /\ \/ o \in InUse
         \/ o \notin InUse /\ obj'[o].client = None /\ obj'[o].messages = <<>>
      /\ \A p \in InUse' : p \in InUse \/ p = o
  <2>1. \A p \in InUse' : p \in InUse \/ p = o
    BY <1>1 DEF GetLeaves, InUse, ChatIInv, MapsTyped
  <2>2. sessions[s] = o => o \in InUse
    BY ChatAssumption DEF InUse
  <2>3. UNCHANGED <<stored, added, unsaved>>
    BY DEF Looks, ConnectAnonymously, HandleEvent
  <2>. QED  BY <1>1, <2>1, <2>2, <2>3 DEF GetLeaves
<1>3. Numbered'
  BY <1>2, EmptyCaches DEF CacheIInv, Numbered
<1>4. MemoryIsCache'
  <2>1. ASSUME NEW p \in InUse' \ beside', obj'[p].client # None
        PROVE  Caches(obj'[p].messages, stored'[obj'[p].client], unsaved')
    BY <1>2, <2>1, CacheByObject DEF CacheIInv
  <2>. QED  BY <2>1, CacheByObjectNext
<1>. QED  BY <1>3, <1>4 DEF CacheIInv

\* What a handler's step makes of the messages of its object and of the
\* transcript of its client.
LEMMA WorkKeepsLists ==
  ASSUME ChatIInv, CacheIInv, NEW s \in Sockets,
         NEW objects \in [Objects -> SessionRecords], Works(s, objects),
         held[s] \in Objects, held[s] # None
  PROVE  LET o == held[s]
             c == obj[o].client
         IN  /\ \A d \in Ids : Rising(stored'[d], added')
             /\ \A d \in Ids : d # c => stored'[d] = stored[d]
             /\ unsaved \subseteq unsaved' /\ added' \in {added, added + 1}
             /\ Rising(objects[o].messages, added')
             /\ c # None /\ o \notin beside =>
                  Caches(objects[o].messages, stored'[c], unsaved')
<1>. DEFINE o == held[s]
            c == obj[o].client
            q == obj[o].messages
            Goal == /\ \A d \in Ids : Rising(stored'[d], added')
                    /\ \A d \in Ids : d # c => stored'[d] = stored[d]
                    /\ unsaved \subseteq unsaved' /\ added' \in {added, added + 1}
                    /\ Rising(objects[o].messages, added')
                    /\ c # None /\ o \notin beside =>
                         Caches(objects[o].messages, stored'[c], unsaved')
<1>1. /\ o \in InUse /\ obj \in [Objects -> SessionRecords]
      /\ q \in Seq(Nat) /\ c \in Ids \cup {None} /\ added \in Nat
      /\ stored \in [Ids -> Seq(Nat)] /\ None \notin Ids
  BY ChatAssumption
     DEF InUse, ChatIInv, ObjectsTyped, RestTyped, SessionRecords, Ids
<1>2. /\ Rising(q, added) /\ \A d \in Ids : Rising(stored[d], added)
      /\ c # None /\ o \notin beside => Caches(q, stored[c], unsaved)
  BY <1>1, CacheByObject DEF CacheIInv, Numbered
<1>. HIDE DEF q, c, o
<1>3. ASSUME objects = obj, UNCHANGED <<stored, added, unsaved>>
      PROVE  Goal
  BY <1>1, <1>2, <1>3 DEF q
<1>4. ASSUME NEW broken \in BOOLEAN, Clear(s, broken),
             objects = [obj EXCEPT ![held[s]].messages = <<>>]
      PROVE  Goal
  <2>1. UNCHANGED <<added, unsaved>>  BY <1>4 DEF Clear
  <2>2. stored' = IF c = None \/ broken THEN stored
                  ELSE [stored EXCEPT ![c] = <<>>]
    BY <1>4 DEF Clear, c, o
  <2>3. objects[o].messages = <<>>
    <3>1. <<>> \in Histories  BY ChatAssumption DEF Histories
    <3>. QED  BY <1>4, <3>1, OnlyMessages DEF ChatIInv, o
  <2>4. \A d \in Ids : stored'[d] \in {stored[d], <<>>}
    BY <1>1, <2>2
  <2>5. \A d \in Ids : d # c => stored'[d] = stored[d]
    BY <1>1, <2>2
  <2>6. \A d \in Ids : Rising(stored'[d], added')
    <3>1. Rising(<<>>, added)  BY EmptyCaches
    <3>. QED  BY <1>2, <2>1, <2>4, <3>1
  <2>7. /\ Rising(objects[o].messages, added')
        /\ \A t : Caches(objects[o].messages, t, unsaved')
    BY <2>3, EmptyCaches
  <2>. QED  BY <2>1, <2>5, <2>6, <2>7
<1>5. ASSUME NEW broken \in BOOLEAN, AddMessage(s, broken),
             objects = [obj EXCEPT ![held[s]].messages =
                          Latest(Append(obj[held[s]].messages, added + 1))]
      PROVE  Goal
  <2>. DEFINE m == Latest(Append(q, added + 1))
  <2>1. /\ added' = added + 1
        /\ unsaved' = IF broken THEN unsaved \cup {added + 1} ELSE unsaved
        /\ stored' = IF c = None \/ broken THEN stored
                     ELSE [stored EXCEPT ![c] = Append(stored[c], added + 1)]
    BY <1>5 DEF AddMessage, Persisted, c, o
  <2>2. /\ Append(q, added + 1) \in Seq(Nat)
        /\ Rising(Append(q, added + 1), added + 1)
        /\ added + 1 \in Nat
    BY <1>1, <1>2, AppendRises
  <2>3. m \in Histories /\ Rising(m, added + 1)
    BY <2>2, LatestTyped, LatestCaches DEF Histories
  <2>4. objects = [obj EXCEPT ![held[s]].messages = m]  BY <1>5 DEF q, o
  <2>5. c \in Ids /\ o \notin beside =>
          /\ Caches(m, Append(stored[c], added + 1), unsaved)
          /\ Caches(m, stored[c], unsaved \cup {added + 1})
    BY <1>1, <1>2, AddedCaches
  <2>. HIDE DEF m
  <2>6. objects[o].messages = m
    BY <2>3, <2>4, OnlyMessages DEF ChatIInv, o
  <2>7. \A d \in Ids : /\ Rising(stored[d], added + 1)
                       /\ Rising(Append(stored[d], added + 1), added + 1)
    BY <1>1, <1>2, AppendRises
  <2>8. /\ \A d \in Ids : d # c => stored'[d] = stored[d]
        /\ \A d \in Ids : stored'[d] \in {stored[d], Append(stored[d], added + 1)}
    BY <1>1, <2>1
  <2>9. c \in Ids /\ ~ broken => stored'[c] = Append(stored[c], added + 1)
    BY <1>1, <2>1
  <2>10. c # None /\ o \notin beside => Caches(m, stored'[c], unsaved')
    <3>1. CASE broken  BY <1>1, <2>1, <2>5, <3>1
    <3>2. CASE ~ broken  BY <1>1, <2>1, <2>5, <2>9, <3>2
    <3>. QED  BY <3>1, <3>2
  <2>. QED  BY <2>1, <2>3, <2>6, <2>7, <2>8, <2>10
<1>6. Goal  BY <1>3, <1>4, <1>5 DEF Works, o
<1>. QED  BY <1>6 DEF o, c

LEMMA WorkKeepsCache ==
  ASSUME ChatIInv, CacheIInv, NEW s \in Sockets, Working(s)
  PROVE  CacheIInv'
<1>1. PICK objects \in [Objects -> SessionRecords] :
        /\ Works(s, objects) /\ WorkLeaves(objects)
        /\ KeepsOwners(s, objects) /\ held[s] \in Objects
  BY WorkShape
<1>. DEFINE o == held[s]
            c == obj[o].client
<1>2. /\ o # None /\ o \in InUse /\ InUse \subseteq Objects
      /\ added \in Nat /\ obj \in [Objects -> SessionRecords]
  BY <1>1, ChatAssumption, UsedAreObjects
     DEF InUse, ChatIInv, RestTyped, ObjectsTyped
<1>3. /\ \A d \in Ids : Rising(stored'[d], added')
      /\ \A d \in Ids : d # c => stored'[d] = stored[d]
      /\ unsaved \subseteq unsaved' /\ added' \in {added, added + 1}
      /\ Rising(objects[o].messages, added')
      /\ c # None /\ o \notin beside =>
           Caches(objects[o].messages, stored'[c], unsaved')
  BY <1>1, <1>2, WorkKeepsLists
<1>4. /\ \A p \in InUse' : p \in InUse /\ obj'[p] = objects[p]
      /\ beside \cap InUse' \subseteq beside'
      /\ \A p \in Objects : /\ objects[p].client = obj[p].client
                            /\ p # o => objects[p] = obj[p]
  BY <1>1 DEF WorkLeaves, KeepsOwners
<1>5. \A p \in InUse \ beside : p # o /\ obj[p].client # None => obj[p].client # c
  BY <1>2 DEF ChatIInv, ObjectsKept, HasTwin
<1>. HIDE DEF o, c
<1>6. Numbered'
  <2>1. ASSUME NEW p \in InUse'  PROVE Rising(obj'[p].messages, added')
    <3>1. CASE p = o  BY <1>3, <1>4, <3>1
    <3>2. CASE p # o
      <4>1. Rising(obj[p].messages, added) /\ obj[p].messages \in Seq(Nat)
        BY <1>2, <1>4 DEF CacheIInv, Numbered, SessionRecords
      <4>2. Rising(obj[p].messages, added')
        BY <1>2, <1>3, <4>1, AppendRises
      <4>. QED  BY <1>2, <1>4, <3>2, <4>2
    <3>. QED  BY <3>1, <3>2
  <2>. QED  BY <1>3, <2>1 DEF Numbered
<1>7. MemoryIsCache'
  <2>1. ASSUME NEW p \in InUse' \ beside', obj'[p].client # None
        PROVE  Caches(obj'[p].messages, stored'[obj'[p].client], unsaved')
    <3>1. /\ p \in InUse \ beside /\ p \in Objects /\ obj'[p] = objects[p]
          /\ objects[p].client = obj[p].client
      BY <1>2, <1>4
    <3>2. CASE p = o
      BY <1>3, <2>1, <3>1, <3>2 DEF c
    <3>3. CASE p # o
      <4>1. obj'[p] = obj[p] /\ obj[p].client \in Ids  
        BY <1>2, <1>4, <2>1, <3>1, <3>3 DEF SessionRecords
      <4>2. stored'[obj[p].client] = stored[obj[p].client]
        BY <1>3, <1>5, <2>1, <3>1, <3>3, <4>1
      <4>3. Caches(obj[p].messages, stored[obj[p].client], unsaved)
        BY <2>1, <3>1, <4>1, CacheByObject DEF CacheIInv
      <4>. QED  BY <1>3, <4>1, <4>2, <4>3 DEF Caches
    <3>. QED  BY <3>2, <3>3
  <2>. QED  BY <2>1, CacheByObjectNext
<1>. QED  BY <1>6, <1>7 DEF CacheIInv

LEMMA LeaveKeepsCache ==
  ASSUME ChatIInv, CacheIInv, Sweep \/ \E s \in Sockets : ChatDisconnect(s)
  PROVE  CacheIInv'
<1>1. /\ UNCHANGED <<stored, added, unsaved>>
      /\ beside \cap InUse' \subseteq beside'
      /\ \A p \in InUse' : p \in InUse /\ obj'[p] = obj[p]
  BY LeaveShape DEF SweepLeaves, restVars
<1>2. Numbered'  BY <1>1 DEF CacheIInv, Numbered
<1>3. MemoryIsCache'
  BY <1>1, CacheByObject, CacheByObjectNext DEF CacheIInv
<1>. QED  BY <1>2, <1>3 DEF CacheIInv

LEMMA IdleKeepsCache ==
  ASSUME ChatIInv, CacheIInv, Idles
  PROVE  CacheIInv'
<1>1. /\ UNCHANGED <<sessions, clients, held, obj, beside>>
      /\ UNCHANGED <<stored, added, unsaved>>
  BY IdleShape DEF restVars
<1>2. InUse' = InUse  BY <1>1 DEF InUse
<1>3. Numbered'  BY <1>1, <1>2 DEF CacheIInv, Numbered
<1>4. MemoryIsCache'
  BY <1>1, <1>2, CacheByObject, CacheByObjectNext DEF CacheIInv
<1>. QED  BY <1>3, <1>4 DEF CacheIInv

LEMMA CacheStep ==
  ASSUME ChatIInv, ChatIInv', CacheIInv, [Next]_vars
  PROVE  CacheIInv'
<1>1. CASE \E s \in Sockets, claim \in Ids, valid, broken \in BOOLEAN :
             ConnectClient(s, claim, valid, broken)
  BY <1>1, ConnectKeepsCache
<1>2. CASE \E s \in Sockets : Looks(s)  BY <1>2, LookKeepsCache
<1>3. CASE \E s \in Sockets : Working(s)  BY <1>3, WorkKeepsCache
<1>4. CASE Sweep \/ \E s \in Sockets : ChatDisconnect(s)
  BY <1>4, LeaveKeepsCache
<1>5. CASE Idles  BY <1>5, IdleKeepsCache
<1>. QED  BY <1>1, <1>2, <1>3, <1>4, <1>5, ChatSteps

\* What memory holds of a client's only session is in SQLite or its write
\* failed, and what SQLite holds beyond it is older: trims, clears, evictions,
\* reloads, failing queries and handlers that outlive their socket leave no gap
\* (add_message, clear, _load_messages_from_db).
THEOREM MemoryIsTranscript == Spec => []MemoryIsCache
<1>1. Init => CacheIInv
  <2>. SUFFICES ASSUME Init  PROVE CacheIInv
    OBVIOUS
  <2>1. InUse = {}  BY DEF Init, InUse
  <2>. QED  BY <2>1, EmptyCaches DEF Init, CacheIInv, Numbered, MemoryIsCache
<1>2. ChatIInv /\ ChatIInv' /\ CacheIInv /\ [Next]_vars => CacheIInv'
  BY CacheStep
<1>3. CacheIInv => MemoryIsCache  BY DEF CacheIInv
<1>. QED  BY <1>1, <1>2, <1>3, ChatInductive, PTL DEF Spec

=============================================================================
