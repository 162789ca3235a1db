---------------------------- MODULE FrameAnalysis ----------------------------
(***************************************************************************)
(* The analysis of a frame by the vision model: the requests that start    *)
(* one (app/api/v1/analysis.py, analyze_single_frame of the service, the   *)
(* tool analyze_current_frame), its standard and its agentic form          *)
(* (agents/core/detection_agent.py, agents/vlm/client.py), and the tool    *)
(* calls that the model asks for, which come back into the general         *)
(* executor through submit_agentic_call (agents/mcp/executor_base.py).     *)
(*                                                                         *)
(* Such a call holds _context_lock from the moment it writes the image of  *)
(* its frame into the context until its tool has answered or timed out,    *)
(* and the tool runs on the pool the analysis itself may be running on.    *)
(* The image of an analysis is named by the analysis.  The model asks for  *)
(* at most one tool in an answer here; several are called one by one.      *)
(***************************************************************************)
EXTENDS Naturals, Sequences, FiniteSets

CONSTANTS
  Analyses,   \* analyses ever started
  Pool,       \* threads of the pool of the general executor
  MaxRounds,  \* max_tool_rounds
  NoOne

ASSUME AnalysisAssumption == MaxRounds \in Nat \ {0} /\ NoOne \notin Analyses

VARIABLES
  at,        \* per analysis: where its thread is
  agentic,   \* analyses made with tools
  said,      \* what the model first answered
  verdict,   \* what the analysis makes of it; "none" when there is no event
  round,     \* answers of the model so far
  holder,    \* the analysis that holds _context_lock
  image,     \* context["image_data"]
  queue,     \* tasks of the pool
  task,      \* per worker: the task it runs
  parked,    \* agentic alert e-mails that wait for the operator
  shown      \* history: [by, image, awaited] for the last image a tool used

analysisVars ==
  <<at, agentic, said, verdict, round, holder, image, queue, task, parked, shown>>

Places == {"new", "queued", "asking", "reading", "calling", "waiting",
           "answered", "recording", "done"}
Sayings == {"nothing", "clear", "defect", "contradiction"}

Task == [tool : {"analyze", "evidence", "email"},
         by : Analyses \union {NoOne}, \* the caller
         round : 0..MaxRounds,         \* its round; 0 when nobody waits
         runs : Analyses \union {NoOne}]
NoTask == [tool |-> "evidence", by |-> NoOne, round |-> 0, runs |-> NoOne]

AnalysisTypeOK ==
  /\ at \in [Analyses -> Places] /\ agentic \subseteq Analyses
  /\ said \in [Analyses -> Sayings]
  /\ verdict \in [Analyses -> {"none", "clear", "defect"}]
  /\ round \in [Analyses -> 0..MaxRounds]
  /\ {holder, image} \subseteq Analyses \union {NoOne}
  /\ queue \in Seq(Task) /\ task \in [Pool -> Task]
  /\ parked \subseteq Analyses
  /\ shown \in [by : Analyses \union {NoOne}, image : Analyses \union {NoOne},
               awaited : BOOLEAN]

AnalysisInit ==
  /\ at = [a \in Analyses |-> "new"] /\ agentic = {}
  /\ said = [a \in Analyses |-> "nothing"]
  /\ verdict = [a \in Analyses |-> "none"]
  /\ round = [a \in Analyses |-> 0]
  /\ holder = NoOne /\ image = NoOne /\ queue = <<>>
  /\ task = [w \in Pool |-> NoTask] /\ parked = {}
  /\ shown = [by |-> NoOne, image |-> NoOne, awaited |-> FALSE]

Moves(a, from, to) == at[a] = from /\ at' = [at EXCEPT ![a] = to]

-----------------------------------------------------------------------------
(* Requests *)

\* _agentic_mode of the service.
MarkAgentic(a) == agentic' \in {agentic, agentic \union {a}}

\* The API and the monitoring loop analyse on a thread of their own.
OwnThread(a) ==
  /\ Moves(a, "new", "asking")
  /\ UNCHANGED <<said, verdict, round, holder, image, queue, task, parked,
                 shown>>

\* /analyze_prompt: the camera's frame, one question, no tools.
AnalyzePrompt(a) == OwnThread(a) /\ UNCHANGED agentic

\* /analyze_agentic: the camera's frame, always with tools.
AnalyzeAgentic(a) == OwnThread(a) /\ agentic' = agentic \union {a}

\* analyze_single_frame for /analyze_single, and the monitoring loop.
AnalyzeFrame(a) == OwnThread(a) /\ MarkAgentic(a)

\* /analyze_uploaded_image: the form's choice, or the service's.
AnalyzeUploaded(a) == OwnThread(a) /\ MarkAgentic(a)

\* The operator's analyze_current_frame goes to the pool.
RequestByTool(a) ==
  /\ Moves(a, "new", "queued")
  /\ queue' = Append(queue, [tool |-> "analyze", by |-> NoOne, round |-> 0, runs |-> a])
  /\ UNCHANGED <<agentic, said, verdict, round, holder, image, task, parked,
                 shown>>

-----------------------------------------------------------------------------
(* The model *)

\* The circuit is open, there is no frame, the router raises: no event,
\* whatever was answered in earlier rounds.
Fail(a) ==
  /\ Moves(a, "asking", "done")
  /\ verdict' = [verdict EXCEPT ![a] = "none"]
  /\ UNCHANGED <<agentic, said, round, holder, image, queue, task, parked,
                 shown>>

\* A contradiction is an answer whose detail fields show a defect and whose
\* flag says there is none: _enforce_detail_consistency sets the flag, for
\* standard analyses only.  An answer that cannot be parsed counts as clear.
Judged(a, s) ==
  IF s = "defect" \/ (s = "contradiction" /\ a \notin agentic)
  THEN "defect" ELSE "clear"

\* The first answer is the verdict.
Answer(a, s) ==
  /\ Moves(a, "asking", IF a \in agentic THEN "reading" ELSE "recording")
  /\ round' = [round EXCEPT ![a] = @ + 1]
  /\ IF round[a] = 0
     THEN /\ said' = [said EXCEPT ![a] = s]
          /\ verdict' = [verdict EXCEPT ![a] = Judged(a, s)]
     ELSE UNCHANGED <<said, verdict>>
  /\ UNCHANGED <<agentic, holder, image, queue, task, parked, shown>>

\* _parse_tool_calls: none, or one of a tool there is.
ReadAnswer(a) ==
  /\ Moves(a, "reading", "recording") \/ Moves(a, "reading", "calling")
  /\ UNCHANGED <<agentic, said, verdict, round, holder, image, queue, task,
                 parked, shown>>

\* Where an analysis goes after a tool call.
AfterCall(a) == IF round[a] < MaxRounds THEN "asking" ELSE "recording"

-----------------------------------------------------------------------------
(* submit_agentic_call *)

\* A tool the registry does not know is refused before the lock is asked for;
\* every other call waits for the lock, in "calling".
CallUnknown(a) ==
  /\ Moves(a, "reading", AfterCall(a))
  /\ UNCHANGED <<agentic, said, verdict, round, holder, image, queue, task,
                 parked, shown>>

\* A call the state of the agent forbids, or a repetition, is refused under the
\* lock, after the image has been written.
CallRejected(a) ==
  /\ Moves(a, "calling", AfterCall(a))
  /\ holder = NoOne /\ image' = a
  /\ UNCHANGED <<agentic, said, verdict, round, holder, queue, task, parked,
                 shown>>

\* send_alert_email waits for the operator's approval.
CallParked(a) ==
  /\ Moves(a, "calling", AfterCall(a))
  /\ holder = NoOne /\ image' = a /\ parked' = parked \union {a}
  /\ UNCHANGED <<agentic, said, verdict, round, holder, queue, task, shown>>

\* Mutant: the lock is not held while the tool runs.
CallRuns_unlocked(a) ==
  /\ holder = NoOne /\ image' = a
  /\ Moves(a, "calling", "waiting")
  /\ queue' = Append(queue, [tool |-> "evidence", by |-> a,
                             round |-> round[a], runs |-> NoOne])
  /\ UNCHANGED <<agentic, said, verdict, round, holder, task, parked, shown>>

\* A tool that needs no approval; the model may name analyze_current_frame,
\* although it is not told of it.
CallRuns(a) ==
  /\ holder = NoOne /\ holder' = a /\ image' = a
  /\ \/ /\ Moves(a, "calling", "waiting")
        /\ queue' = Append(queue, [tool |-> "evidence", by |-> a,
                                   round |-> round[a], runs |-> NoOne])
     \/ \E b \in Analyses :
          /\ at[a] = "calling" /\ at[b] = "new"
          /\ at' = [at EXCEPT ![a] = "waiting", ![b] = "queued"]
          /\ queue' = Append(queue, [tool |-> "analyze", by |-> a,
                                     round |-> round[a], runs |-> b])
  /\ UNCHANGED <<agentic, said, verdict, round, task, parked, shown>>

Release(a) ==
  /\ holder' = NoOne
  /\ UNCHANGED <<agentic, said, verdict, round, image, queue, task, parked,
                 shown>>

CallReturns(a) == Moves(a, "answered", AfterCall(a)) /\ Release(a)

\* Mutant: a call that times out keeps the lock.
CallTimesOut_keeps(a) ==
  /\ Moves(a, "waiting", AfterCall(a))
  /\ UNCHANGED <<agentic, said, verdict, round, holder, image, queue, task,
                 parked, shown>>

\* future.result times out; the task stays where it is.
CallTimesOut(a) == Moves(a, "waiting", AfterCall(a)) /\ Release(a)

-----------------------------------------------------------------------------
(* The pool *)

Take(w) ==
  /\ task[w] = NoTask /\ queue # <<>>
  /\ task' = [task EXCEPT ![w] = Head(queue)] /\ queue' = Tail(queue)
  /\ IF Head(queue).tool = "analyze"
     THEN Moves(Head(queue).runs, "queued", "asking") /\ MarkAgentic(Head(queue).runs)
     ELSE UNCHANGED <<at, agentic>>
  /\ UNCHANGED <<said, verdict, round, holder, image, parked, shown>>

Awaited(t) == t.by # NoOne /\ at[t.by] = "waiting" /\ round[t.by] = t.round

Complete(w) ==
  /\ task' = [task EXCEPT ![w] = NoTask]
  /\ IF Awaited(task[w])
     THEN at' = [at EXCEPT ![task[w].by] = "answered"]
     ELSE UNCHANGED at

\* save_evidence and send_alert_email read the context when they run.
UseImage(w) ==
  /\ task[w] # NoTask /\ task[w].tool \in {"evidence", "email"}
  /\ Complete(w)
  /\ shown' = [by |-> task[w].by, image |-> image, awaited |-> Awaited(task[w])]
  /\ UNCHANGED <<agentic, said, verdict, round, holder, image, queue, parked>>

EndAnalyze(w) ==
  /\ task[w].tool = "analyze" /\ at[task[w].runs] = "done"
  /\ Complete(w)
  /\ UNCHANGED <<agentic, said, verdict, round, holder, image, queue, parked,
                 shown>>

\* The operator approves the e-mail: approve_proposal, without the lock.
Approve(a) ==
  /\ a \in parked /\ parked' = parked \ {a}
  /\ queue' = Append(queue, [tool |-> "email", by |-> a, round |-> 0, runs |-> NoOne])
  /\ UNCHANGED <<at, agentic, said, verdict, round, holder, image, task,
                 shown>>

-----------------------------------------------------------------------------
\* The event goes into the memory of the agent, the statistics and the log, or,
\* for /analyze_prompt and /analyze_agentic, into the answer only.
RecordEvent(a) ==
  /\ Moves(a, "recording", "done")
  /\ UNCHANGED <<agentic, said, verdict, round, holder, image, queue, task,
                 parked, shown>>

AnalysisStep(a) ==
  \/ Fail(a) \/ ReadAnswer(a) \/ RecordEvent(a)
  \/ \E s \in Sayings \ {"nothing"} : Answer(a, s)
  \/ CallUnknown(a) \/ CallRejected(a) \/ CallParked(a) \/ CallRuns(a)
  \/ CallReturns(a) \/ CallTimesOut(a)

WorkerStep(w) == Take(w) \/ UseImage(w) \/ EndAnalyze(w)

AnalysisNext ==
  \/ \E a \in Analyses :
       \/ AnalyzePrompt(a) \/ AnalyzeAgentic(a) \/ AnalyzeFrame(a)
       \/ AnalyzeUploaded(a) \/ RequestByTool(a) \/ Approve(a) \/ AnalysisStep(a)
  \/ \E w \in Pool : WorkerStep(w)

\* Threads run on; the router has its timeouts and future.result has one.  A
\* thread that waits for _context_lock moves once nobody holds it: calls are
\* made at most MaxRounds times by each analysis, so the lock is not taken away
\* from it for ever, and weak fairness says no more than that.
AnalysisFairness ==
  /\ \A a \in Analyses : WF_analysisVars(AnalysisStep(a))
  /\ \A w \in Pool : WF_analysisVars(WorkerStep(w))

AnalysisSpec == AnalysisInit /\ [][AnalysisNext]_analysisVars /\ AnalysisFairness

-----------------------------------------------------------------------------
\* A tool that runs while its caller waits for it uses the caller's image,
\* whatever other analyses, nested ones among them, do in the meantime.
AwaitedSeesItsImage == shown.awaited => shown.image = shown.by

\* Every analysis ends, although the tools of one that runs on the pool need
\* the pool, and the lock that the caller of this very analysis may hold.
AnalysesEnd ==
  \A a \in Analyses : at[a] \in {"queued", "asking"} ~> at[a] = "done"

=============================================================================
