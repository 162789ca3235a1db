------------------------------ MODULE ChatTurn ------------------------------
(***************************************************************************)
(* A message of the operator, from its interpretation to its answer:       *)
(* ConversationOrchestrator (agents/conversation/orchestrator.py),         *)
(* MCPManager (agents/mcp/manager.py) with its two domains, and the        *)
(* requests that come in by Socket.IO, by the chat API and by the MCP API. *)
(* Messages are handled at once, each by a thread of its own, and all but  *)
(* those of the MCP API write to one transcript.                           *)
(*                                                                         *)
(* The classifier is asked anew by the router and by each interpreter, and *)
(* may answer differently each time: a fallback result is not cached.  A   *)
(* proposal is named by the message it is for.  What an executor does with *)
(* a proposal is one step here (module DomainExecutor has the steps).  The *)
(* lines about progress that Socket.IO adds to a transcript are left out.  *)
(***************************************************************************)
EXTENDS Naturals, Sequences, FiniteSets

CONSTANTS
  Messages,      \* messages sent; one proposal at most comes of each
  MaxDecisions,  \* bound of the model: decisions clients take
  NoTool, NoDomain

ASSUME TurnAssumption ==
  /\ MaxDecisions \in Nat
  /\ NoDomain \notin {"pcb", "general"}
  /\ NoTool \notin {"inspect", "alert", "start", "email", "start_defects"}

Domains == {"pcb", "general"}

\* The registries, one tool that runs at once and one that waits for a
\* decision each, and an old name that the classifier still gives.
Tools == [d \in Domains |->
            IF d = "pcb" THEN {"inspect", "alert"} ELSE {"start", "email"}]
Confirmed  == {"alert", "email"}
Deprecated == {"start_defects"}
ToolNames  == Tools["pcb"] \union Tools["general"] \union Deprecated

\* What classify may answer to an interpreter.
Verdicts == [domain : Domains, tool : ToolNames \union {NoTool}]

VARIABLES
  loaded,      \* _pcb_interpreter and _pcb_executor exist
  channel,     \* per message: how it came in
  stage,       \* per message: where its thread is
  domain,      \* per message: the domain resolved so far
  tool,        \* per message: the tool proposed
  given,       \* per message: the executor its proposal was given to
  outcome,     \* per message: the status its submission came back with
  pending,     \* per domain: _pending_proposals of its executor
  transcript,  \* ChatSession.messages
  decisions    \* decisions taken

turnVars == <<loaded, channel, stage, domain, tool, given, outcome, pending,
              transcript, decisions>>

Channels == {"chat", "submit", "interpret"}
Stages   == {"new", "routing", "interpreting", "falling back", "submitting",
             "conversing", "answering", "following", "failing", "done"}
Outcomes == {"none", "executed", "failed", "rejected", "pending_approval"}
Kinds    == {"question", "answer", "summary", "decision"}

TurnTypeOK ==
  /\ loaded \in BOOLEAN
  /\ channel \in [Messages -> Channels] /\ stage \in [Messages -> Stages]
  /\ domain \in [Messages -> Domains \union {NoDomain}]
  /\ tool \in [Messages -> ToolNames \union {NoTool}]
  /\ given \in [Messages -> Domains \union {NoDomain}]
  /\ outcome \in [Messages -> Outcomes]
  /\ pending \in [Domains -> SUBSET Messages]
  /\ transcript \in Seq([about : Messages, kind : Kinds])
  /\ decisions \in 0..MaxDecisions

TurnInit ==
  /\ loaded \in BOOLEAN  \* _ensure_init tries once
  /\ channel = [m \in Messages |-> "chat"] /\ stage = [m \in Messages |-> "new"]
  /\ domain = [m \in Messages |-> NoDomain]
  /\ tool = [m \in Messages |-> NoTool]
  /\ given = [m \in Messages |-> NoDomain]
  /\ outcome = [m \in Messages |-> "none"]
  /\ pending = [d \in Domains |-> {}]
  /\ transcript = <<>> /\ decisions = 0

Passes(m, from, to) == stage[m] = from /\ stage' = [stage EXCEPT ![m] = to]

Write(m, kind) == transcript' = Append(transcript, [about |-> m, kind |-> kind])

Chats(m) == channel[m] = "chat"

\* Where the thread of a message goes that needs no tool, or whose proposal
\* is there, or was submitted.
NoProposal(m) == IF Chats(m) THEN "conversing" ELSE "done"
Proposed(m)   == IF channel[m] = "interpret" THEN "done" ELSE "submitting"
Submitted(m)  == IF Chats(m) THEN "answering" ELSE "done"

-----------------------------------------------------------------------------
(* The requests *)

Receive(m, c) ==
  /\ Passes(m, "new", "routing")
  /\ channel' = [channel EXCEPT ![m] = c]
  /\ IF c = "chat" THEN Write(m, "question") ELSE UNCHANGED transcript
  /\ UNCHANGED <<loaded, domain, tool, given, outcome, pending, decisions>>

-----------------------------------------------------------------------------
(* MCPManager *)

Triple(d) == IF d = "pcb" /\ loaded THEN "pcb" ELSE "general"

\* route: d is the domain an MCP request names, or the one detect_domain finds:
\* the classifier's with a confidence of 0.3, general without or after an
\* exception.
Route(m, d) ==
  /\ Passes(m, "routing", "interpreting")
  /\ domain' = [domain EXCEPT ![m] = Triple(d)]
  /\ UNCHANGED <<loaded, channel, tool, given, outcome, pending, transcript,
                 decisions>>

\* PCBInterpreter.interpret
InterpretPcb(m, v) ==
  /\ domain[m] = "pcb"
  /\ IF v.domain = "pcb" /\ v.tool \in Tools["pcb"]
     THEN Passes(m, "interpreting", Proposed(m)) /\ tool' = [tool EXCEPT ![m] = v.tool]
     ELSE Passes(m, "interpreting", "falling back") /\ UNCHANGED tool
  /\ UNCHANGED <<loaded, channel, domain, given, outcome, pending, transcript,
                 decisions>>

\* It has no handler for an exception of the classifier; the chat has one, and
\* the web server has one.
InterpreterRaises(m) ==
  /\ domain[m] = "pcb"
  /\ Passes(m, "interpreting", IF Chats(m) THEN "failing" ELSE "done")
  /\ UNCHANGED <<loaded, channel, domain, tool, given, outcome, pending,
                 transcript, decisions>>

Renamed(t) == IF t = "start_defects" THEN "start" ELSE t

\* Mutant: the proposal of the other interpreter keeps the first domain.
InterpretGeneral_resolved(m, v) ==
  /\ \/ domain[m] = "general" /\ stage[m] = "interpreting"
     \/ stage[m] = "falling back"
  /\ IF Renamed(v.tool) \in Tools["general"]
     THEN /\ Passes(m, stage[m], Proposed(m))
          /\ tool' = [tool EXCEPT ![m] = Renamed(v.tool)]
     ELSE Passes(m, stage[m], NoProposal(m)) /\ UNCHANGED tool
  /\ UNCHANGED <<loaded, channel, domain, given, outcome, pending, transcript,
                 decisions>>

\* MCPInterpreter.interpret, for its own domain or when the PCB interpreter
\* has nothing; an exception of the classifier means no tool.
InterpretGeneral(m, v) ==
  /\ \/ domain[m] = "general" /\ stage[m] = "interpreting"
     \/ stage[m] = "falling back"
  /\ IF Renamed(v.tool) \in Tools["general"]
     THEN /\ Passes(m, stage[m], Proposed(m))
          /\ tool' = [tool EXCEPT ![m] = Renamed(v.tool)]
          /\ domain' = [domain EXCEPT ![m] = "general"]
     ELSE Passes(m, stage[m], NoProposal(m)) /\ UNCHANGED <<tool, domain>>
  /\ UNCHANGED <<loaded, channel, given, outcome, pending, transcript,
                 decisions>>

\* What submit_proposal of the executor may come back with.
Statuses(d, t) ==
  CASE t \notin Tools[d]                     -> {"rejected"}
    [] t \in Tools[d] /\ t \in Confirmed     -> {"rejected", "pending_approval"}
    [] OTHER                                 -> {"rejected", "executed", "failed"}

Submit(m, o) ==
  LET d == Triple(domain[m]) IN
  /\ Passes(m, "submitting", Submitted(m))
  /\ o \in Statuses(d, tool[m])
  /\ given' = [given EXCEPT ![m] = d]
  /\ outcome' = [outcome EXCEPT ![m] = o]
  /\ pending' = [pending EXCEPT ![d] =
                   IF o = "pending_approval" THEN @ \union {m} ELSE @]
  /\ UNCHANGED <<loaded, channel, domain, tool, transcript, decisions>>

-----------------------------------------------------------------------------
(* ConversationOrchestrator.handle_turn *)

\* generate_conversational_response: the agent model, or a fixed text.
Converse(m) ==
  /\ Passes(m, "conversing", "done")
  /\ Write(m, "answer")
  /\ UNCHANGED <<loaded, channel, domain, tool, given, outcome, pending,
                 decisions>>

\* Mutant: every result of a tool is summed up.
Respond_always(m) ==
  /\ Passes(m, "answering", "following")
  /\ Write(m, "answer")
  /\ UNCHANGED <<loaded, channel, domain, tool, given, outcome, pending,
                 decisions>>

\* The response to the status.  A call that was executed counts as a success,
\* whatever its handler returned, and is summed up.
Respond(m) ==
  /\ Passes(m, "answering", IF outcome[m] = "executed" THEN "following" ELSE "done")
  /\ Write(m, "answer")
  /\ UNCHANGED <<loaded, channel, domain, tool, given, outcome, pending,
                 decisions>>

\* generate_tool_followup_response: the agent model, the deterministic
\* summary, or the tool's own message.
FollowUp(m) ==
  /\ Passes(m, "following", "done")
  /\ Write(m, "summary")
  /\ UNCHANGED <<loaded, channel, domain, tool, given, outcome, pending,
                 decisions>>

\* "I apologize, but I encountered an error".
ReportError(m) ==
  /\ Passes(m, "failing", "done")
  /\ Write(m, "answer")
  /\ UNCHANGED <<loaded, channel, domain, tool, given, outcome, pending,
                 decisions>>

-----------------------------------------------------------------------------
(* Decisions *)

\* The executors asked for a proposal: a hint general excludes the other.
Asked(hint) ==
  IF hint = "general" THEN {"general"}
  ELSE IF loaded THEN Domains ELSE {"general"}

\* approve_proposal and reject_proposal, from the socket, which records the
\* reply, or by the API: the executor that has the proposal gives it up and
\* runs or drops it.
Decide(m, hint, spoken) ==
  /\ decisions < MaxDecisions /\ decisions' = decisions + 1
  /\ \E d \in Asked(hint) : m \in pending[d]
  /\ pending' = [d \in Domains |->
                   IF d \in Asked(hint) THEN pending[d] \ {m} ELSE pending[d]]
  /\ IF spoken THEN Write(m, "decision") ELSE UNCHANGED transcript
  /\ UNCHANGED <<loaded, channel, stage, domain, tool, given, outcome>>

\* A second decision, or one for the wrong domain, finds nothing.
DecideNothing(m, hint, spoken) ==
  /\ decisions < MaxDecisions /\ decisions' = decisions + 1
  /\ given[m] # NoDomain
  /\ \A d \in Asked(hint) : m \notin pending[d]
  /\ IF spoken THEN Write(m, "decision") ELSE UNCHANGED transcript
  /\ UNCHANGED <<loaded, channel, stage, domain, tool, given, outcome,
                 pending>>

-----------------------------------------------------------------------------
TurnStep(m) ==
  \/ \E d \in Domains : Route(m, d)
  \/ \E v \in Verdicts : InterpretPcb(m, v) \/ InterpretGeneral(m, v)
  \/ InterpreterRaises(m)
  \/ \E o \in Outcomes : Submit(m, o)
  \/ Converse(m) \/ Respond(m) \/ FollowUp(m) \/ ReportError(m)

TurnNext ==
  \E m \in Messages :
    \/ TurnStep(m)
    \/ \E c \in Channels : Receive(m, c)
    \/ \E h \in Domains \union {NoDomain}, s \in BOOLEAN :
         Decide(m, h, s) \/ DecideNothing(m, h, s)

TurnSpec == TurnInit /\ [][TurnNext]_turnVars

-----------------------------------------------------------------------------
Written(m, kind) ==
  Cardinality({i \in DOMAIN transcript :
                 transcript[i].about = m /\ transcript[i].kind = kind})

\* A proposal goes to, and waits at, the executor that knows its tool,
\* although up to three verdicts about one message may disagree and the PCB
\* domain may be missing.
RightExecutor ==
  \A m \in Messages :
    /\ given[m] # NoDomain => tool[m] \in Tools[given[m]]
    /\ \A d \in Domains : m \in pending[d] => d = given[m]

\* A chat message that was dealt with has one answer, after it, and a summary
\* exactly when a tool ran in its turn, after the answer, however turns and
\* decisions interleave in one transcript.
OneAnswer ==
  \A m \in Messages : stage[m] = "done" /\ Chats(m) =>
    /\ Written(m, "question") = 1 /\ Written(m, "answer") = 1
    /\ Written(m, "summary") =
         IF outcome[m] = "executed" THEN 1 ELSE 0
    /\ \A i, j \in DOMAIN transcript :
         /\ transcript[i].about = m /\ transcript[j].about = m
         /\ transcript[i].kind = "question" \/
            (transcript[i].kind = "answer" /\ transcript[j].kind = "summary")
         => i <= j

=============================================================================
