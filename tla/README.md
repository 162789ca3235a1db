# TLA+ models of the PCB inspection agent

The program is a Flask and Socket.IO server that inspects printed circuit
boards with a camera and two language models. It is one process with many
threads: request threads of the web server, Socket.IO handlers, a camera
capture thread, a monitoring loop thread, inspection threads, one pool of four
workers per tool domain, and a retention worker. Python threads interleave at
every bytecode, so whatever is not inside one lock region can be interrupted.
That is what the models are about.

## Inventory

| component | source | state it keeps | operations | hard part |
|---|---|---|---|---|
| proposal pipeline | `agents/mcp/executor_base.py`, `lifecycle.py`, `registry.py` | pending proposals, recent hashes, state of each proposal, pool, context, current session | submit, approve, reject, execute with a timeout, agentic calls | writes after an unlock, racing decisions, handlers that outlive their caller |
| agent state machine | `agents/mcp/state_machine.py` | operational state, history | `can_transition_to`, `transition_to` | callers test and then act in two steps |
| general handlers and sessions | `agents/mcp/domains/general/executor.py`, `session.py` | current session, closed sessions | start/end session, analyze, go idle, shut down | four workers run them at once; the state is saved, changed and restored |
| pcb handlers | `agents/mcp/domains/pcb/executor.py`, `agents/tools/pcb/` | fingerprints of logged defects | inspect, log, notify, report | an unlocked dictionary shared by threads |
| manager, audit log, interpreters | `agents/mcp/manager.py`, `audit.py` | ring of audit entries, metrics | route a message to a domain, interpret, fall back, decide across domains | classifier verdicts that disagree |
| monitoring service | `services/core/monitoring.py` | agent, loop, publisher, statistics | initialize, start, stop, callbacks | callbacks of a stopped loop, join while holding a lock |
| monitoring loop and tracker | `agents/core/monitoring_loop.py`, `services/core/pcb_presence_cv.py` | debounce counters, tracked boards, signatures inspected | observe a frame, settle, inspect, store | one inspection per board although boards are swapped and frames are lost |
| vision agent | `agents/core/detection_agent.py`, `agents/vlm/` | events, breaker | standard and agentic analysis | nested tool calls under a lock and on a bounded pool |
| camera | `services/core/camera.py` | global publisher, capture thread, queues | start, stop, subscribe, replace | restart while the old thread still runs; stale references |
| circuit breaker | `core/resilience.py` | state, failure count, last failure | `call`, `reset` | answers of calls admitted in an earlier state |
| intent classifier | `agents/classifiers/llm_classifier.py` | cache, failure count, open-until | classify | unlocked reads, stale answers |
| llm router | `router/` | semaphore and counters per role | request with retries | permit leaks, what is retried |
| chat sessions | `agents/conversation/session.py` | sessions by socket and by client | get, bind, remove, evict | several sockets share one session |
| orchestrator, transports | `agents/conversation/orchestrator.py`, `app/websocket/chat.py`, `app/api/v1/chat.py` | transcript | handle a message, decisions | turns and decisions interleave |
| connection pool | `app/database/connection.py` | idle connections, transactions they carry | start-up script, borrow, give back | half-opened pool, transactions left open, crashes |
| retention, frame store | `app/database/maintenance.py`, `repositories.py` | rows, image files | store, sweep, delete, thin out | row and file deleted in two steps |
| defect store, preferences | `services/domains/pcb/` | defects table, shared preferences object | query, load, update | reports of several queries; a lock that is not reentrant |
| REST API, views | `app/api/v1/`, `app/views/` | none | requests | callers of the above |
| reporting, analytics, email | `agents/tools/` | none | queries, SMTP | figures of different moments |
| configuration, logging, start-up | `core/`, `run.py` | read once | | |

The chat path goes orchestrator -> manager -> domain interpreter -> proposal
pipeline -> pool worker -> handler -> monitoring service. The monitoring path
goes camera -> loop -> tracker -> vision agent -> pipeline (agentic calls) and
back to the service through callbacks. Both meet in the agent state machine,
the current session and the monitoring service.

## What makes each component correct

- Pipeline: a handler starts at most once per proposal, only after the party
  that must grant it did; racing decisions do not both count; callers get true
  answers and always get one.
- Sessions and agent state: every session that was started is the current one or
  in the history, once; a tool that somebody waits for works on the image of its
  own analysis; every analysis ends.
- Conversation: a proposal goes to the executor that knows its tool; a message
  has one answer, and a summary exactly when a tool ran for it.
- Tracker: a board in view is tracked and inspected, once.
- Monitoring service: one loop runs at a time and the service knows which;
  stopping returns; a stopped loop gives the camera back; a result is counted
  once.
- Breaker, classifier, router: an open circuit lets nothing through before its
  time; a failing service is not hammered; permits are returned.
- Chat sessions: a connected client keeps its transcript and its session.
- Database: connections are neither shared nor leaked, an answer tells what was
  committed, start-up completes after a crash, no row outlives its image and no
  image is forgotten on the volume, the newest frame stays.
- In-memory copies (preferences, addresses, fingerprints): they serve what the
  tables held, and drop nothing without a reason.
- Camera: a subscriber sees frames in order, a discarded publisher stays off.

## Modules

One module per component, one action per stretch of code between two points
where another thread can interfere: a lock region, a write to an object other
threads can already reach, an unlocked read, a call that blocks. Guards are
the code's conditions and early returns. `PROJECT.json` maps every definition
to the lines it stands for. The operators marked "Mutant" are the bugs that
the checked properties are shown to catch; the models never use them.

### ApprovalGate, DomainExecutor, AgentStates (`agents/mcp/executor_base.py`, `lifecycle.py`, `state_machine.py`)

`DomainExecutor` is `BaseDomainExecutor`. Request threads (`Threads`, with a
place `pc` and the proposal `arg` they work on) submit, approve and reject;
`Workers` are the threads of the pool.

| action | code |
|---|---|
| `Propose`, `Gate`, `Deduplicate` | `submit_proposal` up to the lock: validation, the state gate, the 5 s duplicate window (`recent`) |
| `MarkPending` | the write of `PENDING_APPROVAL` after `_proposals_lock` was released |
| `TakeToApprove`, `ApproveByUser` / `TakeToReject`, `RejectByUser` | `approve_proposal`, `reject_proposal`: pop under the lock, decide outside it |
| `StartExecution` | `start_execution` and the hand-over to the pool |
| `StartHandler`, `FinishHandler` | the worker; the handler opens or closes the session (`Effect`) |
| `ResultArrives`, `ErrorArrives`, `InvokeTimesOut` | `future.result(timeout)` and the three ways out of it |
| `CountInSession` | the second, unlocked read of `_current_session` |
| `WindowPasses`, `AgentMoves` | the duplicate window ends; another part of the program moves the agent |

`AgentStates` holds the states and the transition map of the state machine.
`AgentMoves` leaves out ALERTING and ERROR, which no tool of the instance is
allowed in. `ApprovalGate` is what a person relies on: a call is asked, granted
or denied once, and only a granted call runs. `DomainExecutor` implements it
under `gateView`, which reads the handler's starts, the approval and the pending
map; the proposal's own `state` cannot be used, because the late write of
`PENDING_APPROVAL` can move it back.

### BoardTracker (`agents/core/monitoring_loop.py`)

The loop's thread, frame by frame. A frame is what the sensors say of it
(`Frames`: a candidate box, a strong one, an overlap with the last box, motion).
`Debounce`, `UpdateTracker` and `Observe` are the sensing; `ObserveFrame` is one
round of the outer loop with its trigger; `SettleFrame` and `SettleEnds` are the
focus window; `InspectionReturns` the callback; `Remember` the bounded set of
signatures with its eviction. `RequestStop` may come at any time. Signatures are
track ids, plus `Hash` for the perceptual hash the code falls back on without a
track, plus `Unseen` for a frame grabbed without an observation.

### CircuitBreaker (`core/resilience.py`, `agents/core/detection_agent.py`, `agents/vlm/client.py`)

`Admit` and `Refuse` are the admission under the lock, `Succeed` and `Fail` the
accounting under the lock; the call between them is outside (`pc = "inside"`),
so its result may find another state. `Ask` chooses one of the agent's three
paths: `analyze_frame` (retries), `analyze_with_prompt` (none), and the agentic
one, which only reads `is_open` and whose failures are nobody's. `recovered`
stands for the comparison of the clock with `last_failure_time`.

### ChatSessions (`agents/conversation/session.py`, `app/websocket/`)

`ConnectClient`, `ConnectAnonymously`, `ChatDisconnect`, `Sweep` are the
manager's locked operations, with `Evicted` (age, then number, never a live
one); `ReadHistory`, `HandleEvent`, `AddMessage`, `Clear` are what a handler
does with the object it looked up, without that lock. Any number of sockets may
claim one client, as the tabs of a browser do; they share its object, which
remembers the socket that bound it last. Each query of SQLite may fail
(`broken`): an unreadable transcript asks for a token and is loaded as empty, a
failed write leaves the message in memory, a failed delete leaves the
transcript. Socket.IO's disconnect only logs: its socket is one that asks
no more. A session object nobody refers to is collected, so objects are reused;
`older` orders those the client map leads to by `last_active`, and a session is
over the cap when fewer candidates are older than sessions are too many. Tokens
are a flag (`valid`) on a claimed client id. `unsaved` (messages whose write
failed) and `beside` (objects in use while another one of their client was) are
history.

### MonitoringLease, MonitoringService (`services/core/monitoring.py`, `MonitoringLoop.start` and `stop`)

Callers start and stop monitoring; each loop ever created has a thread with a
`phase`. `lock` is `_proactive_lock` where it is held between two steps: while a
new loop's thread is started, and while a stopper tells the loop and joins it
for at most five seconds (`JoinTimesOut`). The thread subscribes, inspects,
publishes (for which it needs that lock), and counts the inspection in the
context of whatever loop `proactive_agent` names by then: `LookForLoop` and
`FindContext` are two unlocked reads of it, `ReadCount` and `WriteCount` the
unlocked `+=`, in which the count of another thread can be lost; `done` and
`credited` are history, what was inspected and what was counted. `Crash` is an exception between two boards; `Unsubscribe` the finally
clause. `MonitoringLease` promises what users of the camera rely on: one loop
runs at a time, and none runs twice. A loop "runs" as in the code: its thread
lives and its stop event is not set.

### AgentSession (`agents/mcp/domains/general/executor.py`)

The handlers of `start_monitoring_session` (`BeginSession` .. `StartLoop`),
`end_session` (`EnterEndSession` .. `CloseSession`), `shutdown_agent`
(`CallShutdown`, then `Halt`, `PowerOff`), `go_idle`, `acknowledge_error` and
`analyze_current_frame` (`CallAnalyze` .. `PutBack`), each in the pieces another
worker can come between: the state machine is read, asked and changed under
three separate holds of its lock. `locker` is `_session_lock` between steps;
`leaving` marks a shutdown inside its call of `end_session`. A transition that
has become invalid raises and ends the handler where it is (`Transition`). Any
handler may run in any state, since the state is tested at submission only.

### ChatTurn (`agents/mcp/manager.py`, both `interpreter.py`, `agents/conversation/`)

A message in the stages of its thread: `Receive` (by chat, or by one of the two
MCP endpoints), `Route`, `InterpretPcb`, `InterpretGeneral` (also as the
fallback), `Submit`, then `Converse`, or `Respond` and `FollowUp`, or
`ReportError`. Every question to the classifier may be answered differently
(`\E v \in Verdicts`). `Decide` and `DecideNothing` are `approve_proposal` and
`reject_proposal` of the manager with their domain hint. `given` is the executor
a proposal was submitted to, `pending` those waiting at each.

### FrameAnalysis (`agents/core/detection_agent.py`, `agents/vlm/client.py`, `submit_agentic_call`)

Analyses started by the API, by the loop, or by a tool on the executor's pool
(`RequestByTool`). `Answer`, `ReadAnswer` and `RecordEvent` are the rounds of the
model. A tool call goes through `submit_agentic_call`: `CallUnknown` is refused
before the lock; any other call waits in "calling" for `_context_lock` (`holder`),
writes `image` under it, and is refused (`CallRejected`), parked (`CallParked`) or
run (`CallRuns`), which holds the lock until the tool has answered
(`CallReturns`) or timed out (`CallTimesOut`). `Take`,
`UseImage` and `EndAnalyze` are the pool's workers. `shown` is history.

### ConnectionPool, DatabaseSetup, Storage (`app/database/connection.py`)

`ConnectionPool`: the lazily filled pool (`Enter`, `Lock`, `Fill`, `FillFails`,
`Filled`), a borrower's way (`Get`, or `GetTimesOut` and `TemporaryFails` when the
queue is empty, `Read`, `Execute`, `Commit`, `PutBack`), and SQLite's single
writer: `writer` is the connection whose transaction is open, which a failed
statement (`ConstraintFails`) or commit (`CommitFails`) leaves so when the
connection goes back. `uncommitted` are the callers whose writes are in that
transaction, whoever borrows the connection by then; `Commit` takes them all, and
`committer` is history: whose commit put a caller's write into the file.
`DatabaseSetup`: `init_db` as a script of statements, durable one by one up to
the first INSERT and together after it (`pending`). `Storage` composes them: the
pool serves when start-up is over, `Crash` takes both down.

### EvidenceStore, FrameDedup (`app/database/repositories.py`, `maintenance.py`)

`EvidenceStore` has one identity per row and its image. `SaveImage`, `InsertRow`
and `InsertInspection` are the loop and the tools that store; `SelectFrames`,
`SelectOldLogs`, `SelectLog`, `SelectAllLogs`, then `DeleteRows` or
`DeleteAllRows`, then `Unlink` file by file are the removers: the retention
worker and a log page. `PickFrame`, `InspectFrame` and `InspectFails` are the
inspection of a stored frame, `Crash` and `SweepFails` the faults. `FrameDedup`
is the walk of `deduplicate_similar` over neighbours, for every combination of
scores and similarities.

### DefectTable, DefectLog, DefectReports (`services/domains/pcb/`, `agents/tools/pcb/`)

`DefectTable` is the table with its clock and the queries of the defect store.
`DefectLog` is `_auto_log_defect` in threads that share the dictionary of
fingerprints without a lock: the purge iterates over it (`Purge`, and
`IterationBreaks` when it changed meanwhile), `Skip`, `Mark` before `Insert`.
An inspection's list may hold nothing to insert (`MarkInVain`), an insert may
fail (`InsertFails`), and an item after one that was inserted may raise out of
the loop (`Inserted`). `spoiled` is history: what was marked in vain since the
log's last row of it.
`DefectReports` gives each report as its sequence of queries, between which rows
are logged and time passes; `figures` holds the set of rows behind each number.

### Preferences, EmailCache (`notification_preferences.py`, `UserRepository`)

`Preferences`: the shared object, its row, `_prefs_lock`; `Read`, `LockToRead`,
`Load`, then `Answer`, `Toggle` or `Notify`; `PutUpdate`, `LockToUpdate`,
`Nested` (the getter called under the lock), `SetField` one by one, `Save`,
`SaveFails`; `Restart`. `EmailCache`: a reader that misses reads the clock, the
table and stores; the user pages write the table and then empty the cache.

### FramePublisher, CameraSwitch (`services/core/camera.py`, `app/api/v1/`)

`FramePublisher` is one `CameraFeedPublisher`: `Start`, `Stop`, `JoinEnds`,
`Close` by callers, `CheckRunning` to `Delivered` by capture threads, queues with
their drop of the oldest frame. `CameraSwitch` has only references: who got
which publisher (`current`, `kept`, `watched`, `uses`), while `SwitchSource`
replaces the global one.

### IntentClassifier, LLMRouter (`agents/classifiers/`, `router/`)

`IntentClassifier` is `classify`: the TTL cache (`Lookup`, `Put`, with the oldest
entry evicted), the unlocked reads of the circuit (`ReadCount`, `ReadUntil`), the
router and the direct completion it falls back to. `LLMRouter` is a request: the
semaphore (`TakePermit`, `WaitTimesOut`), the counters under a lock of their own
(`CountWait`, `CountRelease`), attempts, `Decide` and `Backoff`. An error is the
set of words `is_retryable_error` looks for.

## Runs

| run | instance | what it shows |
|---|---|---|
| `executor_safety` | 2 request threads, 1 worker, 3 proposals: one confirmed, one a repeat of another's hash | `NoLostConfirmation`: a caller told to wait can still get a decision; `HonestAnswers`: what callers are told happened; `ImplementsGate`: only granted calls run, once, and a decision is final; `EveryCallReturns` |
| `tracker_safety` | 4 tracks, hysteresis 2 / 3, 5 lost frames | `FiredOnce`: one inspection per signature, none for a hash; `FreshTrack`: a new track takes no used signature; `TriggerIsServed` |
| `chat_sessions` | 2 sockets, 1 claimed and 1 minted client, cap 1, 1 message in memory, 2 messages, 1 failed query | `MemoryIsCache`: memory holds what is in SQLite, or what SQLite refused, and has no gap; `LastBoundKeepsSession`: while the socket that bound a session last is in the map, its client finds that session; `TypeOK` with the bound of the client map |
| `monitoring` | 2 callers, 3 loops, 1 board per loop | `CreditsAreEarned`: no board is counted twice, in an older loop, or in another loop by a thread nobody stopped, and a count is lost only where such a thread counts; `ImplementsLease`, `StopReturns`, `StoppedLoopEnds` |
| `sessions` | 2 workers and 2 sessions; 2 messages and 2 decisions; 2 analyses of 2 rounds, 1 pool thread | `SessionBooks`; `RightExecutor`, `OneAnswer`; `AwaitedSeesItsImage`, `AnalysesEnd` |
| `storage` | 3 threads, pool of 2, 7 connections, 1 failed filling, 1 crash | `Accounted`, `AnswersAreTrue`, `EveryRequestAnswered`; `SetupIsSound` |
| `records` | 2 frames, 1 log, 1 fault; 2 loggers, 2 findings, 2 rows; every report; 4 neighbouring frames of 3 scores | `RowsAndImagesMatch`, `LatestFrameStays`; `SkipsAreJustified`; `FiguresFit`; `BestStays` |
| `services` | 3 callers, 1 slot per role, 2 attempts; 3 threads at the breaker, threshold 2, 2 retries; 2 threads, 2 messages, 1 cache entry; 2 callers, 2 capture threads, 3 frames; 2 feeds, 2 publishers; 2 users of the preferences; 2 readers of the addresses | `SlotsAccounted`; `NoHammering`: a dead server gets fewer than threshold + threads calls between two good signs; `Recovers`; `VerdictIsReal`; `FramesInOrder`, `PublisherReturns`; `NoDeadSubscribers`; `CachesAreFresh` |
| `tracker_evict`, `camera_switch`, `prefs_lock`, `chat_eviction` | small instances, one property each | the findings below |

`sessions`, `records` and `services` explore several components in one run: the
variable `part` of the MC module is chosen initially and only that component
moves. Their models share no variable, but for the defect log and the reports,
each of which has rows logged by others as a step of its own; so this loses no
behaviour of any of them. What one needs of another (the outcome of a call, say) is a choice.

### Bounds

- `executor_safety`: three calls are enough for a decision race, a duplicate in
  and out of its window, and a handler that queues behind one that hangs.
- `tracker_safety`: `MaxTracks` bounds the ids handed out; four let a board be
  lost, return, be swapped during the window and swapped again. Streaks are
  capped by the code; `lost` is only compared with `MaxLost`, so it stops one
  above. The depths are the code's defaults. The limit of the signature set is
  out of reach there and within reach in `tracker_evict`, where `MaxInspected`
  is 2 and the eviction removes one signature; the code's limit is 100,000 and
  it removes a tenth, which fails in the same way, at the second signature.
- `chat_sessions`: a cap of one makes every second client an eviction; two
  sockets are two tabs of one client, or one of each. Four objects suffice:
  each socket uses at most one and each client has at most one, so one is free
  whenever one is created (`ObjectsSuffice`). `MaxFaults` bounds the steps in
  which SQLite fails. Sockets and objects are symmetric (no liveness is checked).
- `monitoring`: three loops let a thread that outlived its stop meet its
  successor's start, stop and successor. `MaxBoards` bounds inspections.
- `sessions`: two sessions are one closed by its successor and one by its own
  end. Messages are decided on at most twice in all, so that a second decision
  finds nothing. One pool thread is the smallest pool an analysis can block.
- `storage`: seven connections are the most that can be open at once: a pool
  left half filled and filled again, and a temporary one for each thread.
- `records`: images are symmetric, and so are the threads that inspect. One fault lies between any two steps; several
  would only repeat it. The windows are scaled so that rows leave each of them.
  Four frames make a chain in which each neighbour is marked for another one.
- `services`: the breaker's `failures` saturates at the threshold, since nothing
  reads it beyond; `admitted` and `lostInARow` are history. One slot per role makes two of three callers wait; a cache of one
  entry evicts at every second message; `MaxInstances` bounds the publishers
  made, `MaxCaptures` the capture threads; a cache entry is served at age 0 only
  (`CacheTTL`), addresses until they are two ticks old.

### Deadlock

The pipeline is checked for deadlock. The other runs say
`CHECK_DEADLOCK FALSE`, because they stop where nothing is left to do within a
bound: the tracker's loop ends by design; a chat when its messages are
added; the service when `MaxLoops` loops were created; messages, analyses,
sessions and decisions are used up; the clocks, frames, rows and publishers
reach their bounds; `prefs_lock` shows threads that wait for ever as a temporal
counterexample. The leads-to properties show that nobody is stuck before.

### Fairness

- `DomainExecutor`: weak fairness of each request thread's own step:
  `future.result` gives up by itself. Nothing is assumed of handlers.
- `BoardTracker`: the camera delivers frames or the loop's read times out, the
  deadline of the window passes, and the callback returns because its calls have
  timeouts. Being stopped is never assumed.
- `CircuitBreaker`: threads run, requests to the model end, time passes. Nobody
  has to ask: `Recovers` says that explicitly.
- `MonitoringService`: the thread of each loop does what needs no board and no
  fault; a caller that holds the lock goes on; a join ends or times out. Taking
  the lock to publish is only weakly fair: the run shows that it is enough,
  because a stopper holds the lock for a bounded time.
- `Storage`: start-up runs on, and each borrower inside the with-statement does;
  `pool.get` and the busy timeout end the waits. Nobody has to borrow.
- `FrameAnalysis`: the threads of analyses and of the pool run on; requests to
  the model and `future.result` have timeouts. A known tool's call has nothing to
  do but wait while another one holds `_context_lock`, and moves when it is free;
  weak fairness suffices, because each analysis calls at most `MaxRounds` times,
  so the lock is not taken from a waiting thread for ever.
- `FramePublisher`: a join ends or times out and a release ends. Nothing is
  assumed of the capture thread.
- `Preferences`: strong fairness of each call, so that the lock reaches whoever
  waits for it: what `prefs_lock` shows is no matter of an unfair lock.

## Findings

Each is a violation run of one property that quotes what the repository says.

1. `tracker_evict`: the first eviction from the set of signatures raises out of
   the loop and ends it (`monitoring_loop.py:334`).
2. `prefs_lock`: the first update of the preferences after a start waits for a
   lock its own thread holds (`notification_preferences.py:215`).
3. `camera_switch`: the monitoring service starts the publisher that a switch of
   the source discarded (`services/core/monitoring.py:757`).
4. `chat_eviction`: a session that a connected tab still uses is evicted once the
   tab that bound it last has left (`session.py:188`, against `:179` and a test).

## Observations without a run

Pipeline and sessions

- `PENDING_APPROVAL` is written after another thread may have approved or
  started the proposal (`executor_base.py:143`), against the order of states in
  `docs/architecture/README.md:165`. The gate holds in spite of it.
- A tool whose caller gave up, or that an operator approves later, uses the
  image another call has written (`executor_base.py:205-216`).
- An `end_session` between the pieces of a start leaves a loop that runs without
  a session (`domains/general/executor.py:96-118`). An analysis that a session's
  end overtakes puts MONITORING back although session and loop are gone
  (`:235-241`). A transition that another handler made invalid leaves the
  session open with its loop stopped (`:131-132`).
- A handler that returns `success=False` is still reported as completed. A
  decision of any kind that finds nothing to reject is answered "rejected".
- `approval_rate` of the metrics can exceed one; the general interpreter changes
  the classifier's result object, which may be the cached one.

Inspection

- A board that stops inside the focus window of another is never inspected while
  it stays (`monitoring_loop.py:430`; compare `README.md:339`), and the sharpest
  frame is inspected under the signature of the frame that opened the window.
- Agentic inspections never open the circuit (`detection_agent.py:540`), nor do
  they close one that another analysis opened: they look at it and give up, until
  such an analysis or a reset comes; a late
  success closes an open one (`resilience.py:93`), and HALF_OPEN admits everyone.
- A failure in a later round discards the verdict of an earlier one
  (`detection_agent.py:636`). The agentic path has no consistency rule, and reads
  the string "false" as true.
- The result of a loop that outlived its stop is counted in the newer loop's
  context, and while it counts there the unlocked `+=` can lose a count of either
  (`monitoring.py:589-591`); `CreditsAreEarned` allows exactly this. Stopping takes the full five seconds whenever the
  loop publishes while the stopper holds the lock.
- Two first callers of `initialize` replace each other's agent
  (`services/core/monitoring.py:315`). `last_error` of an earlier analysis can be
  shown for a later one (`analysis.py:242`).
- A frame is marked consumed before `_auto_log_defect` may raise.

Chat and requests

- A lost connection keeps its map entry (`app/websocket/__init__.py:57`), and the
  frontend never emits `chat_disconnect`; a turn answers to the socket bound last,
  which may be another tab's (`chat.py:81`).
- After the eviction of finding 4, two sessions of one client are in use side by side: each
  misses what the other adds, and a clear of one leaves the other's memory.
  `MemoryIsCache` says nothing of such a pair.
- A message whose write to SQLite fails stays in memory only, and is lost when it
  is trimmed or its session evicted, although `session.py:72-75` has trimmed
  messages stay in SQLite. A clear whose delete fails brings the conversation
  back at the next load.
- A rejected request whose text contains "500" is sent again
  (`rate_limit_config.py:72` and `:194`). `_last_token_usage` is shared by threads.

Records

- A statement or a commit that raises leaves its transaction, and SQLite's write
  lock, on the pooled connection; the next borrower that commits writes it along,
  although its caller was told that it failed (`repositories.py:89-97`). A pool whose filling failed can block its next filler.
- Removing a log unlinks the evidence image that a defect row still names
  (`repositories.py:261`). `delete_all` deletes rows inserted after it read the
  paths, whose images stay.
- A fingerprint is kept although its insert failed, and although the model's list
  held no dict to insert (`_helpers.py:223` and `:232`): repeats are then dropped
  for `TTL` without any row. Two threads can log one finding twice. An item with a
  severity of None after a severe one raises out of the loop (`:235`), and the
  items after it are not logged.
- A feed that ends after a switch of the source leaves its subscription on the
  publisher that was replaced (`app/api/v1/camera.py:70`).
- The total of a report is capped at 200 rows and not of one moment
  (`defect_store.py:10-11`); the worst defect is chosen by confidence before
  recency (`:175`, but `:202`); the board filter applies to the list only; the
  comparison of periods mixes filtered and limited counts; a trend's entry at its
  end falls in no bucket, and one that starts at zero never increases; thresholds
  alert at equality; the detection log filters by hours after paging.
- `deduplicate_similar`, `should_alert`, the SSIM cache, `close_all`,
  `reset_preferences_cache`, `stop_retention_worker`, `chat_stream` and
  `reset_routers` have no caller; only the first is modelled.

## Proofs

TLAPS proves, for every value of the constants that satisfies the named
assumptions:

| module | theorems |
|---|---|
| `DomainExecutorProofs` | `TypeCorrect`, `Inductive`, `AtMostOnce`, `OnlyGrantedRun`, `OneDecision`, `Refinement` (the pipeline implements the gate), `ConfirmationIsKept`, `CallersHearTheTruth` |
| `BoardTrackerProofs` | `TrackerTypeCorrect`, `PresentBoardIsTracked`, `OneInspectionPerSignature`, `TracksAreFresh` |
| `CircuitBreakerProofs` | `BreakerTypeCorrect`, `BreakerInductive`, `ClosedIsBelow`, `ServerIsSpared` |
| `MonitoringServiceProofs` | `ServiceTypeCorrect`, `ServiceInductive`, `RunningLoopIsKnown`, `EveryCreditIsEarned`, `ServiceImplementsLease` |
| `SessionsProofs` | `AgentInductive`, `EverySessionIsKept`; `TurnInductive`, `ProposalReachesItsExecutor`, `ChronicleInductive`, `EveryMessageIsAnsweredOnce`; `AnalysisInductive`, `ToolsSeeTheirImage`; `SessionsKeepTheirPromise`, `SessionsTypeCorrect`; `ChatInductive`, `ChatTypeCorrect`, `ConversationIsOne`, `MemoryIsTranscript` |
| `StorageProofs` | `StorageInductive`, `StorageTypeCorrect`, `ConnectionsAreAccounted`, `AnswersAreReal`, `StartUpIsSound` |
| `RecordsProofs` | `EvidenceInductive`, `ImagesFollowRows`, `LatestIsNeverLost`; `BestAlwaysStays`; `LogInductive`, `NoFindingIsLost`; `ReportInductive`, `MostFiguresFit`, `FiguresFitTogether`; `PartsKeepTheirPromise`, `RecordsTypeCorrect` |
| `ServicesProofs` | `RouterInductive`, `SlotsNeverLeak`; `VerdictsAreReal`; `FramesComeInOrder`; `EverySubscriberReads`; `MemoryIsFresh`; `ServicesKeepTheirPromise`, `ServicesTypeCorrect` |

- Pipeline. The state of a proposal is no witness of who may decide it. The
  invariant instead treats the right to decide or start a proposal as a token:
  it starts with the submitter, rests in `_pending_proposals`, and is taken from
  there by one thread (`OneHolder`, `PendingIsUndecided`, `HolderKnows`). What
  the token's holder has not done, nobody has. `ConfirmationIsKept` adds where a
  parked proposal can be (`ParkedIsKept`); `CallersHearTheTruth` adds that one
  thread at a time waits for a proposal's result (`OneInside`), that nobody was
  told anything final before (`InsideIsQuiet`, `OthersAreQuiet`), and that a
  finished call's outcome does not change (`OutcomeIsSettled`).
- Tracker. `PresentBoardIsTracked` needs `AbsenceConfirm <= MaxLost + 1`, which
  the defaults satisfy: while a board is present, the frames without a box are
  no more than the frames without presence (`LostIsAbsent`). Ids only grow
  (`TracksAreOld`), and a signature is remembered before its inspection
  (`FiredIsInspected`), so none is inspected twice. A present board is tracked, so
  no hash is ever a signature or a trigger (`HashUnused`).
- Breaker. While closed, every call let through since the last good sign is
  inside or was counted (`CallsAreCounted`); with the threshold this bounds the
  calls. The proof counts the threads inside with the theorems on finite sets.
- Service. The lock belongs to the caller that launches, tells or joins
  (`HolderIsBusy`), loops are numbered by creation, and a loop that runs is the
  newest (`LoopsAreNumbered`, `RunningIsKnown`). So no loop runs when one is
  launched, which is the lease's only real obligation. A board that its thread
  is about to report was inspected and is in nobody's count yet
  (`UncountedIsReported`), so whatever loop the unlocked reads find, the credit
  is a new one; that loop is the newest, hence not older than the thread's own.
- Sessions. A handler that is about to close the session it found has held
  `_session_lock` since (`LockIsHeld`), so the session is still there, and the
  history grows by a session that was not in it (`Books`).
- Turn. The domain is resolved only to a loaded one (`ResolvedIsLoaded`), the
  interpreter that proposes names its own domain (`ProposalFits`), and neither
  domain nor tool changes once the proposal was given away (`GivenIsLate`).
- Frame store. An image has no row while it is saved and is then no remover's
  (`SavedIsNew`); who unlinks works on images whose rows are gone, and who is
  about to select holds none (`DoomedIsHeld`). That the newest frame stays needs
  only the choice the selection makes, and that the log pages take logs. The
  walk keeps, for each marked frame, an unmarked one at or before the cursor or
  the cursor itself, linked to it and as good (`Walked`).
- Router. The books are inductive as they stand: a step moves one caller into
  or out of the stages that hold a slot, and the counters by as much (`Books`,
  `CountMoves`).
- Transcript of a turn. How many questions, answers and summaries there are of a
  message, and in which order, is a function of the stage its thread has reached
  (`Chronicle`, `InOrder`); the proof counts positions of a sequence as finite
  sets.
- Agentic calls. From the write of the image until the tool has answered or
  timed out the caller holds `_context_lock`, and nobody writes another image
  without it (`CallerHoldsLock`).
- Chat. An object in use was bound by a socket, a client's entry leads to the
  object with its id, and a handler works on the object of its socket unless the
  socket left the map (`ObjectsKept`, `ClientsKept`, `HoldersKept`). That an
  eviction brings the map back under the cap, or leaves only live sessions,
  rests on a lemma about finite ordered sets: those with fewer than k before
  them are k, or all (`FirstOnes`). An entry is evicted only when the socket
  that bound its session last has left, and only a binding makes it lead
  elsewhere (`ConversationIsOne`). For the transcript, messages are numbered as
  they are added, so both lists rise (`Numbered`): a new message is newer than
  all, what a trim drops is older than what it keeps, and an append, a trim and
  a reload each leave a cache of a cache (`Caches`). While no object shares its
  client, nobody else touches that transcript.
- Storage. Who holds the lock fills the pool, and that before it is initialized;
  who has a connection is inside the with-block; nobody is answered before its
  end, and what waits for a commit is in the one open transaction, whose
  connection its writer holds or has left (`Places`). So a commit takes every
  open write along, and only its own writer is told so (`AnswersAreTrue`). Connections are in one place at a time because lending takes
  the first of a sequence without repetitions. Of a start-up: what it has run so
  far is in the file or in the open transaction (`StartedSoFar`).
- Defect log. A fingerprint in the cache is backed by a row no older than its
  time, by a logger that is about to insert one, or was marked in vain since its
  last row: the insert failed or there was no item to insert (`Kept`). So is a
  fingerprint a logger read before it was changed or purged (`MarksAreBacked`,
  `SeenMarksAreBacked`).
- Reports. For each figure a report already has, and each query it has still to
  ask, the invariant says what it shows of a table that only grows while the
  clock runs (`SharesSoFar`, `SeveritiesSoFar`, `InsightsSoFar`, `WeekSoFar`).
- Classifier: what is in the cache, or on its way to it or to a caller, is an
  answer to that very message. Publisher: until two threads capture at once,
  only the last thread is alive, the frame in its hands is the newest, and every
  queue it has yet to serve holds older ones (`OneCapture`). Camera switch: the
  global publisher is none or the newest. Preferences: who is past the nested
  getter holds `_prefs_lock` and finds the object loaded. Addresses: who is in
  the cache but no longer active left after the cache was filled.

A behaviour of the compositions of `records`, `sessions` and `services` is one of
each part (`PartsKeepTheirPromise`, `SessionsKeepTheirPromise`,
`ServicesKeepTheirPromise`), so what is proved of a part holds there. The defect
log and the reports share the table, and what one adds to it the other may see:
`PartsKeepTheirPromise` shows that each allows the other's rows.

What the theorems assume beyond the types of their constants:

- `ObjectsSuffice` (chat), and in the pool twice `PoolSize` and one connection
  for each thread: creating an object always succeeds in the program, so the
  sets that stand for memory must be large enough. Sockets, clients and threads
  are finite, being as many as the process ever had.
- `FiguresFitTogether`: `Horizon <= Week`, the clock does not run past a week
  while the report runs. A report that outlasted a week could drop from its week
  a row that its day had; the other agreements of its figures
  (`MostFiguresFit`) need nothing.
- `PresentBoardIsTracked` and `OneInspectionPerSignature`:
  `AbsenceConfirm <= MaxLost + 1`, true of the defaults.
- `SwitchAssumption`: the monitoring loop is not one of the feeds.

Only model-checked: liveness (`EveryCallReturns`, `TriggerIsServed`, `Recovers`,
`StopReturns`, `StoppedLoopEnds`, `EveryRequestAnswered`, `PublisherReturns`,
`AnalysesEnd`), which is out of the prover's reach. Every invariant and every
other action property that a passing run checks is a theorem, and so are the two
refinements (`ImplementsGate`, `ImplementsLease`).

## Not modelled

- Frame content (contours, hashes, SSIM, sharpness): the tracker and the
  deduplication take what the sensors report as input. Prompts, the parsing of a
  model's answer character by character, templates, the wording of answers,
  charts, SMTP. The language models are environments that answer, fail or hang.
- State that is only reported and never read back into a decision: the audit
  ring and its metrics, the transition history, the session's counters and
  notes, the breaker's and the limiter's totals.
- Read-only endpoints and tools, and the groupings and averages of a query's
  rows: a query's answer is the set of its rows.
- The initialization of the service by two first callers at once, listed above as
  an observation. An exception in a turn after its tool has run, for which the
  user gets an apology (`orchestrator.py:281-311`, `:79-89`): every handler
  returns the dict that those lines expect.
- `set_session` takes the state machine's lock a moment after the current session
  was assigned; the models do both at once, so a transition between the two lines
  may carry the previous session's label.
- The answer of the classifier to an empty message, which the chat and MCP
  endpoints refuse, and the trimming and lower case of its cache key.
- Configuration and start-up code that is read once; the benchmark tool, the
  archive and the deployment files, which are not part of the running program.
