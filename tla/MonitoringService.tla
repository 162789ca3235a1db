------------------------- MODULE MonitoringService -------------------------
(***************************************************************************)
(* Starting and stopping the monitoring loop (services/core/monitoring.py, *)
(* MonitoringLoop.start and stop) and what a loop's thread does with the   *)
(* service while others start and stop it.                                 *)
(*                                                                         *)
(* _proactive_lock covers the replacement of the loop, and a stopper keeps *)
(* it while it joins the loop's thread for at most five seconds.  The      *)
(* thread needs that lock when it publishes a result, and everyone reads   *)
(* proactive_agent without it, twice, to test it and to use it.  The       *)
(* counter of a context is incremented without any lock, by the thread of  *)
(* its loop and by threads that stopped loops left behind.                 *)
(***************************************************************************)
EXTENDS Naturals, FiniteSets

CONSTANTS
  Callers,      \* threads that start and stop monitoring
  MaxLoops,     \* bound of the model: loops ever created
  MaxBoards,    \* bound of the model: boards each loop inspects
  NoCaller

ASSUME ServiceAssumption ==
  MaxLoops \in Nat /\ MaxBoards \in Nat /\ NoCaller \notin Callers

VARIABLES
  ready,         \* _initialized: there is an agent and a publisher
  current,       \* proactive_agent, None or a loop
  made,          \* loops created so far; they are numbered in that order
  lock,          \* the caller that holds _proactive_lock between two steps
  target,        \* the loop it stops
  pc,            \* where each caller is
  phase,         \* where the thread of each loop is
  told,          \* _stop_event of each loop
  subscribed,    \* loops with a camera subscription
  context,       \* the loop whose context each thread is about to count in
  seen,          \* what that thread read there
  inspections,   \* context.inspections_completed of each loop
  done,          \* history: boards the thread of each loop inspected
  credited       \* history: which of them were counted, and for which loop

callerVars == <<current, made, lock, target, pc>>
countVars  == <<context, seen, inspections, done, credited>>
loopVars   == <<phase, told, subscribed, countVars>>
vars == <<ready, callerVars, loopVars>>

None  == 0
Loops == 1..MaxLoops

Places == {"idle", "testing", "preparing", "installing", "launching",
           "telling", "joining"}
Phases == {"unborn", "subscribing", "watching", "inspecting", "publishing",
           "looking", "crediting", "reading", "writing", "leaving", "dead"}

Move(c, place) == pc' = [pc EXCEPT ![c] = place]
Go(l, where)   == phase' = [phase EXCEPT ![l] = where]

Alive(l) == phase[l] \notin {"unborn", "dead"}

\* MonitoringLoop.is_running.
Runs(l) == Alive(l) /\ ~ told[l]

LockFree == lock = NoCaller

Init ==
  /\ ready = FALSE
  /\ current = None
  /\ made = 0
  /\ lock = NoCaller
  /\ target = None
  /\ pc = [c \in Callers |-> "idle"]
  /\ phase = [l \in Loops |-> "unborn"]
  /\ told = [l \in Loops |-> FALSE]
  /\ subscribed = {}
  /\ context = [l \in Loops |-> None]
  /\ seen = [l \in Loops |-> 0]
  /\ inspections = [l \in Loops |-> 0]
  /\ done = [l \in Loops |-> 0]
  /\ credited = {}

-----------------------------------------------------------------------------
(* start_monitoring *)

\* is_monitoring, first read of proactive_agent.
BeginStart(c) ==
  /\ pc[c] = "idle"
  /\ Move(c, IF current = None THEN "preparing" ELSE "testing")
  /\ UNCHANGED <<ready, current, made, lock, target, loopVars>>

\* Second read: "already active" if the loop runs, and an AttributeError if
\* somebody stopped it since.
TestRunning(c) ==
  /\ pc[c] = "testing"
  /\ Move(c, IF current # None /\ ~ Runs(current) THEN "preparing" ELSE "idle")
  /\ UNCHANGED <<ready, current, made, lock, target, loopVars>>

\* _ensure_initialized, which may fail, and the checks of the instruction,
\* which may refuse.
Prepare(c) ==
  /\ pc[c] = "preparing"
  /\ \/ ready' = TRUE /\ Move(c, "installing")
     \/ ready' \in {ready, TRUE} /\ Move(c, "idle")
  /\ UNCHANGED <<current, made, lock, target, loopVars>>

\* Mutant: a loop counts as running only once it has its subscription.
AlreadyRuns_late == current # None /\ Runs(current) /\ current \in subscribed

AlreadyRuns == current # None /\ Runs(current)

\* start_proactive_monitoring: a loop that runs gets the new instruction.
UpdateInstruction(c) ==
  /\ pc[c] = "installing"
  /\ LockFree
  /\ AlreadyRuns
  /\ Move(c, "idle")
  /\ UNCHANGED <<ready, current, made, lock, target, loopVars>>

\* start_proactive_monitoring: otherwise a new loop takes its place ...
InstallLoop(c) ==
  /\ pc[c] = "installing"
  /\ LockFree
  /\ ~ AlreadyRuns
  /\ made < MaxLoops
  /\ made' = made + 1
  /\ current' = made'
  /\ lock' = c
  /\ Move(c, "launching")
  /\ UNCHANGED <<ready, target, loopVars>>

\* ... and its thread is started (MonitoringLoop.start).
LaunchLoop(c) ==
  /\ pc[c] = "launching"
  /\ Go(current, "subscribing")
  /\ Move(c, "idle")
  /\ lock' = NoCaller
  /\ UNCHANGED <<ready, current, made, target, told, subscribed, countVars>>

-----------------------------------------------------------------------------
(* stop_monitoring *)

\* The loop is taken out of the service before it is told to stop.
DetachLoop(c) ==
  /\ pc[c] = "idle"
  /\ LockFree
  /\ current' = None
  /\ IF AlreadyRuns
     THEN Move(c, "telling") /\ lock' = c /\ target' = current
     ELSE UNCHANGED <<pc, lock, target>>
  /\ UNCHANGED <<ready, made, loopVars>>

Release(c) == lock' = NoCaller /\ target' = None /\ Move(c, "idle")

\* MonitoringLoop.stop: set the event and join the thread if it lives.
TellLoop(c) ==
  /\ pc[c] = "telling"
  /\ told' = [told EXCEPT ![target] = TRUE]
  /\ IF Alive(target)
     THEN Move(c, "joining") /\ UNCHANGED <<lock, target>>
     ELSE Release(c)
  /\ UNCHANGED <<ready, current, made, phase, subscribed, countVars>>

JoinEnds(c) ==
  /\ pc[c] = "joining"
  /\ ~ Alive(target)
  /\ Release(c)
  /\ UNCHANGED <<ready, current, made, loopVars>>

\* Mutant: join without a timeout.
MayGiveUp_never(l) == ~ Alive(l)

\* join(timeout=5.0) returns although the thread lives.
MayGiveUp(l) == Alive(l)

\* Mutant: the lock is released only when the thread has ended.
AfterTimeout_leaks(c) == Move(c, "idle") /\ UNCHANGED <<lock, target>>

AfterTimeout(c) == Release(c)

JoinTimesOut(c) ==
  /\ pc[c] = "joining"
  /\ MayGiveUp(target)
  /\ AfterTimeout(c)
  /\ UNCHANGED <<ready, current, made, loopVars>>

-----------------------------------------------------------------------------
(* The thread of a loop *)

Subscribe(l) ==
  /\ phase[l] = "subscribing"
  /\ Go(l, "watching")
  /\ subscribed' = subscribed \cup {l}
  /\ UNCHANGED <<ready, callerVars, told, countVars>>

\* subscribe refuses, or there is no publisher.
SubscribeFails(l) ==
  /\ phase[l] = "subscribing"
  /\ told' = [told EXCEPT ![l] = TRUE]
  /\ Go(l, "dead")
  /\ UNCHANGED <<ready, callerVars, subscribed, countVars>>

\* A board settled and the stop event was not set when the loop looked.
TakeBoard(l) ==
  /\ phase[l] = "watching"
  /\ ~ told[l]
  /\ done[l] < MaxBoards
  /\ Go(l, "inspecting")
  /\ UNCHANGED <<ready, callerVars, told, subscribed, countVars>>

\* Mutant: the handler of a failed analysis does not return.
AfterFailure_goesOn == "looking"

AfterFailure == "watching"

\* The analysis raises or has no event.
InspectionFails(l) ==
  /\ phase[l] = "inspecting"
  /\ Go(l, AfterFailure)
  /\ UNCHANGED <<ready, callerVars, told, subscribed, countVars>>

\* The analysis has an event.  Storing it may fail, and then nothing is
\* published.
InspectionEnds(l) ==
  /\ phase[l] = "inspecting"
  /\ done' = [done EXCEPT ![l] = @ + 1]
  /\ Go(l, "publishing") \/ Go(l, "looking")
  /\ UNCHANGED <<ready, callerVars, told, subscribed, context, seen,
                 inspections, credited>>

\* _record_detection: _serialize_stats takes _proactive_lock.
Publish(l) ==
  /\ phase[l] = "publishing"
  /\ LockFree
  /\ Go(l, "looking")
  /\ UNCHANGED <<ready, callerVars, told, subscribed, countVars>>

\* "if self.proactive_agent"
LookForLoop(l) ==
  /\ phase[l] = "looking"
  /\ Go(l, IF current = None THEN "watching" ELSE "crediting")
  /\ UNCHANGED <<ready, callerVars, told, subscribed, countVars>>

\* The second read of proactive_agent finds None, and the AttributeError is
\* caught, or a loop, which may be newer than this one.
FindContext(l) ==
  /\ phase[l] = "crediting"
  /\ context' = [context EXCEPT ![l] = current]
  /\ Go(l, IF current = None THEN "watching" ELSE "reading")
  /\ UNCHANGED <<ready, callerVars, told, subscribed, seen, inspections, done,
                 credited>>

\* "ctx.inspections_completed += 1" reads the counter ...
ReadCount(l) ==
  /\ phase[l] = "reading"
  /\ seen' = [seen EXCEPT ![l] = inspections[context[l]]]
  /\ Go(l, "writing")
  /\ UNCHANGED <<ready, callerVars, told, subscribed, context, inspections, done,
                 credited>>

\* ... and writes it, whatever other threads wrote since.
WriteCount(l) ==
  /\ phase[l] = "writing"
  /\ inspections' = [inspections EXCEPT ![context[l]] = seen[l] + 1]
  /\ credited' =
       credited \cup {[by |-> l, board |-> done[l], to |-> context[l]]}
  /\ context' = [context EXCEPT ![l] = None]
  /\ seen' = [seen EXCEPT ![l] = 0]
  /\ Go(l, "watching")
  /\ UNCHANGED <<ready, callerVars, told, subscribed, done>>

\* The stop event ends the loop, and an exception between two boards does.
Quit(l) ==
  /\ phase[l] = "watching"
  /\ told[l]
  /\ Go(l, "leaving")
  /\ UNCHANGED <<ready, callerVars, told, subscribed, countVars>>

Crash(l) ==
  /\ phase[l] = "watching"
  /\ Go(l, "leaving")
  /\ UNCHANGED <<ready, callerVars, told, subscribed, countVars>>

\* The finally clause of _loop.
Unsubscribe(l) ==
  /\ phase[l] = "leaving"
  /\ subscribed' = subscribed \ {l}
  /\ Go(l, "dead")
  /\ UNCHANGED <<ready, callerVars, told, countVars>>

-----------------------------------------------------------------------------

CallerStep(c) ==
  \/ BeginStart(c) \/ TestRunning(c) \/ Prepare(c)
  \/ UpdateInstruction(c) \/ InstallLoop(c) \/ LaunchLoop(c)
  \/ DetachLoop(c) \/ TellLoop(c) \/ JoinEnds(c) \/ JoinTimesOut(c)

\* What the thread of a loop does by itself, without a board or a fault.
Proceed(l) ==
  \/ Subscribe(l) \/ SubscribeFails(l)
  \/ InspectionFails(l) \/ InspectionEnds(l)
  \/ Publish(l) \/ LookForLoop(l)
  \/ FindContext(l) \/ ReadCount(l) \/ WriteCount(l)
  \/ Quit(l) \/ Unsubscribe(l)

LoopStep(l) == Proceed(l) \/ TakeBoard(l) \/ Crash(l)

Next == (\E c \in Callers : CallerStep(c)) \/ (\E l \in Loops : LoopStep(l))

Spec == Init /\ [][Next]_vars

\* Threads run, an inspection is a call with timeouts of its own, and a join
\* ends or times out.  Nobody has to start or stop anything.
Fairness ==
  /\ \A l \in Loops : WF_vars(Proceed(l))
  /\ \A c \in Callers :
       WF_vars(LaunchLoop(c) \/ TellLoop(c) \/ JoinEnds(c) \/ JoinTimesOut(c))

FairSpec == Spec /\ Fairness

-----------------------------------------------------------------------------
(* Properties *)

TypeOK ==
  /\ ready \in BOOLEAN
  /\ current \in Loops \cup {None}
  /\ made \in 0..MaxLoops
  /\ lock \in Callers \cup {NoCaller}
  /\ target \in Loops \cup {None}
  /\ target # None <=> \E c \in Callers : pc[c] \in {"telling", "joining"}
  /\ pc \in [Callers -> Places]
  /\ phase \in [Loops -> Phases]
  /\ told \in [Loops -> BOOLEAN]
  /\ subscribed \subseteq Loops
  /\ context \in [Loops -> Loops \cup {None}]
  /\ seen \in [Loops -> Nat]
  /\ inspections \in [Loops -> Nat]
  /\ done \in [Loops -> Nat]
  /\ credited \subseteq [by : Loops, board : Nat, to : Loops]

\* is_monitoring tells the truth: a loop that runs is the one the service
\* knows, except for the moment in which a stopper has detached it and not yet
\* told it.
RunningIsKnown ==
  \A l \in Loops :
    Runs(l) => l = current \/ (l = target /\ \E c \in Callers : pc[c] = "telling")

\* What the context of a loop counts.  Every count is a board that somebody
\* inspected, and none is counted twice.  It is a board of another loop only if
\* that one is older and was told to stop: a thread that a timed out join left
\* behind reports to its successor.  Increments that overlap are lost, so the
\* counter may fall short of the boards counted in it, but only where such a
\* thread counted (_on_board_ready, MonitoringLoop.stop).
CreditsAreEarned ==
  /\ \A a \in credited :
       /\ a.board \in 1..done[a.by]
       /\ a.to = a.by \/ (a.by < a.to /\ told[a.by])
  /\ \A a, b \in credited : a.by = b.by /\ a.board = b.board => a = b
  /\ \A l \in Loops :
       LET counted == {a \in credited : a.to = l}
       IN  /\ inspections[l] <= Cardinality(counted)
           /\ (\A a \in counted : a.by = l) =>
                inspections[l] = Cardinality(counted)

\* Nobody waits in the join for ever, although the stopper holds the lock that
\* the thread it waits for may need.
StopReturns == \A c \in Callers : []<>(pc[c] # "joining")

\* A loop that was told to stop gives its subscription back in the end, also
\* when the join gave up on it.
StoppedLoopEnds ==
  \A l \in Loops : []<>(told[l] => ~ Alive(l) /\ l \notin subscribed)

\* The service grants the camera to one loop at a time, and to each loop once.
TheLease ==
  INSTANCE MonitoringLease WITH
    running <- {l \in Loops : Runs(l)},
    retired <- {l \in Loops : phase[l] # "unborn" /\ ~ Runs(l)}

ImplementsLease == TheLease!Spec

(* The inductive invariant: who holds the lock, and which loop it is about.  *)

HolderIsBusy ==
  \A c \in Callers :
    (lock = c) = (pc[c] \in {"launching", "telling", "joining"})

HolderKnows ==
  \A c \in Callers :
    /\ pc[c] = "launching" => current = made /\ made \in Loops
    /\ pc[c] \in {"telling", "joining"} => current = None

LoopsAreNumbered ==
  /\ current \in {None, made}
  /\ target <= made
  /\ \A l \in Loops :
       phase[l] = "unborn" <=>
         l > made \/ (l = made /\ \E c \in Callers : pc[c] = "launching")
  /\ \A l \in Loops : phase[l] = "unborn" => ~ told[l]

CountingHasContext ==
  \A l \in Loops : context[l] # None <=> phase[l] \in {"reading", "writing"}

IInv ==
  /\ TypeOK /\ HolderIsBusy /\ HolderKnows /\ LoopsAreNumbered
  /\ CountingHasContext /\ RunningIsKnown

\* The board a thread is about to report was inspected and not yet counted.
UncountedIsReported ==
  \A l \in Loops :
    phase[l] \in {"publishing", "looking", "crediting", "reading", "writing"} =>
      /\ done[l] > 0
      /\ \A a \in credited : a.by = l => a.board # done[l]

\* A thread counts in the context of its own loop, or of a younger one when it
\* was told to stop; what it read there was not too much, and is still there if
\* nobody else counted.
CountersAreRead ==
  \A l \in Loops : phase[l] \in {"reading", "writing"} =>
    LET m == context[l]
        counted == {a \in credited : a.to = m}
    IN  /\ m = l \/ (l < m /\ told[l])
        /\ phase[l] = "writing" =>
             /\ seen[l] <= Cardinality(counted)
             /\ m = l /\ (\A a \in counted : a.by = l) =>
                  seen[l] = Cardinality(counted)

CreditIInv ==
  /\ CreditsAreEarned /\ UncountedIsReported /\ CountersAreRead
  /\ IsFiniteSet(credited)

=============================================================================
