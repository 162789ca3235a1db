----------------------- MODULE MonitoringServiceProofs -----------------------
(***************************************************************************)
(* Theorems about MonitoringService.  The inductive invariant ties the     *)
(* lock to the places of its holder and numbers the loops; a loop that     *)
(* runs is then the newest one, which the service knows or a stopper is    *)
(* about to tell.                                                          *)
(***************************************************************************)
EXTENDS MonitoringService, FiniteSetTheorems, TLAPS

USE DEF None, Loops, countVars

Holding == {"launching", "telling", "joining"}
Stopping == {"telling", "joining"}

(* The life of loops, apart from their places: what the invariant reads.   *)

\* A step of a loop's thread that keeps its loop alive, or lets it end,
\* touches nothing the invariant reads but the phase.
LEMMA ThreadMoves ==
  ASSUME IInv, NEW l \in Loops, NEW where \in Phases \ {"unborn"},
         Alive(l), Go(l, where), UNCHANGED <<ready, callerVars>>,
         told' \in [Loops -> BOOLEAN],
         \A m \in Loops : told[m] => told'[m],
         \A m \in Loops \ {l} : told'[m] = told[m],
         subscribed' \subseteq Loops,
         context' \in [Loops -> Loops \cup {None}],
         \A m \in Loops \ {l} : context'[m] = context[m],
         context'[l] # None <=> where \in {"reading", "writing"},
         seen' \in [Loops -> Nat],
         inspections' \in [Loops -> Nat],
         done' \in [Loops -> Nat],
         credited' \subseteq [by : Loops, board : Nat, to : Loops]
  PROVE  IInv'
  <1>1. /\ phase' \in [Loops -> Phases]
        /\ phase'[l] = where
        /\ \A m \in Loops \ {l} : phase'[m] = phase[m]
    BY DEF IInv, TypeOK, Go
  <1>2. TypeOK'
    BY <1>1 DEF IInv, TypeOK, callerVars
  <1>3. HolderIsBusy' /\ HolderKnows'
    BY DEF IInv, HolderIsBusy, HolderKnows, callerVars
  <1>4. phase[l] # "unborn"
    BY DEF Alive
  <1>5. LoopsAreNumbered'
    BY <1>1, <1>4 DEF IInv, LoopsAreNumbered, callerVars
  <1>6. \A m \in Loops : Runs(m)' => Runs(m)
    BY <1>1 DEF Runs, Alive, IInv, TypeOK
  <1>7. RunningIsKnown'
    BY <1>6 DEF IInv, RunningIsKnown, callerVars
  <1>8. CountingHasContext'
    BY <1>1 DEF IInv, CountingHasContext
  <1> QED BY <1>2, <1>3, <1>5, <1>7, <1>8 DEF IInv

LEMMA ThreadStep ==
  ASSUME IInv, NEW l \in Loops, LoopStep(l)
  PROVE  IInv'
  <1> USE DEF IInv, TypeOK, Phases
  <1>0. /\ phase[l] \notin {"reading", "writing"} => context[l] = None
        /\ phase[l] \in {"reading", "writing"} => context[l] # None
    BY DEF CountingHasContext
  <1>1. CASE Subscribe(l)
    BY <1>0, <1>1, ThreadMoves DEF Subscribe, Alive
  <1>2. CASE SubscribeFails(l)
    BY <1>0, <1>2, ThreadMoves DEF SubscribeFails, Alive
  <1>3. CASE TakeBoard(l)
    BY <1>0, <1>3, ThreadMoves DEF TakeBoard, Alive
  <1>4. CASE InspectionFails(l)
    BY <1>0, <1>4, ThreadMoves DEF InspectionFails, AfterFailure, Alive
  <1>5. CASE InspectionEnds(l)
    <2>1. /\ done' \in [Loops -> Nat] /\ Alive(l) /\ context[l] = None
          /\ UNCHANGED <<ready, callerVars, told, subscribed, context, seen,
                         inspections, credited>>
      BY <1>0, <1>5 DEF InspectionEnds, Alive
    <2>2. PICK where \in {"publishing", "looking"} : Go(l, where)
      BY <1>5 DEF InspectionEnds
    <2> QED BY <2>1, <2>2, ThreadMoves
  <1>6. CASE Publish(l)
    BY <1>0, <1>6, ThreadMoves DEF Publish, Alive
  <1>7. CASE LookForLoop(l)
    BY <1>0, <1>7, ThreadMoves DEF LookForLoop, Alive
  <1>8. CASE FindContext(l)
    <2>1. /\ context' = [context EXCEPT ![l] = current]
          /\ UNCHANGED <<ready, callerVars, told, subscribed, seen, inspections,
                         done, credited>>
          /\ Alive(l)
      BY <1>8 DEF FindContext, Alive
    <2>2. /\ context' \in [Loops -> Loops \cup {None}]
          /\ context'[l] = current
          /\ \A m \in Loops \ {l} : context'[m] = context[m]
      BY <2>1
    <2>3. CASE current = None
      BY <1>8, <2>1, <2>2, <2>3, ThreadMoves DEF FindContext
    <2>4. CASE current # None
      BY <1>8, <2>1, <2>2, <2>4, ThreadMoves DEF FindContext
    <2> QED BY <2>3, <2>4
  <1>12. CASE ReadCount(l)
    <2>1. seen' \in [Loops -> Nat]
      BY <1>0, <1>12 DEF ReadCount
    <2> QED BY <1>0, <1>12, <2>1, ThreadMoves DEF ReadCount, Alive
  <1>13. CASE WriteCount(l)
    <2>1. context[l] \in Loops
      BY <1>0, <1>13 DEF WriteCount
    <2>2. /\ context' \in [Loops -> Loops \cup {None}]
          /\ context'[l] = None
          /\ \A m \in Loops \ {l} : context'[m] = context[m]
      BY <1>13 DEF WriteCount
    <2>3. seen' \in [Loops -> Nat] /\ inspections' \in [Loops -> Nat]
      <3>1. seen[l] + 1 \in Nat
        <4> HIDE DEF IInv, TypeOK
        <4>1. seen \in [Loops -> Nat]
          BY DEF IInv, TypeOK
        <4> QED BY <4>1
      <3>2. seen' = [seen EXCEPT ![l] = 0]
            /\ inspections' = [inspections EXCEPT ![context[l]] = seen[l] + 1]
        BY <1>13 DEF WriteCount
      <3>3. seen' \in [Loops -> Nat]
        BY <3>2
      <3>4. inspections' \in [Loops -> Nat]
        BY <2>1, <3>1, <3>2
      <3> QED BY <3>3, <3>4
    <2>4. credited' \subseteq [by : Loops, board : Nat, to : Loops]
      BY <1>13, <2>1 DEF WriteCount
    <2> QED BY <1>13, <2>2, <2>3, <2>4, ThreadMoves DEF WriteCount, Alive
  <1>9. CASE Quit(l)
    BY <1>0, <1>9, ThreadMoves DEF Quit, Alive
  <1>10. CASE Crash(l)
    BY <1>0, <1>10, ThreadMoves DEF Crash, Alive
  <1>11. CASE Unsubscribe(l)
    BY <1>0, <1>11, ThreadMoves DEF Unsubscribe, Alive
  <1> QED BY <1>1, <1>2, <1>3, <1>4, <1>5, <1>6, <1>7, <1>8, <1>9, <1>10, <1>11,
             <1>12, <1>13
          DEF LoopStep, Proceed

-----------------------------------------------------------------------------
(* Callers that do not hold the lock *)

\* A move of a caller between two places without the lock.
LEMMA CallerMoves ==
  ASSUME IInv, NEW c \in Callers, NEW place \in Places \ Holding,
         pc[c] \notin Holding, Move(c, place),
         ready' \in BOOLEAN,
         UNCHANGED <<made, lock, target, loopVars>>,
         current' = current
  PROVE  IInv'
  <1>1. /\ pc' \in [Callers -> Places]
        /\ pc'[c] \notin Holding
        /\ \A d \in Callers \ {c} : pc'[d] = pc[d]
    BY DEF IInv, TypeOK, Move
  <1>2. \A d \in Callers, p \in Holding : pc'[d] = p <=> pc[d] = p
    BY <1>1 DEF Holding
  <1>3. TypeOK'
    BY <1>1, <1>2 DEF IInv, TypeOK, Holding, loopVars
  <1>4. HolderIsBusy' /\ HolderKnows'
    BY <1>2 DEF IInv, HolderIsBusy, HolderKnows, Holding
  <1>5. LoopsAreNumbered'
    BY <1>2 DEF IInv, LoopsAreNumbered, Holding, loopVars
  <1>6. RunningIsKnown'
    BY <1>2 DEF IInv, RunningIsKnown, Holding, loopVars, Runs, Alive
  <1>7. CountingHasContext'
    BY DEF IInv, CountingHasContext, loopVars
  <1> QED BY <1>3, <1>4, <1>5, <1>6, <1>7 DEF IInv

LEMMA WithoutLock ==
  ASSUME IInv, NEW c \in Callers,
         \/ BeginStart(c) \/ TestRunning(c) \/ Prepare(c) \/ UpdateInstruction(c)
  PROVE  IInv'
  <1> USE DEF Holding, Places
  <1>1. CASE BeginStart(c)
    BY <1>1, CallerMoves DEF BeginStart, IInv, TypeOK
  <1>2. CASE TestRunning(c)
    BY <1>2, CallerMoves DEF TestRunning, IInv, TypeOK
  <1>3. CASE Prepare(c)
    BY <1>3, CallerMoves DEF Prepare, IInv, TypeOK
  <1>4. CASE UpdateInstruction(c)
    BY <1>4, CallerMoves DEF UpdateInstruction, IInv, TypeOK
  <1> QED BY <1>1, <1>2, <1>3, <1>4

-----------------------------------------------------------------------------
(* Callers that take, hold or release it *)

\* Nobody holds the lock while it is free.
LEMMA FreeIsIdle ==
  ASSUME IInv, LockFree
  PROVE  /\ \A c \in Callers : pc[c] \notin Holding
         /\ target = None
  BY ServiceAssumption DEF IInv, HolderIsBusy, LockFree, Holding, TypeOK

\* The holder is the only caller at a place of the lock.
LEMMA OneHolder ==
  ASSUME IInv, NEW c \in Callers, pc[c] \in Holding
  PROVE  /\ lock = c
         /\ \A d \in Callers \ {c} : pc[d] \notin Holding
  BY DEF IInv, HolderIsBusy, Holding

LEMMA InstallStep ==
  ASSUME IInv, NEW c \in Callers, InstallLoop(c)
  PROVE  IInv'
  <1>1. \A d \in Callers : pc[d] \notin Holding
    BY FreeIsIdle DEF InstallLoop
  <1>2. /\ pc' = [pc EXCEPT ![c] = "launching"]
        /\ pc'[c] = "launching"
        /\ \A d \in Callers \ {c} : pc'[d] \notin Holding
    BY <1>1 DEF InstallLoop, Move, IInv, TypeOK
  <1>3. made' = made + 1 /\ current' = made' /\ made' \in Loops /\ target = None
    <2>1. made \in Nat /\ made < MaxLoops /\ made' = made + 1 /\ current' = made'
      BY ServiceAssumption DEF InstallLoop, IInv, TypeOK
    <2>2. target = None
      BY FreeIsIdle DEF InstallLoop
    <2> QED BY <2>1, <2>2, ServiceAssumption
  <1>4. TypeOK'
    BY <1>1, <1>2, <1>3 DEF InstallLoop, IInv, TypeOK, loopVars, Places, Holding
  <1>5. HolderIsBusy' /\ HolderKnows'
    BY <1>2, <1>3 DEF InstallLoop, HolderIsBusy, HolderKnows, Holding
  <1>6. LoopsAreNumbered'
    <2>1. \A l \in Loops : phase[l] = "unborn" <=> l > made
      BY <1>1 DEF IInv, LoopsAreNumbered, Holding
    <2>2. \A l \in Loops :
            phase'[l] = "unborn" <=> l > made' \/ l = made'
      BY <2>1, <1>3 DEF InstallLoop, loopVars, IInv, TypeOK
    <2> QED BY <2>2, <1>2, <1>3
            DEF IInv, LoopsAreNumbered, InstallLoop, loopVars, TypeOK
  <1>7. \A l \in Loops : ~ Runs(l)
    BY <1>1 DEF InstallLoop, AlreadyRuns, IInv, RunningIsKnown, Holding
  <1>8. RunningIsKnown'
    BY <1>7 DEF RunningIsKnown, InstallLoop, loopVars, Runs, Alive
  <1>9. CountingHasContext'
    BY DEF InstallLoop, IInv, CountingHasContext, loopVars
  <1> QED BY <1>4, <1>5, <1>6, <1>8, <1>9 DEF IInv

LEMMA LaunchStep ==
  ASSUME IInv, NEW c \in Callers, LaunchLoop(c)
  PROVE  IInv'
  <1>1. lock = c /\ \A d \in Callers \ {c} : pc[d] \notin Holding
    BY OneHolder DEF LaunchLoop, Holding
  <1>2. /\ pc' = [pc EXCEPT ![c] = "idle"]
        /\ \A d \in Callers : pc'[d] \notin Holding
    BY <1>1 DEF LaunchLoop, Move, Holding, IInv, TypeOK
  <1>3. current = made /\ made \in Loops
    BY DEF LaunchLoop, IInv, HolderKnows
  <1>4. /\ phase' = [phase EXCEPT ![made] = "subscribing"]
        /\ phase'[made] = "subscribing"
        /\ \A l \in Loops \ {made} : phase'[l] = phase[l]
    BY <1>3 DEF LaunchLoop, Go, IInv, TypeOK
  <1>5. target = None
    BY <1>1 DEF LaunchLoop, IInv, TypeOK, Holding
  <1>6. TypeOK'
    BY <1>2, <1>4, <1>5 DEF LaunchLoop, IInv, TypeOK, Places, Phases, Holding
  <1>7. HolderIsBusy' /\ HolderKnows'
    BY <1>2, ServiceAssumption DEF LaunchLoop, HolderIsBusy, HolderKnows, Holding
  <1>8. LoopsAreNumbered'
    BY <1>2, <1>3, <1>4 DEF LaunchLoop, IInv, LoopsAreNumbered, Holding, TypeOK
  <1>9. \A l \in Loops : Runs(l)' => Runs(l) \/ l = made
    BY <1>4 DEF Runs, Alive, LaunchLoop
  <1>10. RunningIsKnown'
    BY <1>1, <1>3, <1>9 DEF LaunchLoop, IInv, RunningIsKnown, Holding
  <1>11. CountingHasContext'
    <2>1. phase[made] = "unborn"
      BY <1>3 DEF LaunchLoop, IInv, LoopsAreNumbered
    <2> QED BY <1>4, <2>1 DEF LaunchLoop, IInv, CountingHasContext
  <1> QED BY <1>6, <1>7, <1>8, <1>10, <1>11 DEF IInv

LEMMA DetachStep ==
  ASSUME IInv, NEW c \in Callers, DetachLoop(c)
  PROVE  IInv'
  <1>1. target = None /\ \A d \in Callers : pc[d] \notin Holding
    BY FreeIsIdle DEF DetachLoop
  <1>2. \A l \in Loops : Runs(l) => l = current
    BY <1>1 DEF IInv, RunningIsKnown, Holding
  <1>5. CountingHasContext'
    BY DEF DetachLoop, IInv, CountingHasContext, loopVars
  <1>3. CASE AlreadyRuns
    <2>1. /\ pc' = [pc EXCEPT ![c] = "telling"] /\ pc'[c] = "telling"
          /\ lock' = c /\ target' = current /\ current \in Loops
          /\ \A d \in Callers \ {c} : pc'[d] \notin Holding
      BY <1>1, <1>3 DEF DetachLoop, Move, AlreadyRuns, IInv, TypeOK
    <2>2. TypeOK'
      <3>1. /\ ready' = ready /\ made' = made /\ UNCHANGED loopVars
            /\ current' = None /\ pc' \in [Callers -> Places]
        BY <1>1, <2>1 DEF DetachLoop, IInv, TypeOK, Places
      <3>2. target' # None /\ \E d \in Callers : pc'[d] \in {"telling", "joining"}
        BY <2>1
      <3> QED BY <2>1, <3>1, <3>2 DEF IInv, TypeOK, loopVars
    <2>3. HolderIsBusy' /\ HolderKnows'
      BY <2>1 DEF DetachLoop, HolderIsBusy, HolderKnows, Holding
    <2>4. LoopsAreNumbered'
      BY <1>1, <2>1 DEF DetachLoop, IInv, LoopsAreNumbered, Holding, loopVars, TypeOK
    <2>5. RunningIsKnown'
      BY <1>2, <2>1 DEF DetachLoop, RunningIsKnown, Runs, Alive, loopVars
    <2> QED BY <1>5, <2>2, <2>3, <2>4, <2>5 DEF IInv
  <1>4. CASE ~ AlreadyRuns
    <2>1. UNCHANGED <<pc, lock, target>> /\ \A l \in Loops : ~ Runs(l)
      BY <1>2, <1>4 DEF DetachLoop, AlreadyRuns
    <2>2. TypeOK'
      BY <1>1, <2>1 DEF DetachLoop, IInv, TypeOK, Holding, loopVars
    <2>3. HolderIsBusy' /\ HolderKnows'
      BY <1>1, <2>1 DEF IInv, HolderIsBusy, HolderKnows, Holding
    <2>4. LoopsAreNumbered'
      BY <1>1, <2>1 DEF DetachLoop, IInv, LoopsAreNumbered, Holding, loopVars
    <2>5. RunningIsKnown'
      BY <2>1 DEF DetachLoop, RunningIsKnown, Runs, Alive, loopVars
    <2> QED BY <1>5, <2>2, <2>3, <2>4, <2>5 DEF IInv
  <1> QED BY <1>3, <1>4

\* The stopper releases the lock when no loop runs but the service's.
LEMMA ReleaseStep ==
  ASSUME IInv, NEW c \in Callers, pc[c] \in Stopping, Release(c),
         UNCHANGED <<ready, current, made, phase, subscribed, countVars>>,
         told' \in [Loops -> BOOLEAN],
         \A l \in Loops : told[l] => told'[l],
         \A l \in Loops : phase[l] = "unborn" => ~ told'[l],
         \A l \in Loops : Runs(l)' => l = current
  PROVE  IInv'
  <1>1. lock = c /\ \A d \in Callers \ {c} : pc[d] \notin Holding
    BY OneHolder DEF Holding, Stopping
  <1>2. /\ pc' = [pc EXCEPT ![c] = "idle"]
        /\ \A d \in Callers : pc'[d] \notin Holding
    BY <1>1 DEF Release, Move, Holding, IInv, TypeOK
  <1>3. target \in Loops
    BY DEF IInv, TypeOK, Stopping
  <1>4. TypeOK'
    BY <1>2 DEF Release, IInv, TypeOK, Places, Holding
  <1>5. HolderIsBusy' /\ HolderKnows'
    BY <1>2, ServiceAssumption DEF Release, HolderIsBusy, HolderKnows, Holding
  <1>6. LoopsAreNumbered'
    BY <1>1, <1>2 DEF Release, IInv, LoopsAreNumbered, Holding, TypeOK, Stopping
  <1>7. RunningIsKnown'
    BY DEF RunningIsKnown
  <1>8. CountingHasContext'
    BY DEF IInv, CountingHasContext
  <1> QED BY <1>4, <1>5, <1>6, <1>7, <1>8 DEF IInv

LEMMA TellStep ==
  ASSUME IInv, NEW c \in Callers, TellLoop(c)
  PROVE  IInv'
  <1>1. lock = c /\ \A d \in Callers \ {c} : pc[d] \notin Holding
    BY OneHolder DEF TellLoop, Holding
  <1>2. target \in Loops
    BY DEF TellLoop, IInv, TypeOK
  <1>3. /\ told' \in [Loops -> BOOLEAN]
        /\ told'[target]
        /\ \A l \in Loops \ {target} : told'[l] = told[l]
    BY <1>2 DEF TellLoop, IInv, TypeOK
  <1>4. \A l \in Loops : Runs(l) => l = current \/ l = target
    BY DEF IInv, RunningIsKnown
  <1>5. phase[target] # "unborn"
    BY <1>1, <1>2 DEF TellLoop, IInv, LoopsAreNumbered, TypeOK, Holding
  <1>6. CASE Alive(target)
    <2>1. /\ pc' = [pc EXCEPT ![c] = "joining"] /\ pc'[c] = "joining"
          /\ UNCHANGED <<lock, target>>
          /\ \A d \in Callers \ {c} : pc'[d] \notin Holding
      BY <1>1, <1>6 DEF TellLoop, Move, IInv, TypeOK
    <2>2. TypeOK'
      BY <1>2, <1>3, <2>1 DEF TellLoop, IInv, TypeOK, Places, Holding
    <2>3. HolderIsBusy' /\ HolderKnows'
      BY <1>1, <2>1 DEF TellLoop, IInv, HolderIsBusy, HolderKnows, Holding
    <2>4. LoopsAreNumbered'
      BY <1>1, <1>3, <1>5, <2>1 DEF TellLoop, IInv, LoopsAreNumbered, Holding, TypeOK
    <2>5. RunningIsKnown'
      BY <1>3, <1>4, <2>1 DEF TellLoop, RunningIsKnown, Runs, Alive, IInv, TypeOK
    <2>6. CountingHasContext'
      BY DEF TellLoop, IInv, CountingHasContext
    <2> QED BY <2>2, <2>3, <2>4, <2>5, <2>6 DEF IInv
  <1>7. CASE ~ Alive(target)
    <2>1. \A l \in Loops : Runs(l)' => l = current
      BY <1>3, <1>4 DEF Runs, Alive, TellLoop
    <2>2. \A l \in Loops : phase[l] = "unborn" => ~ told'[l]
      BY <1>3, <1>5 DEF IInv, LoopsAreNumbered
    <2>3. \A l \in Loops : told[l] => told'[l]
      BY <1>3 DEF IInv, TypeOK
    <2>4. /\ pc[c] \in Stopping
          /\ Release(c)
          /\ UNCHANGED <<ready, current, made, phase, subscribed, countVars>>
      BY <1>7 DEF TellLoop, Stopping
    <2> QED BY <1>3, <2>1, <2>2, <2>3, <2>4, ReleaseStep
  <1> QED BY <1>6, <1>7

\* A join gives up or ends on a loop that was told before.
LEMMA JoinStep ==
  ASSUME IInv, NEW c \in Callers, JoinEnds(c) \/ JoinTimesOut(c)
  PROVE  IInv'
  <1>1. /\ pc[c] = "joining"
        /\ Release(c)
        /\ UNCHANGED <<ready, current, made, loopVars>>
    BY DEF JoinEnds, JoinTimesOut, AfterTimeout
  <1>2. \A d \in Callers : pc[d] # "telling"
    BY <1>1, OneHolder DEF Holding
  <1>3. \A l \in Loops : Runs(l)' => l = current
    BY <1>1, <1>2 DEF IInv, RunningIsKnown, Runs, Alive, loopVars
  <1>4. /\ told' \in [Loops -> BOOLEAN]
        /\ \A l \in Loops : told[l] => told'[l]
        /\ \A l \in Loops : phase[l] = "unborn" => ~ told'[l]
    BY <1>1 DEF IInv, TypeOK, LoopsAreNumbered, loopVars
  <1> QED BY <1>1, <1>3, <1>4, ReleaseStep DEF Stopping, loopVars

-----------------------------------------------------------------------------
(* The invariant *)

LEMMA ServiceInit == Init => IInv
  <1> SUFFICES ASSUME Init PROVE IInv
    OBVIOUS
  <1> USE DEF Init
  <1>1. TypeOK
    <2>1. made \in 0..MaxLoops /\ pc \in [Callers -> Places]
      BY ServiceAssumption DEF Places
    <2>2. ~ \E c \in Callers : pc[c] \in {"telling", "joining"}
      OBVIOUS
    <2>3. /\ phase \in [Loops -> Phases]
          /\ told \in [Loops -> BOOLEAN]
          /\ context \in [Loops -> Loops \cup {None}]
          /\ seen \in [Loops -> Nat]
          /\ inspections \in [Loops -> Nat]
          /\ done \in [Loops -> Nat]
          /\ credited \subseteq [by : Loops, board : Nat, to : Loops]
      BY DEF Phases
    <2> QED BY <2>1, <2>2, <2>3 DEF TypeOK
  <1>2. HolderIsBusy /\ HolderKnows
    BY ServiceAssumption DEF HolderIsBusy, HolderKnows
  <1>3. LoopsAreNumbered
    BY ServiceAssumption DEF LoopsAreNumbered
  <1>4. RunningIsKnown
    BY DEF RunningIsKnown, Runs, Alive
  <1>5. CountingHasContext
    BY DEF CountingHasContext
  <1> QED BY <1>1, <1>2, <1>3, <1>4, <1>5 DEF IInv

LEMMA ServiceStep == IInv /\ [Next]_vars => IInv'
  <1> SUFFICES ASSUME IInv, [Next]_vars PROVE IInv'
    OBVIOUS
  <1>1. ASSUME NEW c \in Callers, CallerStep(c) PROVE IInv'
    BY <1>1, WithoutLock, InstallStep, LaunchStep, DetachStep, TellStep, JoinStep
       DEF CallerStep
  <1>2. ASSUME NEW l \in Loops, LoopStep(l) PROVE IInv'
    BY <1>2, ThreadStep
  <1>3. CASE UNCHANGED vars
    BY <1>3 DEF vars, callerVars, loopVars, IInv, TypeOK, HolderIsBusy,
                HolderKnows, LoopsAreNumbered, CountingHasContext,
                RunningIsKnown, Runs, Alive
  <1> QED BY <1>1, <1>2, <1>3 DEF Next

\* The lock, the numbers of the loops and the loop that runs fit together in
\* every state of the service, for any number of callers and loops.
THEOREM ServiceInductive == Spec => []IInv
  BY ServiceInit, ServiceStep, PTL DEF Spec

\* Every variable of the service keeps its type, and a stopper has a loop to
\* stop exactly while it is at it.
THEOREM ServiceTypeCorrect == Spec => []TypeOK
  <1>1. IInv => TypeOK
    BY DEF IInv
  <1> QED BY <1>1, ServiceInductive, PTL

\* is_monitoring tells the truth: a loop that runs is the one the service
\* knows, or a stopper is about to tell it.
THEOREM RunningLoopIsKnown == Spec => []RunningIsKnown
  <1>1. IInv => RunningIsKnown
    BY DEF IInv
  <1> QED BY <1>1, ServiceInductive, PTL

-----------------------------------------------------------------------------
(* The books of inspections.  A thread that is about to report a board is    *)
(* the only one that can, and nobody has counted that board yet.             *)

Counting == {"reading", "writing"}
Reporting == {"publishing", "looking", "crediting"} \cup Counting

\* The boards counted in the context of a loop.
CountedIn(m) == {a \in credited : a.to = m}

\* A step that counts and inspects nothing and brings no thread to a report
\* leaves the books alone.
LEMMA BooksStay ==
  ASSUME CreditIInv, UNCHANGED countVars,
         \A l \in Loops : told[l] => told'[l],
         \A l \in Loops : phase'[l] \in Reporting => phase[l] \in Reporting,
         \A l \in Loops : phase'[l] \in Counting => phase'[l] = phase[l],
         credited \subseteq [by : Loops, board : Nat, to : Loops]
  PROVE  CreditIInv'
  <1> USE DEF CreditIInv
  <1>1. CreditsAreEarned'
    BY DEF CreditsAreEarned
  <1>2. UncountedIsReported'
    BY DEF UncountedIsReported, Reporting, Counting
  <1>3. CountersAreRead'
    BY DEF CountersAreRead, Counting
  <1> QED BY <1>1, <1>2, <1>3

\* A new board: its thread has counted only earlier ones.
LEMMA InspectedIsUncounted ==
  ASSUME IInv, CreditIInv, NEW l \in Loops, InspectionEnds(l)
  PROVE  CreditIInv'
  <1>1. /\ done' = [done EXCEPT ![l] = @ + 1] /\ done'[l] = done[l] + 1
        /\ done[l] \in Nat
        /\ \A m \in Loops \ {l} : done'[m] = done[m]
        /\ \A m \in Loops : done[m] \in Nat /\ done'[m] \in Nat
        /\ \A m \in Loops : 1..done[m] \subseteq 1..done'[m]
    BY DEF InspectionEnds, IInv, TypeOK
  <1>2. /\ UNCHANGED <<told, context, seen, inspections, credited>>
        /\ \A m \in Loops \ {l} : phase'[m] = phase[m]
        /\ phase'[l] \notin Counting
    BY DEF InspectionEnds, Go, IInv, TypeOK, Counting
  <1>3. \A a \in credited : a.by \in Loops /\ a.board \in 1..done[a.by]
    BY DEF IInv, TypeOK, CreditIInv, CreditsAreEarned
  <1>4. CreditsAreEarned'
    BY <1>1, <1>2, <1>3 DEF CreditIInv, CreditsAreEarned
  <1>5. UncountedIsReported'
    <2> SUFFICES ASSUME NEW m \in Loops, phase'[m] \in Reporting
                 PROVE  /\ done'[m] > 0
                        /\ \A a \in credited : a.by = m => a.board # done'[m]
      BY <1>2 DEF UncountedIsReported, Reporting, Counting
    <2>1. CASE m = l
      BY <1>1, <1>3, <2>1
    <2>2. CASE m # l
      BY <1>1, <1>2, <2>2
         DEF CreditIInv, UncountedIsReported, Reporting, Counting
    <2> QED BY <2>1, <2>2
  <1>6. CountersAreRead'
    BY <1>2 DEF CreditIInv, CountersAreRead, Counting
  <1> QED BY <1>2, <1>4, <1>5, <1>6 DEF CreditIInv

\* proactive_agent is the newest loop: the thread's own, or a younger one, and
\* then the thread's was told to stop, for only one loop runs.
LEMMA FindStep ==
  ASSUME IInv, CreditIInv, NEW l \in Loops, FindContext(l)
  PROVE  CreditIInv'
  <1>1. /\ context'[l] = current
        /\ \A m \in Loops \ {l} : context'[m] = context[m] /\ phase'[m] = phase[m]
        /\ phase'[l] = (IF current = None THEN "watching" ELSE "reading")
        /\ UNCHANGED <<told, seen, inspections, done, credited>>
    BY DEF FindContext, Go, IInv, TypeOK
  <1>2. ASSUME current # None
        PROVE  current = l \/ (l < current /\ told[l])
    <2>1. current = made /\ made \in Nat
      BY <1>2, ServiceAssumption DEF IInv, TypeOK, LoopsAreNumbered
    <2>2. phase[l] = "crediting"
      BY DEF FindContext
    <2>3. l <= made
      BY <2>1, <2>2 DEF IInv, LoopsAreNumbered
    <2>4. Runs(l) => l = current
      BY <1>2 DEF IInv, RunningIsKnown, HolderKnows
    <2>5. l # current => told[l]
      BY <2>2, <2>4 DEF Runs, Alive, IInv, TypeOK
    <2> QED BY <2>1, <2>3, <2>5
  <1>3. CountersAreRead'
    <2> SUFFICES ASSUME NEW m \in Loops, phase'[m] \in Counting
                 PROVE  LET n == context'[m]
                            counted == CountedIn(n)
                        IN  /\ n = m \/ (m < n /\ told[m])
                            /\ phase'[m] = "writing" =>
                                 /\ seen[m] <= Cardinality(counted)
                                 /\ n = m /\ (\A a \in counted : a.by = m) =>
                                      seen[m] = Cardinality(counted)
      BY <1>1 DEF CountersAreRead, Counting, CountedIn
    <2>1. CASE m = l
      BY <1>1, <1>2, <2>1 DEF Counting
    <2>2. CASE m # l
      BY <1>1, <2>2 DEF CreditIInv, CountersAreRead, Counting, CountedIn
    <2> QED BY <2>1, <2>2
  <1>4. UncountedIsReported'
    BY <1>1 DEF CreditIInv, UncountedIsReported, FindContext
  <1>5. CreditsAreEarned'
    BY <1>1 DEF CreditIInv, CreditsAreEarned
  <1> QED BY <1>1, <1>3, <1>4, <1>5 DEF CreditIInv

\* What the thread reads is what the books allow the counter to be.
LEMMA ReadStep ==
  ASSUME IInv, CreditIInv, NEW l \in Loops, ReadCount(l)
  PROVE  CreditIInv'
  <1>1. context[l] \in Loops
    BY DEF ReadCount, IInv, TypeOK, CountingHasContext
  <1>2. /\ seen'[l] = inspections[context[l]]
        /\ \A m \in Loops \ {l} : seen'[m] = seen[m] /\ phase'[m] = phase[m]
        /\ phase[l] = "reading" /\ phase'[l] = "writing"
        /\ UNCHANGED <<told, context, inspections, done, credited>>
    BY DEF ReadCount, Go, IInv, TypeOK
  <1>3. LET counted == CountedIn(context[l])
        IN  /\ seen'[l] <= Cardinality(counted)
            /\ (\A a \in counted : a.by = context[l]) =>
                 seen'[l] = Cardinality(counted)
    BY <1>1, <1>2 DEF CreditIInv, CreditsAreEarned, CountedIn
  <1>4. context[l] = l \/ (l < context[l] /\ told[l])
    BY <1>2 DEF CreditIInv, CountersAreRead
  <1>5. CountersAreRead'
    <2> SUFFICES ASSUME NEW m \in Loops, phase'[m] \in Counting
                 PROVE  LET n == context[m]
                            counted == CountedIn(n)
                        IN  /\ n = m \/ (m < n /\ told[m])
                            /\ phase'[m] = "writing" =>
                                 /\ seen'[m] <= Cardinality(counted)
                                 /\ n = m /\ (\A a \in counted : a.by = m) =>
                                      seen'[m] = Cardinality(counted)
      BY <1>2 DEF CountersAreRead, Counting, CountedIn
    <2>1. CASE m = l
      BY <1>3, <1>4, <2>1
    <2>2. CASE m # l
      BY <1>2, <2>2 DEF CreditIInv, CountersAreRead, Counting, CountedIn
    <2> QED BY <2>1, <2>2
  <1>6. UncountedIsReported'
    BY <1>2 DEF CreditIInv, UncountedIsReported
  <1>7. CreditsAreEarned'
    BY <1>2 DEF CreditIInv, CreditsAreEarned
  <1> QED BY <1>2, <1>5, <1>6, <1>7 DEF CreditIInv

\* The count: the board was not counted before, and the counter ends at most
\* one above what the books held, exactly there if its own thread alone counts.
LEMMA WriteStep ==
  ASSUME IInv, CreditIInv, NEW l \in Loops, WriteCount(l)
  PROVE  CreditIInv'
  <1> DEFINE m == context[l]
             new == [by |-> l, board |-> done[l], to |-> m]
  <1>1. /\ m \in Loops
        /\ m = l \/ (l < m /\ told[l])
        /\ seen[l] \in Nat
        /\ done[l] \in Nat /\ done[l] > 0
        /\ \A a \in credited : a.by = l => a.board # done[l]
    BY DEF WriteCount, IInv, TypeOK, CountingHasContext, CreditIInv,
           CountersAreRead, UncountedIsReported
  <1>2. /\ inspections' = [inspections EXCEPT ![m] = seen[l] + 1]
        /\ credited' = credited \cup {new}
        /\ done' = done /\ told' = told
        /\ phase'[l] = "watching"
        /\ \A k \in Loops \ {l} : /\ phase'[k] = phase[k] /\ seen'[k] = seen[k]
                                   /\ context'[k] = context[k]
    BY DEF WriteCount, Go, IInv, TypeOK
  <1>3. /\ seen[l] <= Cardinality(CountedIn(m))
        /\ m = l /\ (\A a \in CountedIn(m) : a.by = l) =>
             seen[l] = Cardinality(CountedIn(m))
    BY DEF WriteCount, CreditIInv, CountersAreRead, CountedIn
  <1>4. new \notin credited /\ IsFiniteSet(credited')
    BY <1>1, <1>2, FS_AddElement DEF CreditIInv
  <1>5. ASSUME NEW k \in Loops
        PROVE  /\ IsFiniteSet(CountedIn(k)) /\ Cardinality(CountedIn(k)) \in Nat
    BY FS_Subset, FS_CardinalityType DEF CreditIInv, CountedIn
  <1> DEFINE after(k) == {a \in credited' : a.to = k}
  <1>6. /\ Cardinality(after(m)) = Cardinality(CountedIn(m)) + 1
        /\ new \in after(m) /\ new.by = l
        /\ CountedIn(m) \subseteq after(m)
        /\ \A k \in Loops \ {m} : after(k) = CountedIn(k)
    <2>1. after(m) = CountedIn(m) \cup {new}
      BY <1>2 DEF CountedIn
    <2>2. new \notin CountedIn(m)
      BY <1>4 DEF CountedIn
    <2>3. Cardinality(after(m)) = Cardinality(CountedIn(m)) + 1
      BY <2>1, <2>2, <1>1, <1>5, FS_AddElement
    <2>4. \A k \in Loops \ {m} : after(k) = CountedIn(k)
      BY <1>2 DEF CountedIn
    <2> QED BY <2>1, <2>3, <2>4
  <1>7. CreditsAreEarned'
    <2>1. \A a \in credited' :
            /\ a.board \in 1..done'[a.by]
            /\ a.to = a.by \/ (a.by < a.to /\ told'[a.by])
      BY <1>1, <1>2 DEF CreditIInv, CreditsAreEarned
    <2>2. \A a, b \in credited' : a.by = b.by /\ a.board = b.board => a = b
      BY <1>1, <1>2 DEF CreditIInv, CreditsAreEarned
    <2>3. \A k \in Loops :
            /\ inspections'[k] <= Cardinality(after(k))
            /\ (\A a \in after(k) : a.by = k) =>
                 inspections'[k] = Cardinality(after(k))
      <3> HIDE DEF after, new
      <3> TAKE k \in Loops
      <3>1. CASE k = m
        <4>1. inspections'[k] = seen[l] + 1
          BY <1>1, <1>2, <3>1 DEF IInv, TypeOK
        <4>2. Cardinality(CountedIn(m)) \in Nat
          BY <1>1, <1>5
        <4>3. (\A a \in after(m) : a.by = m) =>
                m = l /\ \A a \in CountedIn(m) : a.by = m
          BY <1>6
        <4> QED BY <1>1, <1>3, <1>6, <3>1, <4>1, <4>2, <4>3
      <3>2. CASE k # m
        <4>1. after(k) = CountedIn(k)
          BY <1>6, <3>2
        <4>2. inspections'[k] = inspections[k]
          BY <1>2, <3>2 DEF IInv, TypeOK
        <4> QED BY <4>1, <4>2 DEF CreditIInv, CreditsAreEarned, CountedIn
      <3> QED BY <3>1, <3>2
    <2> QED BY <2>1, <2>2, <2>3 DEF CreditsAreEarned
  <1>8. UncountedIsReported'
    BY <1>2 DEF CreditIInv, UncountedIsReported
  <1>9. CountersAreRead'
    <2>1. \A k \in Loops : phase'[k] \in Counting =>
            LET n == context'[k]
            IN  /\ n = k \/ (k < n /\ told'[k])
                /\ phase'[k] = "writing" =>
                     /\ seen'[k] <= Cardinality(after(n))
                     /\ n = k /\ (\A a \in after(n) : a.by = k) =>
                          seen'[k] = Cardinality(after(n))
      <3> HIDE DEF after, new, m
      <3> SUFFICES ASSUME NEW k \in Loops, phase'[k] \in Counting, NEW n,
                          n = context'[k]
                   PROVE  /\ n = k \/ (k < n /\ told'[k])
                          /\ phase'[k] = "writing" =>
                               /\ seen'[k] <= Cardinality(after(n))
                               /\ n = k /\ (\A a \in after(n) : a.by = k) =>
                                    seen'[k] = Cardinality(after(n))
        OBVIOUS
      <3>1. /\ k # l /\ context[k] = n /\ seen'[k] = seen[k]
            /\ phase'[k] = phase[k] /\ told' = told
        BY <1>2 DEF Counting
      <3>2. n \in Loops /\ seen[k] \in Nat
        BY <3>1 DEF IInv, TypeOK, CountingHasContext, Counting
      <3>3. /\ n = k \/ (k < n /\ told'[k])
            /\ phase[k] = "writing" =>
                 /\ seen[k] <= Cardinality(CountedIn(n))
                 /\ n = k /\ (\A a \in CountedIn(n) : a.by = k) =>
                      seen[k] = Cardinality(CountedIn(n))
        BY <3>1 DEF CreditIInv, CountersAreRead, CountedIn, Counting
      <3>4. CASE n = m
        <4>1. Cardinality(CountedIn(m)) \in Nat
          BY <1>1, <1>5
        <4>2. ~ \A a \in after(m) : a.by = k
          BY <1>6, <3>1
        <4> QED BY <1>6, <3>1, <3>2, <3>3, <3>4, <4>1, <4>2
      <3>5. CASE n # m
        BY <1>6, <3>1, <3>2, <3>3, <3>5
      <3> QED BY <3>4, <3>5
    <2> QED BY <2>1 DEF CountersAreRead, Counting
  <1> QED BY <1>4, <1>7, <1>8, <1>9 DEF CreditIInv

LEMMA CreditStep == IInv /\ CreditIInv /\ [Next]_vars => CreditIInv'
  <1> SUFFICES ASSUME IInv, CreditIInv, [Next]_vars PROVE CreditIInv'
    OBVIOUS
  <1> USE DEF Go, Reporting, Counting, loopVars
  <1>0. /\ phase \in [Loops -> Phases] /\ told \in [Loops -> BOOLEAN]
        /\ credited \subseteq [by : Loops, board : Nat, to : Loops]
    BY DEF IInv, TypeOK
  <1>1. ASSUME NEW c \in Callers, CallerStep(c) PROVE CreditIInv'
    <2>1. CASE LaunchLoop(c)
      BY <1>0, <2>1, BooksStay DEF LaunchLoop
    <2>2. CASE TellLoop(c)
      BY <1>0, <2>2, BooksStay DEF TellLoop
    <2>3. CASE ~ LaunchLoop(c) /\ ~ TellLoop(c)
      BY <1>0, <1>1, <2>3, BooksStay
         DEF CallerStep, BeginStart, TestRunning, Prepare, UpdateInstruction,
             InstallLoop, DetachLoop, JoinEnds, JoinTimesOut
    <2> QED BY <2>1, <2>2, <2>3
  <1>2. ASSUME NEW l \in Loops, LoopStep(l) PROVE CreditIInv'
    <2>1. CASE InspectionEnds(l)
      BY <2>1, InspectedIsUncounted
    <2>2. CASE FindContext(l) \/ ReadCount(l) \/ WriteCount(l)
      BY <2>2, FindStep, ReadStep, WriteStep
    <2>3. CASE Subscribe(l) \/ SubscribeFails(l) \/ TakeBoard(l)
      BY <1>0, <2>3, BooksStay DEF Subscribe, SubscribeFails, TakeBoard
    <2>4. CASE InspectionFails(l) \/ Publish(l) \/ LookForLoop(l)
      BY <1>0, <2>4, BooksStay
         DEF InspectionFails, AfterFailure, Publish, LookForLoop
    <2>5. CASE Quit(l) \/ Crash(l) \/ Unsubscribe(l)
      BY <1>0, <2>5, BooksStay DEF Quit, Crash, Unsubscribe
    <2> QED
      BY <1>2, <2>1, <2>2, <2>3, <2>4, <2>5 DEF LoopStep, Proceed
  <1>3. CASE UNCHANGED vars
    BY <1>0, <1>3, BooksStay DEF vars
  <1> QED BY <1>1, <1>2, <1>3 DEF Next

LEMMA CreditInit == Init => CreditIInv
  <1> SUFFICES ASSUME Init PROVE CreditIInv
    OBVIOUS
  <1>1. \A l \in Loops : {a \in credited : a.to = l} = {}
    BY DEF Init
  <1>2. CreditsAreEarned
    BY <1>1, FS_EmptySet DEF Init, CreditsAreEarned
  <1>3. UncountedIsReported /\ CountersAreRead
    BY DEF Init, UncountedIsReported, CountersAreRead
  <1> QED BY <1>2, <1>3, FS_EmptySet DEF Init, CreditIInv

\* However loops are stopped, outlive their stop and meet their successors, a
\* board is counted at most once, for a loop other than its own only if that
\* one is younger and its own was told to stop, and a context counts nothing
\* else; no increment is lost where no such thread counted (_on_board_ready).
THEOREM EveryCreditIsEarned == Spec => []CreditsAreEarned
  <1>1. CreditIInv => CreditsAreEarned
    BY DEF CreditIInv
  <1> QED
    BY <1>1, CreditInit, CreditStep, ServiceInductive, PTL DEF Spec

-----------------------------------------------------------------------------
(* The service implements the lease *)

Running == {l \in Loops : Runs(l)}
Retired == {l \in Loops : phase[l] # "unborn" /\ ~ Runs(l)}

\* A loop that lives and keeps living, with the same event, stays what it is
\* for the lease.
LEMMA LeaseSame ==
  ASSUME UNCHANGED told,
         \A l \in Loops :
           \/ phase'[l] = phase[l]
           \/ Alive(l) /\ Alive(l)'
  PROVE  UNCHANGED <<Running, Retired>>
  BY DEF Running, Retired, Runs, Alive

\* A running loop that ends, or is told to, retires from the lease.
LEMMA LeaseEnds ==
  ASSUME IInv, NEW l \in Loops, Alive(l),
         ~ Runs(l)', phase'[l] # "unborn",
         \A m \in Loops \ {l} : phase'[m] = phase[m] /\ told'[m] = told[m]
  PROVE  TheLease!Retire \/ UNCHANGED <<Running, Retired>>
  <1>1. CASE ~ Runs(l)
    <2>1. Running' = Running
      BY <1>1 DEF Running, Runs, Alive
    <2>2. Retired' = Retired
      BY <1>1 DEF Retired, Runs, Alive
    <2> QED BY <2>1, <2>2
  <1>2. CASE Runs(l)
    <2>1. \A m \in Loops : Runs(m) => m = l
      BY <1>2 DEF IInv, RunningIsKnown, HolderKnows
    <2>2. Running = {l} /\ Running' = {}
      BY <1>2, <2>1 DEF Running, Runs, Alive
    <2>3. Retired' = Retired \cup {l}
      BY <2>1, <2>2 DEF Running, Retired, Runs, Alive
    <2> QED BY <2>2, <2>3 DEF TheLease!Retire, Running, Retired
  <1> QED BY <1>1, <1>2

\* Installing keeps the lock until the thread of the new loop is started, so
\* no loop runs by then.
LEMMA LaunchGrants ==
  ASSUME IInv, NEW c \in Callers, LaunchLoop(c)
  PROVE  \E l \in Loops : TheLease!Grant(l)
  <1>1. \A d \in Callers : pc[d] \notin Stopping
    BY OneHolder DEF LaunchLoop, Holding, Stopping
  <1>2. PICK l \in Loops : l = made /\ l = current
    BY DEF LaunchLoop, IInv, HolderKnows
  <1>3. phase[l] = "unborn" /\ ~ told[l]
    BY <1>2 DEF LaunchLoop, IInv, LoopsAreNumbered
  <1>4. \A m \in Loops : ~ Runs(m)
    BY <1>1, <1>2, <1>3 DEF IInv, RunningIsKnown, Stopping, Runs, Alive
  <1>5. /\ phase'[l] = "subscribing"
        /\ \A m \in Loops \ {l} : phase'[m] = phase[m]
        /\ told' = told
    BY <1>2 DEF LaunchLoop, Go, IInv, TypeOK
  <1>6. Running = {} /\ Running' = {l}
    BY <1>3, <1>4, <1>5 DEF Running, Runs, Alive
  <1>7. l \notin Retired /\ Retired' = Retired
    BY <1>3, <1>4, <1>5 DEF Retired, Runs, Alive
  <1>8. TheLease!Grant(l)
    BY <1>6, <1>7 DEF TheLease!Grant, Running, Retired
  <1> QED BY <1>8

\* The steps of a thread that only move it.
LEMMA ThreadLease ==
  ASSUME IInv, NEW l \in Loops, LoopStep(l)
  PROVE  TheLease!Retire \/ UNCHANGED <<Running, Retired>>
  <1> USE DEF Go, Alive
  <1>0. phase \in [Loops -> Phases] /\ told \in [Loops -> BOOLEAN]
    BY DEF IInv, TypeOK
  <1>1. CASE SubscribeFails(l)
    <2>1. /\ Alive(l) /\ phase'[l] = "dead"
          /\ \A m \in Loops \ {l} : phase'[m] = phase[m] /\ told'[m] = told[m]
      BY <1>0, <1>1 DEF SubscribeFails
    <2> QED BY <2>1, LeaseEnds DEF Runs
  <1>2. CASE Unsubscribe(l)
    <2>1. /\ Alive(l) /\ phase'[l] = "dead"
          /\ \A m \in Loops \ {l} : phase'[m] = phase[m] /\ told'[m] = told[m]
      BY <1>0, <1>2 DEF Unsubscribe
    <2> QED BY <2>1, LeaseEnds DEF Runs
  <1>3. CASE \/ Subscribe(l) \/ TakeBoard(l) \/ InspectionFails(l)
             \/ InspectionEnds(l) \/ Publish(l) \/ LookForLoop(l)
             \/ FindContext(l) \/ ReadCount(l) \/ WriteCount(l)
             \/ Quit(l) \/ Crash(l)
    <2>1. /\ UNCHANGED told
          /\ phase[l] \notin {"unborn", "dead"}
          /\ phase'[l] \notin {"unborn", "dead"}
          /\ \A m \in Loops \ {l} : phase'[m] = phase[m]
      BY <1>0, <1>3
         DEF Subscribe, TakeBoard, InspectionFails, AfterFailure, InspectionEnds,
             Publish, LookForLoop, FindContext, ReadCount, WriteCount, Quit, Crash
    <2> QED BY <2>1, LeaseSame
  <1> QED BY <1>1, <1>2, <1>3 DEF LoopStep, Proceed

LEMMA CallerLease ==
  ASSUME IInv, NEW c \in Callers, CallerStep(c)
  PROVE  \/ TheLease!Next
         \/ UNCHANGED <<Running, Retired>>
  <1>1. CASE LaunchLoop(c)
    BY <1>1, LaunchGrants DEF TheLease!Next
  <1>2. CASE TellLoop(c)
    <2>1. PICK l \in Loops : l = target
      BY <1>2 DEF TellLoop, IInv, TypeOK
    <2>2. /\ told'[l]
          /\ phase' = phase
          /\ \A m \in Loops \ {l} : told'[m] = told[m]
      BY <1>2, <2>1 DEF TellLoop, IInv, TypeOK
    <2>3. CASE Alive(l)
      BY <2>2, <2>3, LeaseEnds DEF TheLease!Next, Runs, Alive
    <2>4. CASE ~ Alive(l)
      BY <2>2, <2>4 DEF Running, Retired, Runs, Alive
    <2> QED BY <2>3, <2>4
  <1>3. CASE \/ BeginStart(c) \/ TestRunning(c) \/ Prepare(c)
             \/ UpdateInstruction(c) \/ InstallLoop(c) \/ DetachLoop(c)
             \/ JoinEnds(c) \/ JoinTimesOut(c)
    <2>1. UNCHANGED <<phase, told>>
      BY <1>3 DEF BeginStart, TestRunning, Prepare, UpdateInstruction,
                  InstallLoop, DetachLoop, JoinEnds, JoinTimesOut, loopVars
    <2> QED BY <2>1 DEF Running, Retired, Runs, Alive
  <1> QED BY <1>1, <1>2, <1>3 DEF CallerStep

LEMMA LeaseInit == Init => TheLease!Init
  BY DEF Init, TheLease!Init, Runs, Alive

LEMMA LeaseStep == IInv /\ [Next]_vars => [TheLease!Next]_<<Running, Retired>>
  <1> SUFFICES ASSUME IInv, [Next]_vars
               PROVE  TheLease!Next \/ UNCHANGED <<Running, Retired>>
    OBVIOUS
  <1>1. ASSUME NEW c \in Callers, CallerStep(c)
        PROVE  TheLease!Next \/ UNCHANGED <<Running, Retired>>
    BY <1>1, CallerLease
  <1>2. ASSUME NEW l \in Loops, LoopStep(l)
        PROVE  TheLease!Next \/ UNCHANGED <<Running, Retired>>
    BY <1>2, ThreadLease DEF TheLease!Next
  <1>3. CASE UNCHANGED vars
    BY <1>3 DEF vars, loopVars, Running, Retired, Runs, Alive
  <1> QED BY <1>1, <1>2, <1>3 DEF Next

\* However starts, stops, timeouts and crashes interleave, at most one loop
\* runs at a time and a loop that stopped running never runs again.
THEOREM ServiceImplementsLease == Spec => ImplementsLease
  <1>1. IInv /\ [Next]_vars => [TheLease!Next]_<<Running, Retired>>
    BY LeaseStep
  <1> QED BY <1>1, LeaseInit, ServiceInductive, PTL
          DEF Spec, ImplementsLease, TheLease!Spec, Running, Retired

=============================================================================
