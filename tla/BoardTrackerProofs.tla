------------------------- MODULE BoardTrackerProofs -------------------------
(***************************************************************************)
(* Proofs about the monitoring loop for all depths of the hysteresis, all  *)
(* limits and any number of boards: type correctness, that a present board *)
(* is tracked, that no signature is inspected twice, and that a new track  *)
(* never takes over an inspected signature.                                *)
(***************************************************************************)
EXTENDS BoardTracker, FiniteSetTheorems, TLAPS

-----------------------------------------------------------------------------
(* Sensing *)

\* The hysteresis keeps its counters within the depths.
LEMMA DebounceType ==
  ASSUME TypeOK, NEW f \in Frames, Debounce(f.strong)
  PROVE  present' \in BOOLEAN /\ presence' \in 0..PresenceConfirm
         /\ absence' \in 0..AbsenceConfirm
<1>1. f.strong \in BOOLEAN
  BY DEF Frames
<1>2. CASE f.strong
  BY <1>2, TrackerAssumption DEF TypeOK, Debounce, AtMost
<1>3. CASE ~ f.strong
  BY <1>3, TrackerAssumption DEF TypeOK, Debounce, AtMost
<1>4. QED
  BY <1>1, <1>2, <1>3

\* The tracker hands out ids in order; it keeps, drops or replaces the track.
LEMMA TrackerStep ==
  ASSUME TypeOK, NEW box \in BOOLEAN, NEW overlap \in BOOLEAN,
         NEW moving \in BOOLEAN, UpdateTracker(box, overlap, moving)
  PROVE  /\ lost' \in 0..(MaxLost + 1)
         /\ active' \in Tracks \cup {None}
         /\ next' \in 1..(MaxTracks + 1)
         /\ \/ active' = active /\ next' = next
            \/ active' = None /\ next' = next
            \/ active' = next /\ next' = next + 1
         /\ box => lost' = 0 /\ active' # None
         /\ ~ box => lost' <= lost + 1 /\ (lost' <= MaxLost => active' = active)
<1>1. CASE ~ box
  BY <1>1, TrackerAssumption
     DEF TypeOK, UpdateTracker, LoseTrack, AtMost, None, Tracks
<1>2. CASE box /\ (active = None \/ (~ overlap /\ moving))
  BY <1>2, TrackerAssumption DEF TypeOK, UpdateTracker, NewTrack, None, Tracks
<1>3. CASE box /\ ~ (active = None \/ (~ overlap /\ moving))
  BY <1>3, TrackerAssumption DEF TypeOK, UpdateTracker, None, Tracks
<1>4. QED
  BY <1>1, <1>2, <1>3

\* What one observation does to the sensor state.
LEMMA ObserveStep ==
  ASSUME TypeOK, NEW f \in Frames, Observe(f)
  PROVE  /\ present' \in BOOLEAN /\ presence' \in 0..PresenceConfirm
         /\ absence' \in 0..AbsenceConfirm
         /\ lost' \in 0..(MaxLost + 1)
         /\ active' \in Tracks \cup {None}
         /\ next' \in 1..(MaxTracks + 1)
         /\ sig' \in Signatures \cup {None}
         /\ stopped' \in BOOLEAN
         /\ stopped' => present'
         /\ present' => sig' # None
         /\ \/ active' = active /\ next' = next
            \/ active' = None /\ next' = next
            \/ active' = next /\ next' = next + 1
<1>1. f.overlap \in BOOLEAN /\ f.moving \in BOOLEAN /\ f.candidate \in BOOLEAN
  BY DEF Frames
<1>2. present' \in BOOLEAN /\ presence' \in 0..PresenceConfirm
      /\ absence' \in 0..AbsenceConfirm
  BY DebounceType DEF Observe
<1>3. Tracked(f) \in BOOLEAN
  BY <1>1, <1>2 DEF Tracked
<1>4. UpdateTracker(Tracked(f), f.overlap, f.moving)
  BY DEF Observe
<1>5. /\ lost' \in 0..(MaxLost + 1)
      /\ active' \in Tracks \cup {None}
      /\ next' \in 1..(MaxTracks + 1)
      /\ \/ active' = active /\ next' = next
         \/ active' = None /\ next' = next
         \/ active' = next /\ next' = next + 1
  BY <1>1, <1>3, <1>4, TrackerStep
<1>6. /\ sig' = IF active' # None THEN active' ELSE IF present' THEN Hash ELSE None
      /\ stopped' = (present' /\ ~ f.moving)
  BY DEF Observe
<1>7. Hash # None
  BY TrackerAssumption DEF None
<1>8. sig' \in Signatures \cup {None} /\ (present' => sig' # None)
  BY <1>5, <1>6, <1>7 DEF Signatures
<1>9. stopped' \in BOOLEAN /\ (stopped' => present')
  BY <1>1, <1>2, <1>6
<1>10. QED
  BY <1>2, <1>5, <1>8, <1>9

-----------------------------------------------------------------------------
(* Type correctness *)

LEMMA TypeInit == Init => TypeOK
<1> SUFFICES ASSUME Init PROVE TypeOK
  OBVIOUS
<1>1. presence \in 0..PresenceConfirm /\ absence \in 0..AbsenceConfirm
      /\ next \in 1..(MaxTracks + 1) /\ lost \in 0..(MaxLost + 1)
  BY TrackerAssumption DEF Init
<1>2. fired \in [Signatures -> Nat]
  BY DEF Init
<1>3. QED
  BY <1>1, <1>2 DEF Init, TypeOK, Phases

\* Remember keeps the set a set of signatures and moves to a legal phase.
LEMMA RememberStep ==
  ASSUME TypeOK, NEW s \in Signatures, Remember(s)
  PROVE  /\ inspected' \subseteq Signatures
         /\ phase' \in {"settling", "crashed"}
         /\ phase' = "settling" => inspected' = inspected \cup {s}
  BY DEF TypeOK, Remember

LEMMA TypeStep == TypeOK /\ [Next]_vars => TypeOK'
<1> SUFFICES ASSUME TypeOK, [Next]_vars PROVE TypeOK'
  OBVIOUS
<1> USE DEF Phases
<1>1. ASSUME NEW f \in Frames, ObserveFrame(f) PROVE TypeOK'
  <2>1. Observe(f) /\ stopRequested' = stopRequested /\ fired' = fired
    BY <1>1 DEF ObserveFrame
  <2>2. CASE stopped' /\ ~ stopped /\ sig' # None /\ sig' \notin inspected
    <3>1. Remember(sig') /\ trigger' = sig' /\ best' = None
      BY <1>1, <2>2 DEF ObserveFrame
    <3>2. sig' \in Signatures
      BY <2>1, <2>2, ObserveStep
    <3>3. inspected' \subseteq Signatures /\ phase' \in {"settling", "crashed"}
      <4> DEFINE s == sig'
      <4>1. PICK r \in Signatures : r = sig'
        BY <3>2
      <4>2. Remember(r)
        BY <3>1, <4>1
      <4>3. QED
        BY <4>2, RememberStep
    <3>4. QED
      BY <2>1, <2>2, <3>1, <3>2, <3>3, ObserveStep DEF TypeOK
  <2>3. CASE ~ (stopped' /\ ~ stopped /\ sig' # None /\ sig' \notin inspected)
    <3>1. UNCHANGED <<phase, inspected, trigger, best>>
      BY <1>1, <2>3 DEF ObserveFrame
    <3>2. QED
      BY <2>1, <3>1, ObserveStep DEF TypeOK
  <2>4. QED
    BY <2>2, <2>3
<1>2. ASSUME NEW f \in Frames, NEW sharper \in BOOLEAN, SettleFrame(f, sharper)
      PROVE TypeOK'
  <2>1. /\ Observe(f)
        /\ UNCHANGED <<inspected, phase, trigger, fired, stopRequested>>
        /\ best' = IF stopped' /\ sharper THEN sig' ELSE best
    BY <1>2 DEF SettleFrame
  <2>2. best' \in Signatures \cup {None, Unseen}
    BY <2>1, ObserveStep DEF TypeOK
  <2>3. QED
    BY <2>1, <2>2, ObserveStep DEF TypeOK
<1>3. CASE SettleEnds
  <2>1. best' \in Signatures \cup {None, Unseen}
    BY <1>3 DEF SettleEnds, InspectionFrames, TypeOK
  <2>2. fired' \in [Signatures -> Nat]
    BY <1>3 DEF SettleEnds, TypeOK
  <2>3. QED
    BY <1>3, <2>1, <2>2 DEF SettleEnds, sensorVars, TypeOK
<1>4. CASE InspectionReturns
  BY <1>4 DEF InspectionReturns, sensorVars, TypeOK
<1>5. CASE LoopEnds
  BY <1>5 DEF LoopEnds, sensorVars, TypeOK
<1>6. CASE RequestStop
  BY <1>6 DEF RequestStop, sensorVars, loopVars, TypeOK
<1>7. CASE UNCHANGED vars
  BY <1>7 DEF vars, sensorVars, loopVars, TypeOK
<1>8. QED
  BY <1>1, <1>2, <1>3, <1>4, <1>5, <1>6, <1>7 DEF Next, LoopStep

\* The variables of the loop keep their types: the hysteresis counters stay
\* within the configured depths and a settling loop knows its trigger.
THEOREM TrackerTypeCorrect == Spec => []TypeOK
  BY TypeInit, TypeStep, PTL DEF Spec

-----------------------------------------------------------------------------
(* A present board is tracked *)

TrackedInv == LostIsAbsent /\ sig # Hash

\* One observation keeps the tracker ahead of the presence sensor, when it
\* forgives at least as many frames.
LEMMA TrackedObserve ==
  ASSUME AbsenceConfirm <= MaxLost + 1, TypeOK, LostIsAbsent,
         NEW f \in Frames, Observe(f)
  PROVE  LostIsAbsent' /\ sig' # Hash
<1>1. /\ f.strong \in BOOLEAN /\ f.overlap \in BOOLEAN /\ f.moving \in BOOLEAN
      /\ f.candidate \in BOOLEAN /\ (f.strong => f.candidate)
  BY DEF Frames
<1>2. present' \in BOOLEAN /\ absence' \in 0..AbsenceConfirm
      /\ lost' \in 0..(MaxLost + 1) /\ active' \in Tracks \cup {None}
  BY ObserveStep
<1>3. Debounce(f.strong) /\ UpdateTracker(Tracked(f), f.overlap, f.moving)
      /\ sig' = IF active' # None THEN active' ELSE IF present' THEN Hash ELSE None
  BY DEF Observe
<1>4. Tracked(f) \in BOOLEAN /\ Tracked(f) = (present' /\ f.candidate)
  BY <1>1, <1>2 DEF Tracked
<1>5. /\ Tracked(f) => lost' = 0 /\ active' # None
      /\ ~ Tracked(f) => lost' <= lost + 1 /\ (lost' <= MaxLost => active' = active)
  BY <1>1, <1>3, <1>4, TrackerStep
<1>6. CASE ~ present'
  BY <1>3, <1>6, <1>2, TrackerAssumption DEF LostIsAbsent, None, Tracks
<1>7. CASE present' /\ f.strong
  <2>1. absence' = 0
    BY <1>3, <1>7 DEF Debounce
  <2>2. Tracked(f)
    BY <1>1, <1>4, <1>7
  <2>3. lost' = 0 /\ active' # None
    BY <1>5, <2>2
  <2>4. QED
    BY <2>1, <2>3, <1>2, <1>3, TrackerAssumption DEF LostIsAbsent, None, Tracks
<1>8. CASE present' /\ ~ f.strong
  <2>1. present /\ absence' = AtMost(AbsenceConfirm, absence + 1)
        /\ absence' < AbsenceConfirm
    BY <1>3, <1>8 DEF Debounce
  <2>2. absence' = absence + 1
    BY <2>1, <1>2, TrackerAssumption DEF TypeOK, AtMost
  <2>3. lost <= absence /\ active # None
    BY <2>1 DEF LostIsAbsent
  <2>4. CASE Tracked(f)
    BY <1>2, <1>3, <1>5, <2>1, <2>2, <2>4, TrackerAssumption
       DEF LostIsAbsent, None, Tracks
  <2>5. CASE ~ Tracked(f)
    <3>1. lost' <= absence'
      BY <1>2, <1>5, <2>2, <2>3, <2>5, TrackerAssumption DEF TypeOK
    <3>2. lost' <= MaxLost
      BY <3>1, <1>2, <2>1, TrackerAssumption
    <3>3. active' # None
      BY <1>5, <2>3, <2>5, <3>2
    <3>4. QED
      BY <1>2, <1>3, <2>1, <3>1, <3>3, TrackerAssumption
         DEF LostIsAbsent, None, Tracks
  <2>6. QED
    BY <1>4, <2>4, <2>5
<1>9. QED
  BY <1>1, <1>2, <1>6, <1>7, <1>8

LEMMA TrackedStep ==
  ASSUME AbsenceConfirm <= MaxLost + 1
  PROVE  TypeOK /\ TrackedInv /\ [Next]_vars => TrackedInv'
<1> SUFFICES ASSUME TypeOK, TrackedInv, [Next]_vars PROVE TrackedInv'
  OBVIOUS
<1>1. ASSUME NEW f \in Frames, Observe(f) PROVE TrackedInv'
  BY <1>1, TrackedObserve DEF TrackedInv
<1>2. CASE UNCHANGED sensorVars
  BY <1>2 DEF sensorVars, TrackedInv, LostIsAbsent
<1>3. (\E f \in Frames : Observe(f)) \/ UNCHANGED sensorVars
  BY DEF Next, LoopStep, ObserveFrame, SettleFrame, SettleEnds,
         InspectionReturns, LoopEnds, RequestStop, vars
<1>4. QED
  BY <1>1, <1>2, <1>3

\* Whatever the depths, as long as the tracker forgives at least as many
\* frames as the presence sensor: a board in the zone keeps its track, and the
\* perceptual hash never becomes a signature.
THEOREM PresentBoardIsTracked ==
  ASSUME AbsenceConfirm <= MaxLost + 1
  PROVE  Spec => []PresentIsTracked
<1>1. Init => TrackedInv
  BY TrackerAssumption DEF Init, TrackedInv, LostIsAbsent, None
<1>2. TypeOK /\ TrackedInv /\ [Next]_vars => TrackedInv'
  BY TrackedStep
<1>3. TrackedInv => PresentIsTracked
  BY DEF TrackedInv, LostIsAbsent, PresentIsTracked
<1>4. QED
  BY <1>1, <1>2, <1>3, TrackerTypeCorrect, PTL DEF Spec

-----------------------------------------------------------------------------
(* One inspection per signature, and no signature twice *)

LedgerInv == TracksAreOld /\ FiredIsInspected

\* Ids of tracks are below the next one, and the next one is always new.
LEMMA FreshId ==
  ASSUME TypeOK, TracksAreOld, next \in Tracks
  PROVE  next \notin inspected /\ fired[next] = 0
<1>1. next \in Nat /\ fired[next] \in Nat
  BY TrackerAssumption DEF TypeOK, Tracks, Signatures
<1>2. ~ (next < next)
  BY <1>1
<1>3. QED
  BY <1>1, <1>2 DEF TracksAreOld

\* Observing changes the track only to none or to the next id.
LEMMA ObserveKeepsOld ==
  ASSUME TypeOK, TracksAreOld, NEW f \in Frames, Observe(f)
  PROVE  /\ active' < next'
         /\ next <= next'
         /\ sig' \in Tracks => sig' < next'
<1>1. /\ \/ active' = active /\ next' = next
         \/ active' = None /\ next' = next
         \/ active' = next /\ next' = next + 1
      /\ active' \in Tracks \cup {None} /\ next' \in 1..(MaxTracks + 1)
  BY ObserveStep
<1>2. active' < next' /\ next <= next'
  BY <1>1, TrackerAssumption DEF TypeOK, TracksAreOld, None, Tracks
<1>3. sig' = active' \/ sig' = Hash \/ sig' = None
  BY DEF Observe
<1>4. Hash \notin Tracks /\ None \notin Tracks
  BY TrackerAssumption DEF None, Tracks
<1>5. QED
  BY <1>2, <1>3, <1>4

LEMMA LedgerStep == TypeOK /\ LedgerInv /\ [Next]_vars => LedgerInv'
<1> SUFFICES ASSUME TypeOK, LedgerInv, [Next]_vars PROVE LedgerInv'
  OBVIOUS
<1> USE DEF LedgerInv
<1>1. ASSUME NEW f \in Frames, ObserveFrame(f) PROVE LedgerInv'
  <2>1. Observe(f) /\ fired' = fired /\ phase = "observing"
    BY <1>1 DEF ObserveFrame
  <2>2. active' < next' /\ next <= next' /\ (sig' \in Tracks => sig' < next')
    BY <2>1, ObserveKeepsOld
  <2>3. next \in Nat /\ next' \in Nat
    BY <2>1, ObserveStep, TrackerAssumption DEF TypeOK
  <2>4. CASE stopped' /\ ~ stopped /\ sig' # None /\ sig' \notin inspected
    <3>1. PICK r \in Signatures : r = sig'
      BY <2>1, <2>4, ObserveStep
    <3>2. Remember(r) /\ trigger' = r /\ r \notin inspected
      BY <1>1, <2>4, <3>1 DEF ObserveFrame
    <3>3. /\ phase' \in {"settling", "crashed"}
          /\ phase' = "settling" => inspected' = inspected \cup {r}
      BY <3>2, RememberStep
    <3>4. inspected' \subseteq inspected \cup {r}
      BY <3>2 DEF Remember
    <3>5. TracksAreOld'
      <4> SUFFICES ASSUME NEW s \in Tracks, s \in inspected' \/ fired'[s] > 0
                   PROVE  s < next'
        BY <2>2 DEF TracksAreOld
      <4>1. CASE s = r
        BY <4>1, <2>2, <3>1
      <4>2. CASE s # r
        <5>1. s \in inspected \/ fired[s] > 0
          BY <4>2, <3>4, <2>1
        <5>2. s < next
          BY <5>1 DEF TracksAreOld
        <5>3. s \in Nat
          BY TrackerAssumption DEF Tracks
        <5>4. QED
          BY <5>2, <5>3, <2>2, <2>3
      <4>3. QED
        BY <4>1, <4>2
    <3>6. FiredIsInspected'
      <4> SUFFICES ASSUME phase' # "crashed", NEW s \in Signatures
                   PROVE  /\ fired'[s] <= 1
                          /\ fired'[s] = 1 => s \in inspected'
                          /\ phase' = "settling" /\ trigger' = s =>
                               s \in inspected' /\ fired'[s] = 0
        BY DEF FiredIsInspected
      <4>1. fired[s] <= 1 /\ (fired[s] = 1 => s \in inspected) /\ fired[s] \in Nat
        BY <2>1 DEF FiredIsInspected, TypeOK
      <4>2. inspected' = inspected \cup {r}
        BY <3>3
      <4>3. s = r => fired[s] = 0
        BY <4>1, <3>2
      <4>4. QED
        BY <4>1, <4>2, <4>3, <3>2, <2>1
    <3>7. QED
      BY <3>5, <3>6
  <2>5. CASE ~ (stopped' /\ ~ stopped /\ sig' # None /\ sig' \notin inspected)
    <3>1. UNCHANGED <<phase, inspected, trigger>>
      BY <1>1, <2>5 DEF ObserveFrame
    <3>2. TracksAreOld'
      BY <2>1, <2>2, <2>3, <3>1, TrackerAssumption DEF TracksAreOld, Tracks
    <3>3. FiredIsInspected'
      BY <2>1, <3>1 DEF FiredIsInspected
    <3>4. QED
      BY <3>2, <3>3
  <2>6. QED
    BY <2>4, <2>5
<1>2. ASSUME NEW f \in Frames, NEW sharper \in BOOLEAN, SettleFrame(f, sharper)
      PROVE LedgerInv'
  <2>1. Observe(f) /\ UNCHANGED <<inspected, phase, trigger, fired>>
    BY <1>2 DEF SettleFrame
  <2>2. active' < next' /\ next <= next'
    BY <2>1, ObserveKeepsOld
  <2>3. next \in Nat /\ next' \in Nat
    BY <2>1, ObserveStep, TrackerAssumption DEF TypeOK
  <2>4. TracksAreOld'
    BY <2>1, <2>2, <2>3, TrackerAssumption DEF TracksAreOld, Tracks
  <2>5. FiredIsInspected'
    BY <2>1 DEF FiredIsInspected
  <2>6. QED
    BY <2>4, <2>5
<1>3. CASE SettleEnds
  <2>1. /\ phase = "settling" /\ phase' = "inspecting"
        /\ fired' = [fired EXCEPT ![trigger] = @ + 1]
        /\ UNCHANGED <<active, next, inspected, trigger>>
    BY <1>3 DEF SettleEnds, sensorVars
  <2>2. trigger \in Signatures
    BY <2>1 DEF TypeOK
  <2>3. trigger \in inspected /\ fired[trigger] = 0
    BY <2>1, <2>2 DEF FiredIsInspected
  <2>4. \A s \in Signatures : fired'[s] = IF s = trigger THEN 1 ELSE fired[s]
    BY <2>1, <2>3 DEF TypeOK
  <2>5. TracksAreOld'
    BY <2>1, <2>3, <2>4 DEF TracksAreOld, Signatures
  <2>6. FiredIsInspected'
    BY <2>1, <2>3, <2>4 DEF FiredIsInspected
  <2>7. QED
    BY <2>5, <2>6
<1>4. CASE InspectionReturns \/ LoopEnds \/ RequestStop \/ UNCHANGED vars
  <2>1. UNCHANGED <<active, next, inspected, trigger, fired>>
    BY <1>4 DEF InspectionReturns, LoopEnds, RequestStop, vars, sensorVars, loopVars
  <2>2. phase' = phase \/ (phase # "crashed" /\ phase' \in {"observing", "ended"})
    BY <1>4 DEF InspectionReturns, LoopEnds, RequestStop, vars, sensorVars, loopVars
  <2>3. QED
    BY <2>1, <2>2 DEF TracksAreOld, FiredIsInspected
<1>5. QED
  BY <1>1, <1>2, <1>3, <1>4 DEF Next, LoopStep

\* The count itself also holds after the loop crashed.
LEMMA SignatureOnceStep ==
  TypeOK /\ LedgerInv /\ SignatureOnce /\ [Next]_vars => SignatureOnce'
<1> SUFFICES ASSUME TypeOK, LedgerInv, SignatureOnce, [Next]_vars PROVE SignatureOnce'
  OBVIOUS
<1>1. CASE SettleEnds
  <2>1. /\ phase = "settling"
        /\ fired' = [fired EXCEPT ![trigger] = @ + 1]
    BY <1>1 DEF SettleEnds
  <2>2. trigger \in Signatures /\ fired[trigger] = 0
    BY <2>1 DEF TypeOK, LedgerInv, FiredIsInspected
  <2>3. QED
    BY <2>1, <2>2 DEF SignatureOnce, TypeOK
<1>2. CASE UNCHANGED fired
  BY <1>2 DEF SignatureOnce
<1>3. QED
  BY <1>1, <1>2 DEF Next, LoopStep, ObserveFrame, SettleFrame, InspectionReturns,
     LoopEnds, RequestStop, vars, loopVars

LEMMA LedgerInit == Init => LedgerInv /\ SignatureOnce
<1> SUFFICES ASSUME Init PROVE LedgerInv /\ SignatureOnce
  OBVIOUS
<1>1. \A s \in Signatures : fired[s] = 0
  BY DEF Init
<1>2. Tracks \subseteq Signatures
  BY DEF Signatures
<1>3. QED
  BY <1>1, <1>2 DEF Init, LedgerInv, TracksAreOld, FiredIsInspected, SignatureOnce, None

\* No hash triggers an inspection, because none is ever a signature.
HashUnused == trigger # Hash /\ fired[Hash] = 0

LEMMA HashStep ==
  ASSUME TypeOK, HashUnused, PresentIsTracked', [Next]_vars
  PROVE  HashUnused'
<1>1. ASSUME NEW f \in Frames, ObserveFrame(f) PROVE HashUnused'
  <2>1. fired' = fired /\ trigger' \in {trigger, sig'}
    BY <1>1 DEF ObserveFrame
  <2>2. QED
    BY <2>1 DEF HashUnused, PresentIsTracked
<1>2. CASE SettleEnds
  <2>1. fired' = [fired EXCEPT ![trigger] = @ + 1] /\ trigger' = trigger
    BY <1>2 DEF SettleEnds
  <2>2. Hash \in Signatures
    BY DEF Signatures
  <2>3. QED
    BY <2>1, <2>2 DEF HashUnused, TypeOK
<1>3. CASE UNCHANGED <<trigger, fired>>
  BY <1>3 DEF HashUnused
<1>4. QED
  BY <1>1, <1>2, <1>3 DEF Next, LoopStep, SettleFrame, InspectionReturns,
     LoopEnds, RequestStop, vars, loopVars

\* For any number of boards and any limit of the signature set, the loop fires
\* at most one inspection per signature, and, if the tracker forgives at least
\* as many frames as the presence sensor, none for a perceptual hash.
THEOREM OneInspectionPerSignature ==
  ASSUME AbsenceConfirm <= MaxLost + 1
  PROVE  Spec => []FiredOnce
<1>1. Spec => []SignatureOnce
  BY LedgerInit, LedgerStep, SignatureOnceStep, TrackerTypeCorrect, PTL DEF Spec
<1>2. Init => HashUnused
  <2>1. Hash \in Signatures /\ Hash # None
    BY TrackerAssumption DEF Signatures, None
  <2>2. QED
    BY <2>1 DEF Init, HashUnused
<1>3. TypeOK /\ HashUnused /\ PresentIsTracked' /\ [Next]_vars => HashUnused'
  BY HashStep
<1>4. Spec => []PresentIsTracked
  BY PresentBoardIsTracked
<1>5. Spec => []HashUnused
  BY <1>2, <1>3, <1>4, TrackerTypeCorrect, PTL DEF Spec
<1>6. SignatureOnce /\ HashUnused => FiredOnce
  BY DEF FiredOnce, HashUnused
<1>7. QED
  BY <1>1, <1>5, <1>6, PTL

\* A new track never takes over a signature that was inspected or fired.
THEOREM TracksAreFresh == Spec => FreshTrack
<1> DEFINE Fresh == active' # active /\ active' # None =>
                      active' \notin inspected /\ fired[active'] = 0
<1>1. TypeOK /\ LedgerInv /\ [Next]_vars => [Fresh]_vars
  <2> SUFFICES ASSUME TypeOK, LedgerInv, Next, active' # active, active' # None
               PROVE  active' \notin inspected /\ fired[active'] = 0
    OBVIOUS
  <2>1. PICK f \in Frames : Observe(f)
    BY DEF Next, LoopStep, ObserveFrame, SettleFrame, SettleEnds,
           InspectionReturns, LoopEnds, RequestStop, sensorVars
  <2>2. active' = next /\ active' \in Tracks
    BY <2>1, ObserveStep
  <2>3. QED
    BY <2>2, FreshId DEF LedgerInv
<1>2. Spec => [](TypeOK /\ LedgerInv)
  BY LedgerInit, LedgerStep, TrackerTypeCorrect, PTL DEF Spec
<1>3. QED
  BY <1>1, <1>2, PTL DEF Spec, FreshTrack

=============================================================================
