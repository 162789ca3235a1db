---------------------------- MODULE BoardTracker ----------------------------
(***************************************************************************)
(* The monitoring loop (agents/core/monitoring_loop.py): it decides, frame *)
(* by frame, whether a board is in the inspection zone, which board it is, *)
(* and when it has stopped, and fires one inspection per board.            *)
(*                                                                         *)
(* A frame is abstracted to what the sensors report of it: a board-like    *)
(* contour, a contour strong enough to count as presence, an overlap with  *)
(* the last box of the tracked board, and motion.  Between a stop and the  *)
(* inspection the loop keeps observing while the camera focuses.  One      *)
(* thread runs all this; the stop event is set from outside at any time.   *)
(***************************************************************************)
EXTENDS Naturals, FiniteSets

CONSTANTS
  PresenceConfirm,   \* presence_confirm_frames
  AbsenceConfirm,    \* absence_confirm_frames
  MaxLost,           \* track_max_lost_frames
  MaxInspected,      \* _max_inspected_signatures
  MaxTracks,         \* bound of the model: track ids handed out
  Hash,              \* the perceptual-hash signature of an untracked board
  Unseen             \* a frame grabbed without observing it

ASSUME TrackerAssumption ==
  /\ PresenceConfirm \in Nat
  /\ AbsenceConfirm \in Nat
  /\ MaxLost \in Nat
  /\ MaxInspected \in Nat
  /\ MaxTracks \in Nat
  /\ Hash \notin Nat /\ Unseen \notin Nat /\ Hash # Unseen

VARIABLES
  present,         \* _board_present
  presence,        \* _presence_streak
  absence,         \* _absence_streak
  active,          \* _active_track_id, 0 when None
  next,            \* _next_track_id
  lost,            \* _track_lost_frames
  sig,             \* board_signature of the last observation, 0 when None
  stopped,         \* _prev_board_stopped
  inspected,       \* _inspected_signatures
  phase,           \* where the loop thread is
  trigger,         \* signature of the observation that triggered
  best,            \* signature seen on the sharpest frame of the window
  stopRequested,   \* _stop_event
  fired            \* history: inspections fired per signature

sensorVars == <<present, presence, absence, active, next, lost, sig, stopped>>
loopVars   == <<phase, trigger, best, fired>>
vars == <<sensorVars, inspected, loopVars, stopRequested>>

None       == 0
Tracks     == 1..MaxTracks
Signatures == Tracks \cup {Hash}
Phases     == {"observing", "settling", "inspecting", "ended", "crashed"}

Frames == {f \in [candidate : BOOLEAN, strong : BOOLEAN,
                  overlap : BOOLEAN, moving : BOOLEAN] :
             f.strong => f.candidate}

Init ==
  /\ present = FALSE
  /\ presence = 0
  /\ absence = 0
  /\ active = None
  /\ next = 1
  /\ lost = 0
  /\ sig = None
  /\ stopped = FALSE
  /\ inspected = {}
  /\ phase = "observing"
  /\ trigger = None
  /\ best = None
  /\ stopRequested = FALSE
  /\ fired = [s \in Signatures |-> 0]

-----------------------------------------------------------------------------
(* Sensing *)

AtMost(limit, n) == IF n < limit THEN n ELSE limit

\* _debounce_presence: hysteresis on the raw signal.
Debounce(raw) ==
  IF raw
  THEN /\ presence' = AtMost(PresenceConfirm, presence + 1)
       /\ absence' = 0
       /\ present' = (present \/ presence' >= PresenceConfirm)
  ELSE /\ absence' = AtMost(AbsenceConfirm, absence + 1)
       /\ presence' = 0
       /\ present' = (present /\ absence' < AbsenceConfirm)

NewTrack ==
  /\ next <= MaxTracks
  /\ active' = next
  /\ next' = next + 1

\* Mutant: a dropped track leaves its id to the next board.
LoseTrack_reuse ==
  /\ lost' = AtMost(MaxLost + 1, lost + 1)
  /\ active' = IF lost' > MaxLost THEN None ELSE active
  /\ next' = IF active' # active THEN active ELSE next

\* No box in this frame.  The counter is only compared with MaxLost, so it may
\* stop one above it.
LoseTrack ==
  /\ lost' = AtMost(MaxLost + 1, lost + 1)
  /\ active' = IF lost' > MaxLost THEN None ELSE active
  /\ UNCHANGED next

\* Mutant: frames without a box add up, though a box came between them.
UpdateTracker_adds(box, overlap, moving) ==
  IF ~ box THEN LoseTrack
  ELSE /\ UNCHANGED lost
       /\ IF active = None \/ (~ overlap /\ moving)
          THEN NewTrack
          ELSE UNCHANGED <<active, next>>

\* _update_tracker: a box that does not overlap the last one belongs to a new
\* board only if something moved.
UpdateTracker(box, overlap, moving) ==
  IF ~ box THEN LoseTrack
  ELSE /\ lost' = 0
       /\ IF active = None \/ (~ overlap /\ moving)
          THEN NewTrack
          ELSE UNCHANGED <<active, next>>

Tracked(f) == present' /\ f.candidate

\* _observe, and the board_stopped flag both loops derive from it.
Observe(f) ==
  /\ Debounce(f.strong)
  /\ UpdateTracker(Tracked(f), f.overlap, f.moving)
  /\ sig' = IF active' # None THEN active' ELSE IF present' THEN Hash ELSE None
  /\ stopped' = (present' /\ ~ f.moving)

-----------------------------------------------------------------------------
(* The loop *)

\* The signature is recorded before the inspection.  When the set grows over
\* its limit, the code removes a tenth of it while iterating over it: the first
\* removal makes the second step of the iterator raise, and the loop ends.
Remember(s) ==
  IF Cardinality(inspected \cup {s}) <= MaxInspected
  THEN /\ inspected' = inspected \cup {s}
       /\ phase' = "settling"
  ELSE /\ \E gone \in inspected \cup {s} :
            inspected' = (inspected \cup {s}) \ {gone}
       /\ phase' = "crashed"

ObserveFrame(f) ==
  /\ phase = "observing"
  /\ ~ stopRequested
  /\ Observe(f)
  /\ IF stopped' /\ ~ stopped /\ sig' # None /\ sig' \notin inspected
     THEN /\ Remember(sig')
          /\ trigger' = sig'
          /\ best' = None
     ELSE UNCHANGED <<phase, inspected, trigger, best>>
  /\ UNCHANGED <<fired, stopRequested>>

\* One frame of _settle_for_focus.  Only the frame of a stationary board can
\* become the best one, if it is the sharpest so far.
SettleFrame(f, sharper) ==
  /\ phase = "settling"
  /\ ~ stopRequested
  /\ Observe(f)
  /\ best' = IF stopped' /\ sharper THEN sig' ELSE best
  /\ UNCHANGED <<inspected, phase, trigger, fired, stopRequested>>

\* Mutant: the window only ends with a frame to inspect.
WindowOver_needsFrame == best # None

\* The window ends when focus stops improving, or at its deadline: after any
\* number of frames.
WindowOver == TRUE

\* What is inspected: the best frame of the window, else a fresh one, else the
\* one that triggered.
InspectionFrames == IF best # None THEN {best} ELSE {trigger, Unseen}

SettleEnds ==
  /\ phase = "settling"
  /\ ~ stopRequested
  /\ WindowOver
  /\ phase' = "inspecting"
  /\ best' \in InspectionFrames
  /\ fired' = [fired EXCEPT ![trigger] = @ + 1]
  /\ UNCHANGED <<sensorVars, inspected, trigger, stopRequested>>

\* on_board_ready returns or raises; either way the loop goes on.
InspectionReturns ==
  /\ phase = "inspecting"
  /\ phase' = "observing"
  /\ UNCHANGED <<sensorVars, inspected, trigger, best, fired, stopRequested>>

\* The stop event ends the loop between two frames and in the window.
LoopEnds ==
  /\ phase \in {"observing", "settling"}
  /\ stopRequested
  /\ phase' = "ended"
  /\ UNCHANGED <<sensorVars, inspected, trigger, best, fired, stopRequested>>

RequestStop ==
  /\ ~ stopRequested
  /\ stopRequested' = TRUE
  /\ UNCHANGED <<sensorVars, inspected, loopVars>>

LoopStep ==
  \/ \E f \in Frames :
       ObserveFrame(f) \/ \E sharper \in BOOLEAN : SettleFrame(f, sharper)
  \/ SettleEnds \/ InspectionReturns \/ LoopEnds

Next == LoopStep \/ RequestStop

Spec == Init /\ [][Next]_vars

\* The camera keeps delivering frames, the deadline of the window passes, and
\* the inspection is a call with timeouts of its own.
FairSpec ==
  Spec /\ WF_vars(LoopStep) /\ WF_vars(SettleEnds) /\ WF_vars(InspectionReturns)

-----------------------------------------------------------------------------
(* Properties *)

TypeOK ==
  /\ present \in BOOLEAN
  /\ presence \in 0..PresenceConfirm
  /\ absence \in 0..AbsenceConfirm
  /\ active \in Tracks \cup {None}
  /\ next \in 1..(MaxTracks + 1)
  /\ lost \in 0..(MaxLost + 1)
  /\ sig \in Signatures \cup {None}
  /\ stopped \in BOOLEAN
  /\ inspected \subseteq Signatures
  /\ phase \in Phases
  /\ trigger \in Signatures \cup {None}
  /\ phase = "settling" => trigger # None
  /\ best \in Signatures \cup {None, Unseen}
  /\ stopRequested \in BOOLEAN
  /\ fired \in [Signatures -> Nat]

\* While a board is reported in the zone the tracker has not dropped it, so
\* that the perceptual hash, which is not stable from frame to frame, never
\* becomes a signature.  It depends on how the two hysteresis depths relate:
\* the tracker forgives more missing boxes than the presence sensor does.
PresentIsTracked == (present => active # None) /\ sig # Hash

\* One inspection per board signature, over the life of the loop, and none for
\* a perceptual hash: a board whose hash changes from frame to frame would be
\* inspected for as long as it lies there.
SignatureOnce == \A s \in Signatures : fired[s] <= 1
FiredOnce == SignatureOnce /\ fired[Hash] = 0

\* A new track never takes over a signature the loop has inspected: a board
\* that comes after a gap is not mistaken for one already done.
FreshTrack ==
  [][active' # active /\ active' # None =>
       active' \notin inspected /\ fired[active'] = 0]_vars

\* A board that triggered is inspected, unless the loop is told to stop.
TriggerIsServed ==
  \A s \in Tracks :
    phase = "settling" /\ trigger = s ~> fired[s] > 0 \/ stopRequested

(* The inductive invariant: as long as a board is present, the frames      *)
(* without a box are no more than the frames without presence.             *)

LostIsAbsent ==
  present => /\ lost <= absence
             /\ absence > 0 => absence < AbsenceConfirm
             /\ active # None

TracksAreOld ==
  /\ active < next
  /\ \A s \in Tracks : s \in inspected \/ fired[s] > 0 => s < next

FiredIsInspected ==
  phase # "crashed" =>
    \A s \in Signatures :
      /\ fired[s] <= 1
      /\ fired[s] = 1 => s \in inspected
      /\ phase = "settling" /\ trigger = s => s \in inspected /\ fired[s] = 0

IInv == TypeOK /\ LostIsAbsent /\ sig # Hash /\ TracksAreOld /\ FiredIsInspected
        /\ FiredOnce

(* What the documents say. *)

\* monitoring_loop.py, comment at the set's limit: the oldest signatures are
\* evicted if it grows too large, and the loop goes on.
SurvivesEviction == phase # "crashed"

=============================================================================
