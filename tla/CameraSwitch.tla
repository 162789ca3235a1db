---------------------------- MODULE CameraSwitch ----------------------------
(***************************************************************************)
(* Who uses which camera publisher: the global instance that               *)
(* get_camera_publisher makes and reset_publisher discards when the video  *)
(* source is switched (src/services/core/camera.py, api/v1/system.py), the *)
(* instance the monitoring service keeps since its initialization, the     *)
(* monitoring loop, which asks for the global one, and the video feeds.    *)
(* FramePublisher has what happens inside an instance.                     *)
(***************************************************************************)
EXTENDS Naturals, FiniteSets

CONSTANTS Feeds,       \* threads that stream /video_feed
          MaxInstances \* bound of the model: publishers ever created

None == 0
Instances == 1..MaxInstances
Sources == {"camera", "video"}
Loop == "loop" \* the monitoring loop, as a subscriber

ASSUME SwitchAssumption == MaxInstances \in Nat /\ Loop \notin Feeds

VARIABLES
  source,     \* config.camera.video_source
  current,    \* _publisher_instance
  made,       \* publishers created so far, numbered in that order
  origin,     \* per publisher: the source it was made for
  capturing,    \* the publishers that run
  subscribers,\* per publisher
  kept,       \* the service's _publisher
  watched,    \* the loop's _publisher; None while no loop runs
  feed,       \* per feed: what it does
  uses        \* per feed: the publisher it got

switchVars == <<source, current, made, origin, capturing, subscribers, kept,
                watched, feed, uses>>

SwitchTypeOK ==
  /\ source \in Sources /\ made \in 0..MaxInstances
  /\ current \in 0..made /\ kept \in 0..made /\ watched \in 0..made
  /\ origin \in [Instances -> Sources] /\ capturing \subseteq 1..made
  /\ subscribers \in [Instances -> SUBSET (Feeds \union {Loop})]
  /\ feed \in [Feeds -> {"idle", "start", "subscribe", "stream", "leave"}]
  /\ uses \in [Feeds -> 0..made]

SwitchInit ==
  /\ source = "camera" /\ current = None /\ made = 0
  /\ origin = [p \in Instances |-> "camera"] /\ capturing = {}
  /\ subscribers = [p \in Instances |-> {}]
  /\ kept = None /\ watched = None
  /\ feed = [f \in Feeds |-> "idle"] /\ uses = [f \in Feeds |-> None]

\* get_camera_publisher: current' is the publisher the caller gets.
Get ==
  IF current # None
    THEN UNCHANGED <<current, made, origin>>
    ELSE /\ made < MaxInstances /\ made' = made + 1 /\ current' = made'
         /\ origin' = [origin EXCEPT ![made'] = source]

\* A publisher that does not run is started, if its source opens.
EnsureStarted(p) == capturing' \in {capturing, capturing \union {p}}

\* POST /system/video_source: a publisher that is replaced is stopped.
SwitchSource ==
  /\ \E s \in Sources : source' = s
  /\ current' = None
  /\ capturing' = capturing \ {current}
  /\ UNCHANGED <<made, origin, subscribers, kept, watched, feed, uses>>

\* check_camera_availability makes a publisher and does not start it.
CheckAvailability ==
  /\ current = None /\ Get
  /\ UNCHANGED <<source, capturing, subscribers, kept, watched, feed, uses>>

\* GET /capture_frame.
CaptureFrame ==
  /\ Get /\ EnsureStarted(current')
  /\ UNCHANGED <<source, subscribers, kept, watched, feed, uses>>

(***************************************************************************)
(* The monitoring service                                                  *)
(***************************************************************************)

\* initialize, on the first call that needs the service.
Initialize ==
  /\ kept = None
  /\ Get /\ EnsureStarted(current') /\ kept' = current'
  /\ UNCHANGED <<source, subscribers, watched, feed, uses>>

\* analyze_single_frame.
AnalyzeFrame ==
  /\ kept # None /\ EnsureStarted(kept)
  /\ UNCHANGED <<source, current, made, origin, subscribers, kept, watched,
                 feed, uses>>

\* start_monitoring: the service starts the publisher it keeps, and the loop
\* subscribes to the global one.
StartMonitoring ==
  /\ kept # None /\ watched = None
  /\ EnsureStarted(kept)
  /\ Get /\ watched' = current'
  /\ subscribers' = [subscribers EXCEPT ![watched'] = @ \union {Loop}]
  /\ UNCHANGED <<source, kept, feed, uses>>

StopMonitoring ==
  /\ watched # None /\ watched' = None
  /\ subscribers' = [subscribers EXCEPT ![watched] = @ \ {Loop}]
  /\ UNCHANGED <<source, current, made, origin, capturing, kept, feed, uses>>

(***************************************************************************)
(* GET /video_feed                                                         *)
(***************************************************************************)

At(f, from, to) == feed[f] = from /\ feed' = [feed EXCEPT ![f] = to]

OpenFeed(f) ==
  /\ At(f, "idle", "start")
  /\ Get /\ uses' = [uses EXCEPT ![f] = current']
  /\ UNCHANGED <<source, capturing, subscribers, kept, watched>>

\* The feed ends at once if its publisher cannot be started.
StartFeed(f) ==
  /\ EnsureStarted(uses[f])
  /\ IF uses[f] \in capturing'
       THEN At(f, "start", "subscribe") /\ UNCHANGED uses
       ELSE At(f, "start", "idle") /\ uses' = [uses EXCEPT ![f] = None]
  /\ UNCHANGED <<source, current, made, origin, subscribers, kept, watched>>

SubscribeFeed(f) ==
  /\ At(f, "subscribe", "stream")
  /\ subscribers' = [subscribers EXCEPT ![uses[f]] = @ \union {f}]
  /\ UNCHANGED <<source, current, made, origin, capturing, kept, watched, uses>>

\* The browser leaves, or ten times in a row no frame came.
LeaveFeed(f) ==
  /\ At(f, "stream", "leave")
  /\ UNCHANGED <<source, current, made, origin, capturing, subscribers, kept,
                 watched, uses>>

\* Mutant: a feed that finds its publisher replaced does not clean up.
CloseFeed_leaks(f) ==
  /\ At(f, "leave", "idle")
  /\ Get /\ uses' = [uses EXCEPT ![f] = None]
  /\ UNCHANGED <<source, capturing, subscribers, kept, watched>>

\* The finally block asks for the global publisher once more.
CloseFeed(f) ==
  /\ At(f, "leave", "idle")
  /\ Get /\ uses' = [uses EXCEPT ![f] = None]
  /\ subscribers' = [subscribers EXCEPT ![current'] = @ \ {f}]
  /\ UNCHANGED <<source, capturing, kept, watched>>

SwitchNext ==
  \/ SwitchSource \/ CheckAvailability \/ CaptureFrame
  \/ Initialize \/ AnalyzeFrame \/ StartMonitoring \/ StopMonitoring
  \/ \E f \in Feeds :
       \/ OpenFeed(f) \/ StartFeed(f) \/ SubscribeFeed(f)
       \/ LeaveFeed(f) \/ CloseFeed(f)

SwitchSpec == SwitchInit /\ [][SwitchNext]_switchVars

-----------------------------------------------------------------------------
\* The global publisher has no queue that nobody reads: each subscriber is a
\* feed that streams from it or the loop that watches it, whichever publisher
\* was the global one when they came and when they left (video_feed, _loop).
NoDeadSubscribers ==
  current # None =>
    \A f \in subscribers[current] :
      IF f = Loop THEN watched = current
                  ELSE uses[f] = current /\ feed[f] \in {"stream", "leave"}

\* A publisher that a switch of the source has discarded does not capture any
\* more ("Stop and discard the global publisher", reset_publisher): the code
\* does not keep this, the service starts the publisher it keeps.
DiscardedStaysStopped == capturing \subseteq {current}
=============================================================================
