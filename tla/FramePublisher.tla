--------------------------- MODULE FramePublisher ---------------------------
(***************************************************************************)
(* One CameraFeedPublisher (src/services/core/camera.py): callers start,   *)
(* stop, subscribe and read while a capture thread publishes frames.       *)
(*                                                                         *)
(* stop keeps _lock while it joins the capture thread for at most two      *)
(* seconds, and that thread needs _lock to publish.  A thread that is left *)
(* behind ends by itself, unless the publisher has been started again      *)
(* before it looks at is_running: then two threads capture.                *)
(***************************************************************************)
EXTENDS Naturals, Sequences, FiniteSets

CONSTANTS Controllers, \* threads that start and stop the publisher
          Viewers,     \* subscribers
          QueueSize,   \* _max_queue_size
          MaxFrames,   \* bound of the model: frames read
          MaxCaptures, \* bound of the model: capture threads
          Nobody

ASSUME PublisherAssumption ==
  /\ QueueSize \in Nat \ {0} /\ MaxFrames \in Nat /\ MaxCaptures \in Nat
  /\ Nobody \notin Controllers

Captures == 1..MaxCaptures

VARIABLES
  holder,     \* the caller that keeps _lock between two steps
  running,    \* is_running
  opened,     \* the camera is there and open
  frameNo,    \* frame_number
  thread,     \* the capture thread started last, 0 for none
  capture,    \* per capture thread: where it is
  frame,      \* per capture thread: the frame it publishes
  serving,    \* per capture thread: the subscribers it has yet to serve
  full,       \* per capture thread: the one whose queue it found full
  queue,      \* per subscriber: its queue
  subscribed, \* the subscribers registered
  gone,       \* those that have unsubscribed
  last,       \* per subscriber: the newest frame it has taken
  stopping,   \* per caller: how far its stop is
  revived     \* history: a start found a capture thread still alive

captureVars == <<capture, frame, serving, full>>
clientVars == <<holder, stopping, revived, subscribed, gone, last>>
publisherVars ==
  <<clientVars, running, opened, frameNo, thread, captureVars, queue>>

CaptureStages == {"unborn", "loop", "read", "publish", "deliver", "drop",
                  "again", "dead"}

PublisherTypeOK ==
  /\ holder \in Controllers \union {Nobody}
  /\ running \in BOOLEAN /\ opened \in BOOLEAN /\ revived \in BOOLEAN
  /\ frameNo \in 0..MaxFrames /\ thread \in 0..MaxCaptures
  /\ capture \in [Captures -> CaptureStages]
  /\ frame \in [Captures -> 0..MaxFrames]
  /\ serving \in [Captures -> SUBSET Viewers]
  /\ full \in [Captures -> Viewers \union {Nobody}]
  /\ \A r \in Viewers :
       queue[r] \in Seq(1..MaxFrames) /\ Len(queue[r]) <= QueueSize
  /\ subscribed \subseteq Viewers /\ gone \subseteq Viewers \ subscribed
  /\ last \in [Viewers -> 0..MaxFrames]
  /\ stopping \in [Controllers -> {"idle", "join", "close"}]

PublisherInit ==
  /\ holder = Nobody /\ running = FALSE /\ opened = FALSE
  /\ frameNo = 0 /\ thread = 0
  /\ capture = [t \in Captures |-> "unborn"]
  /\ frame = [t \in Captures |-> 0]
  /\ serving = [t \in Captures |-> {}] /\ full = [t \in Captures |-> Nobody]
  /\ queue = [r \in Viewers |-> <<>>] /\ subscribed = {} /\ gone = {}
  /\ last = [r \in Viewers |-> 0]
  /\ stopping = [c \in Controllers |-> "idle"]
  /\ revived = FALSE

Alive(t) == capture[t] \notin {"unborn", "dead"}

\* _lock is reentrant, but no holder calls back into the publisher.
LockFree == holder = Nobody

(***************************************************************************)
(* start and stop                                                          *)
(***************************************************************************)

\* "already running", a camera that does not open, or a new capture thread.
Start(c) ==
  /\ stopping[c] = "idle" /\ LockFree /\ ~running
  /\ \/ UNCHANGED <<running, opened, thread, captureVars, revived>>
     \/ /\ thread < MaxCaptures
        /\ revived' = (revived \/ \E t \in Captures : Alive(t))
        /\ running' = TRUE /\ opened' = TRUE /\ thread' = thread + 1
        /\ capture' = [capture EXCEPT ![thread'] = "loop"]
        /\ UNCHANGED <<frame, serving, full>>
  /\ UNCHANGED <<holder, stopping, subscribed, gone, last, frameNo, queue>>

Stop(c) ==
  /\ stopping[c] = "idle" /\ LockFree /\ running
  /\ running' = FALSE
  /\ holder' = c
  /\ stopping' = [stopping EXCEPT ![c] = "join"]
  /\ UNCHANGED <<revived, subscribed, gone, last, opened, frameNo, thread,
                 captureVars, queue>>

\* Mutant: the join has no timeout.
JoinEnds_waits(c) ==
  /\ stopping[c] = "join" /\ ~Alive(thread)
  /\ stopping' = [stopping EXCEPT ![c] = "close"]
  /\ UNCHANGED <<holder, revived, subscribed, gone, last, running, opened,
                 frameNo, thread, captureVars, queue>>

\* The thread has ended, or two seconds have passed.
JoinEnds(c) ==
  /\ stopping[c] = "join"
  /\ stopping' = [stopping EXCEPT ![c] = "close"]
  /\ UNCHANGED <<holder, revived, subscribed, gone, last, running, opened,
                 frameNo, thread, captureVars, queue>>

\* The camera is released, the queues are emptied, the lock is given back.
Close(c) ==
  /\ stopping[c] = "close"
  /\ opened' = FALSE
  /\ queue' = [r \in Viewers |-> IF r \in subscribed THEN <<>> ELSE queue[r]]
  /\ holder' = Nobody
  /\ stopping' = [stopping EXCEPT ![c] = "idle"]
  /\ UNCHANGED <<revived, subscribed, gone, last, running, frameNo, thread,
                 captureVars>>

(***************************************************************************)
(* _capture_loop and _publish_frame                                        *)
(***************************************************************************)

Pass(t, from, to) == capture[t] = from /\ capture' = [capture EXCEPT ![t] = to]

CheckRunning(t) ==
  /\ Pass(t, "loop", IF running THEN "read" ELSE "dead")
  /\ UNCHANGED <<clientVars, running, opened, frameNo, thread, frame, serving,
                 full, queue>>

\* No camera, no frame, or an exception: the loop sleeps and looks again.
ReadFails(t) ==
  /\ Pass(t, "read", "loop")
  /\ UNCHANGED <<clientVars, running, opened, frameNo, thread, frame, serving,
                 full, queue>>

ReadFrame(t) ==
  /\ Pass(t, "read", "publish")
  /\ opened /\ frameNo < MaxFrames
  /\ frameNo' = frameNo + 1
  /\ frame' = [frame EXCEPT ![t] = frameNo']
  /\ UNCHANGED <<clientVars, running, opened, thread, serving, full, queue>>

\* last_frame is set and the subscribers are copied under the lock.
Publish(t) ==
  /\ Pass(t, "publish", "deliver")
  /\ LockFree
  /\ serving' = [serving EXCEPT ![t] = subscribed]
  /\ UNCHANGED <<clientVars, running, opened, frameNo, thread, frame, full,
                 queue>>

\* Mutant: the subscribers' queues are stacks.
Enqueue_lifo(t, r, rest) ==
  /\ queue' = [queue EXCEPT ![r] = IF r \in subscribed THEN <<frame[t]>> \o @
                                   ELSE @]
  /\ serving' = [serving EXCEPT ![t] = rest]

\* A queue that has been given up takes frames nobody sees.
Enqueue(t, r, rest) ==
  /\ queue' = [queue EXCEPT ![r] = IF r \in subscribed THEN Append(@, frame[t])
                                   ELSE @]
  /\ serving' = [serving EXCEPT ![t] = rest]

HasRoom(r) == r \notin subscribed \/ Len(queue[r]) < QueueSize

\* put_nowait, without the lock.
Deliver(t, r) ==
  /\ capture[t] = "deliver" /\ r \in serving[t]
  /\ IF HasRoom(r)
       THEN Enqueue(t, r, serving[t] \ {r}) /\ UNCHANGED <<capture, full>>
       ELSE /\ Pass(t, "deliver", "drop") /\ full' = [full EXCEPT ![t] = r]
            /\ UNCHANGED <<queue, serving>>
  /\ UNCHANGED <<clientVars, running, opened, frameNo, thread, frame>>

Skip(t) ==
  /\ serving' = [serving EXCEPT ![t] = @ \ {full[t]}]
  /\ Pass(t, capture[t], "deliver")
  /\ UNCHANGED queue

\* get_nowait on the queue that was full: the oldest frame goes, or the reader
\* has emptied it meanwhile, and the new frame goes.
DropOldest(t) ==
  /\ capture[t] = "drop"
  /\ IF queue[full[t]] = <<>>
       THEN Skip(t)
       ELSE /\ queue' = [queue EXCEPT ![full[t]] = Tail(@)]
            /\ Pass(t, "drop", "again") /\ UNCHANGED serving
  /\ UNCHANGED <<clientVars, running, opened, frameNo, thread, frame, full>>

\* The second put_nowait fails if another capture thread was faster.
DeliverAgain(t) ==
  /\ capture[t] = "again"
  /\ IF HasRoom(full[t])
       THEN Enqueue(t, full[t], serving[t] \ {full[t]}) /\ Pass(t, "again", "deliver")
       ELSE Skip(t)
  /\ UNCHANGED <<clientVars, running, opened, frameNo, thread, frame, full>>

Delivered(t) ==
  /\ serving[t] = {} /\ Pass(t, "deliver", "loop")
  /\ UNCHANGED <<clientVars, running, opened, frameNo, thread, frame, serving,
                 full, queue>>

CaptureStep(t) ==
  \/ CheckRunning(t) \/ ReadFails(t) \/ ReadFrame(t) \/ Publish(t)
  \/ (\E r \in Viewers : Deliver(t, r)) \/ DropOldest(t) \/ DeliverAgain(t)
  \/ Delivered(t)

(***************************************************************************)
(* The subscribers, each with an identifier of its own                     *)
(***************************************************************************)

Subscribe(r) ==
  /\ LockFree /\ r \notin subscribed \union gone
  /\ subscribed' = subscribed \union {r}
  /\ UNCHANGED <<holder, stopping, revived, gone, last, running, opened,
                 frameNo, thread, captureVars, queue>>

Unsubscribe(r) ==
  /\ LockFree /\ r \in subscribed
  /\ subscribed' = subscribed \ {r} /\ gone' = gone \union {r}
  /\ queue' = [queue EXCEPT ![r] = <<>>]
  /\ UNCHANGED <<holder, stopping, revived, last, running, opened, frameNo,
                 thread, captureVars>>

GetFrame(r) ==
  /\ queue[r] # <<>>
  /\ last' = [last EXCEPT ![r] = Head(queue[r])]
  /\ queue' = [queue EXCEPT ![r] = Tail(@)]
  /\ UNCHANGED <<holder, stopping, revived, gone, subscribed, running, opened,
                 frameNo, thread, captureVars>>

ControllerStep(c) == Start(c) \/ Stop(c) \/ JoinEnds(c) \/ Close(c)

PublisherNext ==
  \/ \E c \in Controllers : ControllerStep(c)
  \/ \E t \in Captures : CaptureStep(t)
  \/ \E r \in Viewers : Subscribe(r) \/ Unsubscribe(r) \/ GetFrame(r)

\* A join and a release end, whatever the capture thread does.
PublisherFairness ==
  \A c \in Controllers : WF_publisherVars(JoinEnds(c) \/ Close(c))

PublisherSpec ==
  PublisherInit /\ [][PublisherNext]_publisherVars /\ PublisherFairness

-----------------------------------------------------------------------------
\* What a subscriber takes is newer than what it took before, although the
\* oldest frames are dropped while it reads and stop empties the queues while
\* a frame is being delivered (_publish_frame, stop); two capture threads,
\* once a start has found one alive, share the counter and break this.
FramesInOrder ==
  \A r \in Viewers :
    LET taken == <<last[r]>> \o queue[r] IN
    revived \/ \A i \in 1..Len(queue[r]) : taken[i] < taken[i + 1]

\* stop returns although it holds the lock its thread is waiting for, and so
\* gives it back to everyone (CameraFeedPublisher.stop).
PublisherReturns == \A c \in Controllers : stopping[c] # "idle" ~> stopping[c] = "idle"
=============================================================================
