--------------------------- MODULE CameraPipeline ---------------------------
(***************************************************************************)
(* The measurement pipeline of ROS1Visualizer: camera callbacks that       *)
(* filter, decode and queue frames, the IMU callback that feeds the        *)
(* propagator and starts an update thread, and the update thread that      *)
(* hands the frames at the head of the queue to the estimator.             *)
(*                                                                         *)
(* threaded is run_subscribe_msckf (an asynchronous spinner: callbacks of  *)
(* one topic are serialised, those of different topics overlap, and the    *)
(* update thread is detached); otherwise the serial runner calls one       *)
(* callback at a time and joins the thread.  A frame is [t, cam]; a stereo *)
(* pair is one frame of one stream.  Times are camera-clock ticks: the     *)
(* camera-IMU offset is taken off the IMU stamps.                          *)
(***************************************************************************)
EXTENDS Integers, Sequences, FiniteSets, Functions

CONSTANTS
    Cams,      \* image streams, by camera id
    Modes,     \* the values of use_multi_threading_subs to consider
    MinDelta,  \* 1 / track_frequency
    MaxTime,   \* bound: the last IMU time; the stream then repeats it
    MaxThrows  \* bound: exceptions the estimator raises

VARIABLES
    threaded,  \* use_multi_threading_subs, fixed at start-up
    sent,      \* environment: stamp of the last image of each stream
    last,      \* camera_last_timestamp
    pending,   \* per stream: the frame its callback is decoding, or None
    queue,     \* camera_queue
    slot,      \* the stack slot of callback_inertial's message.timestamp
    imu,       \* newest reading the propagator has been fed
    cb,        \* callback_inertial: "idle", "feed", "test", "join"
    running,   \* thread_update_running
    up,        \* update thread: "none", "lock", "count", "loop", "pop", "end", "flag"
    locked,    \* camera_queue_mtx is held by the update thread
    limit,     \* the thread's timestamp_imu_inC
    accepted,  \* history: frames that passed the rate filter and the decoder
    fed,       \* history: frames handed to the estimator, in order
    throws,    \* exceptions raised so far
    failed     \* an exception reached the serial runner

None == [t |-> -1, cam |-> -1]
cams == <<sent, last, pending>>
imuSide == <<slot, imu, cb>>
thread == <<running, up, locked, limit>>
history == <<accepted, fed, throws, failed>>
vars == <<threaded, cams, queue, imuSide, thread, history>>

Frames == [t : 1..MaxTime, cam : Cams]
Streams == Cardinality(Cams)

Init ==
    /\ threaded \in Modes
    /\ sent = [c \in Cams |-> 0] /\ last = [c \in Cams |-> -1]
    /\ pending = [c \in Cams |-> None]
    /\ queue = <<>> /\ slot = 0 /\ imu = 0 /\ cb = "idle"
    /\ running = FALSE /\ up = "none" /\ locked = FALSE /\ limit = 0
    /\ accepted = {} /\ fed = <<>> /\ throws = 0 /\ failed = FALSE

\* One callback at a time in the serial runner.
CallbackMayRun ==
    ~failed /\ (threaded \/ (cb = "idle" /\ \A c \in Cams : pending[c] = None))

---------------------------------------------------------------------------
\* callback_monocular / callback_stereo.

TooSoon(c, t) == last[c] # -1 /\ t < last[c] + MinDelta

\* An image arrives and is dropped by the rate filter.
DropImage(c, t) ==
    /\ CallbackMayRun /\ pending[c] = None /\ t > sent[c] /\ TooSoon(c, t)
    /\ sent' = [sent EXCEPT ![c] = t]
    /\ UNCHANGED <<threaded, last, pending, queue, imuSide, thread, history>>

\* An image arrives and passes it.
ReceiveImage(c, t) ==
    /\ CallbackMayRun /\ pending[c] = None /\ t > sent[c] /\ ~TooSoon(c, t)
    /\ sent' = [sent EXCEPT ![c] = t]
    /\ last' = [last EXCEPT ![c] = t]
    /\ pending' = [pending EXCEPT ![c] = [t |-> t, cam |-> c]]
    /\ UNCHANGED <<threaded, queue, imuSide, thread, history>>

\* cv_bridge refuses the image; the rate filter has already counted it.
DecodeFails(c) ==
    /\ pending[c] # None /\ ~failed
    /\ pending' = [pending EXCEPT ![c] = None]
    /\ UNCHANGED <<threaded, sent, last, queue, imuSide, thread, history>>

\* CameraData::operator<.
Earlier(a, b) == a.t < b.t \/ (a.t = b.t /\ a.cam < b.cam)

\* std::sort: the frames rearranged so that none is earlier than one before it.
Sorts(s) ==
    {q \in {[k \in DOMAIN s |-> s[p[k]]] : p \in Bijection(DOMAIN s, DOMAIN s)} :
        \A j, k \in DOMAIN q : j < k => ~Earlier(q[k], q[j])}

\* Mutant: the frame is queued without the lock.
EnqueueUnlocked(c) ==
    /\ pending[c] # None
    /\ queue' \in Sorts(Append(queue, pending[c]))
    /\ accepted' = accepted \cup {pending[c]}
    /\ pending' = [pending EXCEPT ![c] = None]
    /\ UNCHANGED <<threaded, sent, last, imuSide, thread, fed, throws, failed>>

\* Under the queue lock: push back and sort by time.
Enqueue(c) ==
    /\ pending[c] # None /\ ~locked
    /\ queue' \in Sorts(Append(queue, pending[c]))
    /\ accepted' = accepted \cup {pending[c]}
    /\ pending' = [pending EXCEPT ![c] = None]
    /\ UNCHANGED <<threaded, sent, last, imuSide, thread, fed, throws, failed>>

---------------------------------------------------------------------------
\* callback_inertial.

\* A reading arrives: its time goes to the callback's stack frame.
ReceiveImu(r) ==
    /\ CallbackMayRun /\ cb = "idle"
    /\ r > imu \/ (r = imu /\ r = MaxTime)
    /\ slot' = r /\ cb' = "feed"
    /\ UNCHANGED <<threaded, cams, queue, imu, thread, history>>

\* feed_measurement_imu and visualize_odometry.
FeedImu ==
    /\ cb = "feed" /\ cb' = "test" /\ imu' = slot
    /\ UNCHANGED <<threaded, cams, queue, slot, thread, history>>

\* An update is under way: return at once.
SkipUpdate ==
    /\ cb = "test" /\ running /\ cb' = "idle"
    /\ UNCHANGED <<threaded, cams, queue, slot, imu, thread, history>>

\* Start the update thread, which refers to this callback's message.
StartUpdate ==
    /\ cb = "test" /\ ~running
    /\ running' = TRUE /\ up' = "lock" /\ cb' = "join"
    /\ UNCHANGED <<threaded, cams, queue, slot, imu, locked, limit, history>>

\* Detached: the callback returns, its stack frame is free for reuse.
\* Joined: it waits for the thread.
EndCallback ==
    /\ cb = "join" /\ (threaded \/ up = "none")
    /\ cb' = "idle"
    /\ UNCHANGED <<threaded, cams, queue, slot, imu, thread, history>>

---------------------------------------------------------------------------
\* The update thread.

LockQueue ==
    /\ up = "lock" /\ up' = "count" /\ locked' = TRUE
    /\ UNCHANGED <<threaded, cams, queue, imuSide, running, limit, history>>

\* One frame of each stream has to be waiting (two cameras are one stereo
\* stream).  The time is read through the reference: after a detached
\* callback has returned the slot holds whatever the next one put there.
CountStreams ==
    /\ up = "count"
    /\ up' = IF Cardinality({queue[k].cam : k \in DOMAIN queue}) = Streams
             THEN "loop" ELSE "end"
    /\ limit' = slot
    /\ UNCHANGED <<threaded, cams, queue, imuSide, running, locked, history>>

\* Mutant: a reading at the frame's own time is taken to be enough.
ReadyInclusive == queue # <<>> /\ Head(queue).t <= limit

Ready == queue # <<>> /\ Head(queue).t < limit

\* Hand the head of the queue to the estimator.
FeedFrame ==
    /\ up = "loop" /\ Ready
    /\ fed' = Append(fed, Head(queue))
    /\ up' = "pop"
    /\ UNCHANGED <<threaded, cams, queue, imuSide, running, locked, limit, accepted, throws, failed>>

\* The frame is done: visualize and drop it from the queue.
PopFrame ==
    /\ up = "pop" /\ up' = "loop" /\ queue' = Tail(queue)
    /\ UNCHANGED <<threaded, cams, imuSide, running, locked, limit, history>>

\* The estimator throws: the frame stays where it is.  A joined callback
\* rethrows to the serial runner, a detached thread keeps it to itself.
FrameThrows ==
    /\ up = "pop" /\ up' = "end" /\ throws < MaxThrows
    /\ throws' = throws + 1 /\ failed' = ~threaded
    /\ UNCHANGED <<threaded, cams, queue, imuSide, running, locked, limit, accepted, fed>>

LoopEnds ==
    /\ up = "loop" /\ ~Ready /\ up' = "end"
    /\ UNCHANGED <<threaded, cams, queue, imuSide, running, locked, limit, history>>

Unlock ==
    /\ up = "end" /\ up' = "flag" /\ locked' = FALSE
    /\ UNCHANGED <<threaded, cams, queue, imuSide, running, limit, history>>

\* Mutant: the flag is cleared only on the path without an exception.
EndUpdateKeepsFlag ==
    /\ up = "flag" /\ up' = "none" /\ running' = (throws > 0)
    /\ UNCHANGED <<threaded, cams, queue, imuSide, locked, limit, history>>

EndUpdate ==
    /\ up = "flag" /\ up' = "none" /\ running' = FALSE
    /\ UNCHANGED <<threaded, cams, queue, imuSide, locked, limit, history>>

Callback == FeedImu \/ SkipUpdate \/ StartUpdate \/ EndCallback
UpdateThread == LockQueue \/ CountStreams \/ FeedFrame \/ PopFrame
                \/ FrameThrows \/ LoopEnds \/ Unlock \/ EndUpdate
Times == 1..MaxTime

Next ==
    \/ \E c \in Cams, t \in 1..(MaxTime - 1) : DropImage(c, t) \/ ReceiveImage(c, t)
    \/ \E c \in Cams : DecodeFails(c) \/ Enqueue(c)
    \/ \E r \in Times : ReceiveImu(r)
    \/ Callback
    \/ UpdateThread

Spec == Init /\ [][Next]_vars

\* The IMU keeps coming and every thread that can run does.
LiveSpec ==
    /\ Spec /\ WF_vars(\E r \in Times : ReceiveImu(r))
    /\ WF_vars(Callback) /\ WF_vars(UpdateThread)
    /\ \A c \in Cams : WF_vars(DecodeFails(c) \/ Enqueue(c))

---------------------------------------------------------------------------
\* Properties.

FedSet == {fed[k] : k \in DOMAIN fed}
QueueSet == {queue[k] : k \in DOMAIN queue}

\* Every accepted frame is in the queue or has been handed to the estimator,
\* and a frame handed over has left the queue unless it is the head being
\* processed or one whose processing threw: the frame popped is the frame
\* that was fed.
NoFrameLost ==
    /\ accepted = QueueSet \cup FedSet
    /\ throws = 0 =>
         /\ QueueSet \cap FedSet \subseteq (IF up = "pop" THEN {Head(queue)} ELSE {})
         /\ IsInjective(fed)

\* "We are able to process if we have at least one IMU measurement greater
\* than the camera time": when the serial runner hands a frame to the estimator
\* the propagator holds a reading past it, however many frames one reading
\* releases and whatever was left over from an update that threw
\* (ROS1Visualizer.cpp callback_inertial).
SerialFrameHasImu ==
    [][~threaded /\ fed' # fed => fed'[Len(fed')].t < imu]_vars

\* In order as far as the queue goes: a frame is never fed while an older one
\* waits behind it.
OldestFirst == [][fed' # fed => \A f \in QueueSet : fed'[Len(fed')].t <= f.t]_vars

\* While the IMU runs, every queued frame is eventually handed over, also
\* after the estimator has thrown in the background and whatever updates were
\* skipped because one was under way.
QueueDrains == \A f \in Frames : f \in accepted ~> (f \in FedSet \/ failed)
=============================================================================
