------------------------------ MODULE Estimator ------------------------------
(***************************************************************************)
(* The estimator's data structures and threads: the state window (extended)*)
(* and, beside it, the selection of readings, the camera pipeline and the  *)
(* odometry between updates.  They share no state; what one takes for      *)
(* granted of another is written in its own module.                        *)
(***************************************************************************)
EXTENDS StateWindow

CONSTANTS
    Ticks, MaxReadings,                 \* ImuSelection
    Cams, Modes, MinDelta, MaxThrows,   \* CameraPipeline
    FrameTime,                          \* bound: its last IMU time
    TOff, MaxUpdates, MaxEpoch,         \* OdometryCache
    OdometryTime                        \* bound: its last reading

\* Camera ids are numbers, stamps are after zero, and the offset between the
\* clocks may have either sign.
ASSUME CameraAssumption == Cams \subseteq Int /\ Modes \subseteq BOOLEAN /\ MinDelta \in Int /\ FrameTime \in Nat
ASSUME OdometryAssumption == TOff \in Int
\* A timestamp is counted in ticks.
ASSUME TickAssumption == Ticks \subseteq Int /\ MaxReadings \in Nat

VARIABLES imu_data, time0, time1, i, prop_data, degenerate, at,
          threaded, sent, last, pending, queue, slot, imu, cb, running, up, locked, limit,
          accepted, fed, throws, failed,
          states, epoch, cache, odo, upd, imuNow, out

selection == <<imu_data, time0, time1, i, prop_data, degenerate, at>>
camera == <<threaded, sent, last, pending, queue, slot, imu, cb, running, up, locked, limit,
            accepted, fed, throws, failed>>
odometry == <<states, epoch, cache, odo, upd, imuNow, out>>

Selection == INSTANCE ImuSelection WITH pc <- at
Streams == INSTANCE CameraPipeline WITH MaxTime <- FrameTime
\* With the serial subscriber.
Odometry == INSTANCE OdometryCache WITH Threaded <- FALSE, MaxTime <- OdometryTime

\* ImuSelection: the readings selected cover exactly the interval asked for
\* (Propagator::select_imu_readings).
SelectsExactly == Selection!SelectsExactly
\* CameraPipeline: no accepted frame is lost between the queue and the estimator
\* (camera_queue in ROS1Visualizer).
NoFrameLost == Streams!NoFrameLost
\* CameraPipeline: a frame is fed only before the younger ones in the queue and,
\* with the serial subscriber, only once a reading past it has arrived
\* (ROS1Visualizer::callback_inertial).
FedInOrder == Streams!OldestFirst /\ Streams!SerialFrameHasImu
\* OdometryCache: with the serial subscriber a prediction is made from the state
\* that is current when its reading arrives (Propagator::fast_state_propagate).
CloneOfCurrentState == Odometry!CloneOfCurrentState
=============================================================================
