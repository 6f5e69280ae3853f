--------------------------- MODULE OdometryCache ---------------------------
(***************************************************************************)
(* Odometry between updates: visualize_odometry, on the thread of the IMU  *)
(* callback, predicts the pose at every reading from a cached copy of the  *)
(* IMU state (Propagator::fast_state_propagate), while the update thread   *)
(* moves, corrects or replaces that state and invalidates the copy.        *)
(* Neither side holds a lock the other takes.                              *)
(*                                                                         *)
(* A mean or a covariance is abstracted to what it includes: the recovery  *)
(* epoch of its State and the number of EKF updates made in that epoch; a  *)
(* mean also has the time it is at, on the IMU clock.  The time offset is  *)
(* not calibrated online.                                                  *)
(***************************************************************************)
EXTENDS Integers

CONSTANTS
    Threaded,   \* use_multi_threading_subs: the update thread is detached
    TOff,       \* calib_dt_CAMtoIMU: camera time t is t + TOff for the IMU
    MaxTime,    \* bound: the last IMU reading
    MaxUpdates, \* bound: EKF updates in one epoch
    MaxEpoch    \* bound: recovery commits

VARIABLES
    states, \* epoch -> its State object: mean, covariance, _timestamp
    epoch,  \* the State VioManager::state points to
    cache,  \* cache_imu_valid, cache_state_est, _covariance, _time, cache_t_off
    odo,    \* the IMU callback: step, requested time, State held; what was current
            \* when the reading arrived and whether no frame was in progress then
    upd,    \* the update thread: stage of the frame, step in it, frame time
    imuNow, \* newest reading
    out     \* last prediction published

vars == <<states, epoch, cache, odo, upd, imuNow, out>>

Nobody == [epoch |-> -1, ver |-> -1]
Idle == [stage |-> "idle", step |-> "start", t |-> 0]

Init ==
    /\ states = [e \in {0} |-> [mean |-> 0, at |-> 1 + TOff, cov |-> 0, stamp |-> 1]]
    /\ epoch = 0
    /\ cache = [valid |-> FALSE, mean |-> Nobody, at |-> 0, cov |-> Nobody,
                time |-> 0, off |-> 0]
    /\ odo = [step |-> "idle", req |-> 0, held |-> 0, asked |-> Nobody]
    /\ upd = Idle
    /\ imuNow = 1 + TOff
    /\ out = [mean |-> Nobody, cov |-> Nobody, at |-> 0, req |-> 0, asked |-> Nobody]

---------------------------------------------------------------------------
\* The IMU callback: visualize_odometry, then fast_state_propagate.

\* A reading arrives; get_state() copies the pointer and the flag is tested.
StartOdometry(r) ==
    /\ odo.step = "idle" /\ (Threaded \/ upd.stage = "idle")
    /\ r > imuNow /\ imuNow' = r
    /\ odo' = [step |-> IF cache.valid THEN "predict" ELSE "time", req |-> r, held |-> epoch,
               asked |-> [epoch |-> epoch, ver |-> states[epoch].mean]]
    /\ UNCHANGED <<states, epoch, cache, upd, out>>

\* The cache is filled from the State held, field by field ...
CopyTime ==
    /\ odo.step = "time" /\ odo' = [odo EXCEPT !.step = "mean"]
    /\ cache' = [cache EXCEPT !.time = states[odo.held].stamp]
    /\ UNCHANGED <<states, epoch, upd, imuNow, out>>

CopyMean ==
    /\ odo.step = "mean" /\ odo' = [odo EXCEPT !.step = "cov"]
    /\ cache' = [cache EXCEPT !.mean = [epoch |-> odo.held, ver |-> states[odo.held].mean],
                              !.at = states[odo.held].at]
    /\ UNCHANGED <<states, epoch, upd, imuNow, out>>

\* ... and the flag is set last, whatever happened meanwhile.
CopyCovariance ==
    /\ odo.step = "cov" /\ odo' = [odo EXCEPT !.step = "predict"]
    /\ cache' = [cache EXCEPT !.cov = [epoch |-> odo.held, ver |-> states[odo.held].cov],
                              !.off = TOff, !.valid = TRUE]
    /\ UNCHANGED <<states, epoch, upd, imuNow, out>>

time0 == cache.time + cache.off
time1 == odo.req + cache.off

\* Integrate the readings of (time0, time1] into the cached copy, publish.
Predict ==
    /\ odo.step = "predict" /\ time1 > time0
    /\ odo' = [odo EXCEPT !.step = "idle"]
    /\ cache' = [cache EXCEPT !.at = @ + (time1 - time0), !.time = time1, !.off = 0]
    /\ out' = [mean |-> cache.mean, cov |-> cache.cov, at |-> cache'.at,
               req |-> odo.req, asked |-> odo.asked]
    /\ UNCHANGED <<states, epoch, upd, imuNow>>

\* Fewer than two readings: nothing is published, the cache stays as it is.
NoPrediction ==
    /\ odo.step = "predict" /\ time1 <= time0
    /\ odo' = [odo EXCEPT !.step = "idle"]
    /\ UNCHANGED <<states, epoch, cache, upd, imuNow, out>>

---------------------------------------------------------------------------
\* The update thread: one frame after the other.

Cur == states[epoch]
At(stage, step) == upd.stage = stage /\ upd.step = step
Goto(stage, step) == upd' = [upd EXCEPT !.stage = stage, !.step = step]

\* A frame with a later reading; the serial callback has then finished its
\* odometry.
StartFrame(t, stage) ==
    /\ upd.stage = "idle" /\ (Threaded \/ odo.step = "idle")
    /\ t > Cur.stamp /\ t + TOff < imuNow
    /\ upd' = [stage |-> stage, step |-> "start", t |-> t]
    /\ UNCHANGED <<states, epoch, cache, odo, imuNow, out>>

\* propagate_and_clone: first the mean, at the end the stamp.
PropagateMean ==
    /\ At("propagate", "start") /\ Goto("propagate", "moved")
    /\ states' = [states EXCEPT ![epoch].at = upd.t + TOff]
    /\ UNCHANGED <<epoch, cache, odo, imuNow, out>>

\* With too few clones the frame ends here, and the cache is not invalidated.
SetStamp(enoughClones) ==
    /\ At("propagate", "moved")
    /\ Goto(IF enoughClones THEN "msckf" ELSE "idle", "start")
    /\ states' = [states EXCEPT ![epoch].stamp = upd.t]
    /\ UNCHANGED <<epoch, cache, odo, imuNow, out>>

\* EKFUpdate corrects the covariance, then the mean.
CorrectCovariance(stage) ==
    /\ At(stage, "start") /\ Goto(stage, "mean")
    /\ Cur.cov < MaxUpdates
    /\ states' = [states EXCEPT ![epoch].cov = @ + 1]
    /\ UNCHANGED <<epoch, cache, odo, imuNow, out>>

CorrectMean(stage) ==
    /\ At(stage, "mean") /\ Goto(stage, "done")
    /\ states' = [states EXCEPT ![epoch].mean = @ + 1,
                                ![epoch].at = IF stage = "zupt" THEN upd.t + TOff ELSE @,
                                ![epoch].stamp = IF stage = "zupt" THEN upd.t ELSE @]
    /\ UNCHANGED <<epoch, cache, odo, imuNow, out>>

\* An updater that accepts no feature returns early.
NothingToCorrect(stage) ==
    /\ At(stage, "start") /\ Goto(stage, "done")
    /\ UNCHANGED <<states, epoch, cache, odo, imuNow, out>>

\* Mutant: only the MSCKF and the zero-velocity updates invalidate.
InvalidateSome(stage, next) ==
    /\ At(stage, "done") /\ Goto(next, "start")
    /\ cache' = [cache EXCEPT !.valid = @ /\ stage \in {"slam", "commit"}]
    /\ UNCHANGED <<states, epoch, odo, imuNow, out>>

\* propagator->invalidate_cache() after the MSCKF update, after each batch of
\* landmarks, after a zero-velocity update and after a recovery commit.
Invalidate(stage, next) ==
    /\ At(stage, "done") /\ Goto(next, "start")
    /\ cache' = [cache EXCEPT !.valid = FALSE]
    /\ UNCHANGED <<states, epoch, odo, imuNow, out>>

\* delayed_init corrects the state too; nothing invalidates after it.
EndFrame ==
    /\ At("init", "done") /\ upd' = Idle
    /\ UNCHANGED <<states, epoch, cache, odo, imuNow, out>>

\* No landmark is left to update with.
NoMoreSlam ==
    /\ At("slam", "start") /\ Goto("init", "start")
    /\ UNCHANGED <<states, epoch, cache, odo, imuNow, out>>

\* commit_long_gap_recovery: a fresh State takes the old one's place.
ReplaceState ==
    /\ At("commit", "start") /\ Goto("commit", "done")
    /\ epoch < MaxEpoch /\ epoch' = epoch + 1
    /\ states' = [e \in DOMAIN states \cup {epoch'} |-> IF e \in DOMAIN states THEN states[e]
                  ELSE [mean |-> 0, at |-> upd.t + TOff, cov |-> 0, stamp |-> upd.t]]
    /\ UNCHANGED <<cache, odo, imuNow, out>>

---------------------------------------------------------------------------
Odometry ==
    \/ \E r \in 1..MaxTime : StartOdometry(r)
    \/ CopyTime \/ CopyMean \/ CopyCovariance \/ Predict \/ NoPrediction

Update ==
    \/ \E t \in 1..MaxTime, stage \in {"propagate", "zupt"} : StartFrame(t, stage)
    \/ \E t \in 1..MaxTime : epoch < MaxEpoch /\ StartFrame(t, "commit")
    \/ PropagateMean
    \/ \E b \in BOOLEAN : SetStamp(b)
    \/ \E stage \in {"msckf", "slam", "init", "zupt"} :
           CorrectCovariance(stage) \/ CorrectMean(stage)
    \/ \E stage \in {"msckf", "slam", "init"} : NothingToCorrect(stage)
    \/ Invalidate("msckf", "slam") \/ Invalidate("slam", "slam")
    \/ Invalidate("zupt", "idle") \/ Invalidate("commit", "idle")
    \/ NoMoreSlam \/ EndFrame \/ ReplaceState

Next == Odometry \/ Update
Spec == Init /\ [][Next]_vars

---------------------------------------------------------------------------
Published == out.mean /= Nobody

\* With the serial subscriber, what is published at a reading is the state
\* that was current when the reading arrived: its epoch, every update made so
\* far and the covariance of the same state - across frames that end before
\* they invalidate the cache, after a delayed initialization (which
\* invalidates nothing) and after a commit.  The pose is that of the requested
\* time, except that the first prediction from a fresh copy is late by the
\* camera offset; that error is not carried into the next prediction.
CloneOfCurrentState ==
    Published => /\ out.mean = out.asked /\ out.cov = out.asked
                 /\ out.at - out.req \in {0, TOff}
=============================================================================
