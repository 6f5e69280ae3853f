-------------------------- MODULE LongGapRecovery --------------------------
(***************************************************************************)
(* The long-gap recovery boundary of VioManager, one camera frame at a     *)
(* time: gap detection, reacquisition by retained-landmark PnP, stationary *)
(* consensus, the epoch commit, warm-up, and the ordinary                  *)
(* ZUPT / initialise / propagate / update pipeline it takes the place of,  *)
(* together with the IMU history those steps consume.                      *)
(*                                                                         *)
(* Times are integer ticks.  A camera time t is t + CamImuDt on the IMU    *)
(* clock.  The numbers of the estimator (pose, covariance, features) are   *)
(* abstracted to the timestamp of the live state, its clone window and how *)
(* many SLAM landmarks it retains; a relocalised pose is a point of        *)
(* Positions.                                                              *)
(***************************************************************************)
EXTENDS Integers, Sequences, FiniteSets

CONSTANTS
    RecoveryEnabled,   \* long_gap_recovery_enabled
    Threshold,         \* long_gap_recovery_threshold
    MaxAttempts,       \* long_gap_recovery_max_attempts
    ConsensusFrames,   \* long_gap_recovery_consensus_frames
    Radius,            \* long_gap_recovery_stationary_radius_m
    MinCorrespondences,\* LongGapRelocalizer::minimum_correspondences()
    Positions,         \* the points a PnP solution can report
    MaxCloneSize,      \* StateOptions::max_clone_size
    MaxSlam,           \* StateOptions::max_slam_features
    DtSlamDelay,       \* dt_slam_delay
    TryZupt,           \* try_zupt
    ZuptOnlyAtBeginning, \* zupt_only_at_beginning
    CamImuDt,          \* calib_dt_CAMtoIMU, held fixed by the frozen contract
    Slack,             \* the 0.10 s kept before the oldest needed IMU reading
    InitWindow,        \* init_window_time
    ImuPeriod,         \* environment: longest step between two IMU readings
    InOrder,           \* environment: camera times strictly increase
    PromptFirstFrame,  \* environment: no outage right after initialisation
    MaxLag,            \* bound: how far in-order frames trail the IMU stream
    MaxTime            \* bound: the last IMU time explored

ASSUME ModeAssumption ==
    /\ RecoveryEnabled \in BOOLEAN /\ TryZupt \in BOOLEAN
    /\ ZuptOnlyAtBeginning \in BOOLEAN
    /\ InOrder \in BOOLEAN /\ PromptFirstFrame \in BOOLEAN

\* The ranges print_and_load_estimator enforces, and the frozen contract's
\* "more than one accepted pose, more attempts than poses".
ASSUME ContractAssumption ==
    /\ Threshold \in Nat \ {0} /\ Radius \in Nat
    /\ ConsensusFrames \in Nat /\ ConsensusFrames > 1
    /\ MaxAttempts \in Nat /\ MaxAttempts >= ConsensusFrames
    /\ MinCorrespondences \in Nat \ {0}
    /\ Positions \subseteq [1..3 -> Int]

ASSUME WindowAssumption ==
    /\ MaxCloneSize \in Nat \ {0} /\ MaxSlam \in Nat /\ DtSlamDelay \in Nat

\* 0.10 s is several IMU periods and larger than the camera-IMU offset.
ASSUME ClockAssumption ==
    /\ CamImuDt \in Int /\ Slack \in Nat /\ InitWindow \in Nat
    /\ ImuPeriod \in Nat \ {0} /\ MaxTime \in Nat /\ MaxLag \in Nat
    /\ CamImuDt <= InitWindow /\ ImuPeriod - 1 <= Slack
    /\ ImuPeriod - 1 - CamImuDt <= Slack

VARIABLES
    phase,       \* long_gap_recovery_phase
    attempts,    \* long_gap_recovery_attempt_count
    consensus,   \* long_gap_recovery_consensus: the poses, oldest first
    activations, commits, failures,  \* the three recovery counters
    epoch,       \* epoch_id
    initialized, \* is_initialized_vio
    initOk,      \* thread_init_success
    stateTs,     \* state->_timestamp
    clones,      \* keys of state->_clones_IMU
    slam,        \* size of state->_features_SLAM
    startup,     \* startup_time
    lastUpdate,  \* timelastupdate
    didZupt,     \* did_zupt_update
    hasMoved,    \* has_moved_since_zupt
    imu,         \* timestamps in Propagator::imu_data
    imuLast,     \* newest IMU reading ever delivered
    lastFrame,   \* time of the last camera frame delivered
    trail        \* history: the outcome of every attempt of this activation

recovery == <<phase, attempts, consensus, activations, commits, failures, epoch>>
live     == <<stateTs, clones, slam, startup>>
flags    == <<lastUpdate, didZupt, hasMoved>>
boot     == <<initialized, initOk>>
vars     == <<recovery, live, flags, boot, imu, imuLast, lastFrame, trail>>

Phases == {"TRACKING", "REACQUIRING", "WARMUP", "FAILED"}
Rejected == <<>>   \* no pose: not a point of Positions

---------------------------------------------------------------------------
\* Clone and IMU window helpers.

\* Clones needed before visual updates start: min(max_clone_size, 5).
EnoughClones == IF MaxCloneSize < 5 THEN MaxCloneSize ELSE 5

\* State::margtimestep: the oldest clone (callers test for none first).
MargTimestep(c) == CHOOSE m \in c : \A x \in c : m <= x

\* StateHelper::marginalize_old_clone drops the oldest of an overfull window.
MarginalizeOldClone(c) ==
    IF Cardinality(c) > MaxCloneSize THEN c \ {MargTimestep(c)} ELSE c

\* Propagator::clean_old_imu_measurements.
CleanOldImu(buffer, oldest) ==
    IF oldest < 0 THEN buffer ELSE {r \in buffer : r >= oldest}

\* What select_imu_readings needs to return readings that span exactly
\* [time0, time1]: one reading at or before time0 and one after it.
Covers(buffer, time0) ==
    /\ \E r \in buffer : r <= time0
    /\ \E r \in buffer : r > time0

\* Mutant: no test that the frame is newer than the state.
PredictOrientationAnyTime(t) == Covers(imu, stateTs + CamImuDt)

\* predict_orientation_readonly succeeds.
PredictOrientation(t) == t > stateTs /\ Covers(imu, stateTs + CamImuDt)

---------------------------------------------------------------------------
\* The stationary consensus over the accepted poses.

\* values[size/2] of the sorted components along one dimension.
ComponentMedian(s, d) ==
    CHOOSE m \in {s[i][d] : i \in DOMAIN s} :
        /\ Cardinality({i \in DOMAIN s : s[i][d] < m}) <= Len(s) \div 2
        /\ Cardinality({i \in DOMAIN s : s[i][d] <= m}) > Len(s) \div 2

\* maximum_radius <= stationary_radius, compared as squares.
WithinRadius(s) ==
    \A i \in DOMAIN s :
        LET off(d) == s[i][d] - ComponentMedian(s, d)
        IN  off(1) * off(1) + off(2) * off(2) + off(3) * off(3) <= Radius * Radius

---------------------------------------------------------------------------
Init ==
    /\ phase = "TRACKING" /\ attempts = 0 /\ consensus = <<>>
    /\ activations = 0 /\ commits = 0 /\ failures = 0 /\ epoch = 0
    /\ initialized = FALSE /\ initOk = FALSE
    /\ stateTs = -1 /\ clones = {} /\ slam = 0 /\ startup = -1
    /\ lastUpdate = -1 /\ didZupt = FALSE /\ hasMoved = FALSE
    /\ imu = {} /\ imuLast = 0 /\ lastFrame = 0 /\ trail = <<>>

---------------------------------------------------------------------------
\* IMU side.

\* Mutant: history is pruned against the newest reading, not the window.
OldestNeededFromNewest(r) == r

\* feed_measurement_imu's choice of the oldest reading still needed.
OldestNeeded(r) ==
    IF ~initialized THEN r - InitWindow + CamImuDt - Slack
    ELSE IF clones = {} THEN -1
    ELSE IF MargTimestep(clones) > stateTs THEN -1
    ELSE MargTimestep(clones)

\* feed_measurement_imu followed by Propagator::feed_imu.
FeedImu(r) ==
    /\ r > imuLast /\ r <= imuLast + ImuPeriod /\ r <= MaxTime
    /\ imu' = CleanOldImu(imu \cup {r}, OldestNeeded(r) - Slack)
    /\ imuLast' = r
    /\ UNCHANGED <<recovery, live, flags, boot, lastFrame, trail>>

---------------------------------------------------------------------------
\* Camera side.  A frame is handed over once an IMU reading newer than it
\* has arrived (callback_inertial's test on the head of the camera queue).
FrameArrives(t) ==
    /\ t + CamImuDt < imuLast
    /\ InOrder => t > lastFrame /\ imuLast - (t + CamImuDt) <= MaxLag
    /\ lastFrame' = t
    /\ UNCHANGED imuLast

\* Mutant: the trigger does not test for TRACKING.
GapDetectedInAnyPhase(t) ==
    RecoveryEnabled /\ initialized /\ phase # "FAILED" /\ t - stateTs > Threshold

\* The outage test at the head of track_image_and_update.
GapDetected(t) ==
    /\ RecoveryEnabled /\ initialized /\ phase = "TRACKING"
    /\ t - stateTs > Threshold

\* The frame is routed to process_long_gap_recovery_frame.
Attempting(t) == GapDetected(t) \/ (RecoveryEnabled /\ phase = "REACQUIRING")

\* The attempt counter and the samples once the trigger has reset them.
AttemptNumber(t) == IF GapDetected(t) THEN 1 ELSE attempts + 1
Samples(t) == IF GapDetected(t) THEN <<>> ELSE consensus
Trail(t, outcome) == Append(IF GapDetected(t) THEN <<>> ELSE trail, outcome)
Activations(t) == activations + (IF GapDetected(t) THEN 1 ELSE 0)

\* LongGapRelocalizer::recover can accept only with an IMU orientation prior
\* and enough retained landmarks; which pose it finds is up to the scene.
Acceptable(t) == PredictOrientation(t) /\ slam >= MinCorrespondences

\* The tail of process_long_gap_recovery_frame: no commit, samples left over
\* are `rest', and the last allowed attempt ends in FAILED.
Unresolved(t, rest, outcome) ==
    /\ attempts' = AttemptNumber(t)
    /\ activations' = Activations(t)
    /\ trail' = Trail(t, outcome)
    /\ IF AttemptNumber(t) >= MaxAttempts
         THEN /\ phase' = "FAILED" /\ failures' = failures + 1
              /\ consensus' = <<>>
         ELSE /\ phase' = "REACQUIRING" /\ failures' = failures
              /\ consensus' = rest
    /\ UNCHANGED <<commits, epoch, live, flags, boot, imu>>

\* Mutant: a rejected frame does not clear the samples.
RejectPoseKeepsSamples(t) ==
    FrameArrives(t) /\ Attempting(t) /\ Unresolved(t, Samples(t), Rejected)

\* Mutant: a stale frame returns before the attempt is counted.
RejectPoseUncounted(t) ==
    /\ FrameArrives(t) /\ Attempting(t)
    /\ IF t > stateTs THEN Unresolved(t, <<>>, Rejected)
       ELSE UNCHANGED <<recovery, live, flags, boot, imu, trail>>

\* recover() rejected the frame: consecutive acceptances start over.
RejectPose(t) ==
    /\ FrameArrives(t) /\ Attempting(t)
    /\ Unresolved(t, <<>>, Rejected)

\* recover() accepted, but fewer than consensus_frames in a row so far.
AcceptPose(t, p) ==
    /\ FrameArrives(t) /\ Attempting(t) /\ Acceptable(t)
    /\ Len(Samples(t)) + 1 < ConsensusFrames
    /\ Unresolved(t, Append(Samples(t), p), p)

\* Enough poses in a row, but they are not stationary.
RejectConsensus(t, p) ==
    /\ FrameArrives(t) /\ Attempting(t) /\ Acceptable(t)
    /\ Len(Samples(t)) + 1 >= ConsensusFrames
    /\ ~WithinRadius(Append(Samples(t), p))
    /\ Unresolved(t, <<>>, p)

\* What every version of the commit below does to the recovery variables.
CommitBookkeeping(t, p) ==
    /\ FrameArrives(t) /\ Attempting(t) /\ Acceptable(t)
    /\ Len(Samples(t)) + 1 >= ConsensusFrames
    /\ WithinRadius(Append(Samples(t), p))
    /\ attempts' = AttemptNumber(t)
    /\ activations' = Activations(t)
    /\ trail' = Trail(t, p)
    /\ imu' = CleanOldImu(imu, t + CamImuDt - Slack)
    /\ initialized' = TRUE
    /\ epoch' = epoch + 1 /\ commits' = commits + 1
    /\ phase' = "WARMUP" /\ consensus' = <<>>
    /\ UNCHANGED <<failures, initOk>>

\* Mutant: the live state is moved rather than replaced.
CommitKeepsLandmarks(t, p) ==
    /\ CommitBookkeeping(t, p)
    /\ stateTs' = t /\ clones' = {} /\ startup' = t /\ UNCHANGED slam
    /\ lastUpdate' = t /\ didZupt' = FALSE /\ hasMoved' = FALSE

\* commit_long_gap_recovery: a fresh state at the verified pose.
Commit(t, p) ==
    /\ CommitBookkeeping(t, p)
    /\ stateTs' = t /\ clones' = {} /\ slam' = 0 /\ startup' = t
    /\ lastUpdate' = t /\ didZupt' = FALSE /\ hasMoved' = FALSE

\* FAILED: the frame is logged and dropped.
DegradedFrame(t) ==
    /\ FrameArrives(t) /\ RecoveryEnabled /\ phase = "FAILED"
    /\ UNCHANGED <<recovery, live, flags, boot, imu, trail>>

---------------------------------------------------------------------------
\* The ordinary pipeline.

\* Mutant: FAILED frames fall through to the ordinary pipeline.
OrdinaryInFailed(t) == FrameArrives(t) /\ ~Attempting(t)

Ordinary(t) == FrameArrives(t) /\ ~Attempting(t) /\ phase # "FAILED"

ZuptArmed == initialized /\ TryZupt /\ (~ZuptOnlyAtBeginning \/ ~hasMoved)

\* did_zupt_update after the ZUPT block: kept for a repeated timestamp,
\* decided by try_update otherwise.
ZuptDecision(t, accepted) ==
    IF t = stateTs THEN accepted = didZupt ELSE TRUE

\* Mutant: the clean-up keeps nothing before the new state time.
ZuptUpdateNoSlack(t) ==
    /\ Ordinary(t) /\ ZuptArmed /\ ZuptDecision(t, TRUE)
    /\ stateTs' = t /\ didZupt' = TRUE
    /\ imu' = CleanOldImu(imu, t + CamImuDt)
    /\ UNCHANGED <<recovery, clones, slam, startup, lastUpdate, hasMoved, boot, trail>>

\* try_update accepted: the state moves to t with no clone.
ZuptUpdate(t) ==
    /\ Ordinary(t) /\ ZuptArmed /\ ZuptDecision(t, TRUE)
    /\ stateTs' = t /\ didZupt' = TRUE
    /\ imu' = CleanOldImu(imu, t + CamImuDt - Slack)
    /\ UNCHANGED <<recovery, clones, slam, startup, lastUpdate, hasMoved, boot, trail>>

\* The frame goes on to do_feature_propagate_update.
PastZupt(t) ==
    IF ZuptArmed THEN ZuptDecision(t, FALSE) /\ didZupt' = FALSE
                 ELSE UNCHANGED didZupt

\* First frame after the initialisation thread reported success: this frame
\* sets is_initialized_vio and is processed at once.
Started == initialized \/ initOk

\* Environment: the first frame after initialisation comes within the window
\* of IMU history the uninitialised estimator keeps.
FirstFramePrompt ==
    (PromptFirstFrame /\ ~initialized) => imuLast - stateTs <= InitWindow

\* "image received out of order, unable to do anything".
OutOfOrderFrame(t) ==
    /\ Ordinary(t) /\ Started /\ FirstFramePrompt /\ PastZupt(t) /\ stateTs > t
    /\ initialized' = TRUE
    /\ UNCHANGED <<recovery, live, lastUpdate, hasMoved, initOk, imu, trail>>

\* propagate_and_clone, when the state is not already at t.
PropagatedClones(t) == IF stateTs = t THEN clones ELSE clones \cup {t}

\* Propagation only: the window has too few clones for an update.
PropagateOnly(t) ==
    /\ Ordinary(t) /\ Started /\ FirstFramePrompt /\ PastZupt(t)
    /\ stateTs <= t
    /\ Cardinality(PropagatedClones(t)) < EnoughClones
    /\ stateTs' = t /\ clones' = PropagatedClones(t)
    /\ initialized' = TRUE
    /\ UNCHANGED <<recovery, slam, startup, lastUpdate, hasMoved, initOk, imu, trail>>

\* SLAM features gained or lost by one update: lost tracks are marginalised,
\* and new ones are added only past dt_slam_delay and from a full window.
SlamAfter(t, n) ==
    /\ n \in 0..MaxSlam
    /\ n > slam => /\ t - startup >= DtSlamDelay
                   /\ \/ Cardinality(PropagatedClones(t)) > MaxCloneSize
                      \/ Cardinality(PropagatedClones(t)) > 5

\* A full visual update, which also completes a warm-up.
VisualUpdate(t, n) ==
    /\ Ordinary(t) /\ Started /\ FirstFramePrompt /\ PastZupt(t)
    /\ stateTs <= t
    /\ Cardinality(PropagatedClones(t)) >= EnoughClones
    /\ SlamAfter(t, n)
    /\ stateTs' = t /\ clones' = MarginalizeOldClone(PropagatedClones(t))
    /\ slam' = n /\ lastUpdate' = t /\ hasMoved' = TRUE
    /\ initialized' = TRUE
    /\ phase' = IF RecoveryEnabled /\ phase = "WARMUP" THEN "TRACKING" ELSE phase
    /\ UNCHANGED <<attempts, consensus, activations, commits, failures, epoch,
                   startup, initOk, imu, trail>>

---------------------------------------------------------------------------
\* Bringing the estimator up.

\* try_to_initialize, run to completion (single-threaded subscribers).
InitializeFails(t) ==
    /\ Ordinary(t) /\ ~Started
    /\ UNCHANGED <<recovery, live, flags, boot, imu, trail>>

\* The initialiser finds a state inside its IMU window; the frame itself is
\* not processed further.
InitializeSucceeds(t, t0) ==
    /\ Ordinary(t) /\ ~Started
    /\ t0 <= t /\ Covers(imu, t0 + CamImuDt)
    /\ initOk' = TRUE /\ stateTs' = t0 /\ startup' = t0
    /\ hasMoved' \in BOOLEAN
    /\ UNCHANGED <<recovery, clones, slam, lastUpdate, didZupt, initialized, imu, trail>>

\* initialize_with_gt, called once before any frame is fed, at the time of the
\* first frame the runner is about to feed.
InitializeWithGt(t0) ==
    /\ ~Started /\ lastFrame = 0 /\ Covers(imu, t0 + CamImuDt)
    /\ initialized' = TRUE /\ stateTs' = t0 /\ startup' = t0
    /\ lastFrame' = t0 - 1
    /\ UNCHANGED <<recovery, clones, slam, flags, initOk, imu, imuLast, trail>>

Times == 1..MaxTime

CameraFrame(t) ==
    \/ RejectPose(t)
    \/ \E p \in Positions : AcceptPose(t, p)
    \/ \E p \in Positions : RejectConsensus(t, p)
    \/ \E p \in Positions : Commit(t, p)
    \/ DegradedFrame(t)
    \/ ZuptUpdate(t)
    \/ OutOfOrderFrame(t)
    \/ PropagateOnly(t)
    \/ \E n \in 0..MaxSlam : VisualUpdate(t, n)
    \/ InitializeFails(t)
    \/ \E t0 \in Times : InitializeSucceeds(t, t0)

Next ==
    \/ \E r \in Times : FeedImu(r)
    \/ \E t0 \in Times : InitializeWithGt(t0)
    \/ \E t \in Times : CameraFrame(t)

Spec == Init /\ [][Next]_vars

\* Cameras keep delivering frames: an outage of the resumed stream is over.
LiveSpec == Spec /\ WF_vars(\E t \in Times : CameraFrame(t))

---------------------------------------------------------------------------
\* Properties.

TypeRecovery ==
    /\ phase \in Phases
    /\ attempts \in 0..MaxAttempts
    /\ consensus \in Seq(Positions) /\ Len(consensus) < ConsensusFrames
    /\ activations \in Nat /\ commits \in Nat /\ failures \in Nat /\ epoch \in Nat
    /\ trail \in Seq(Positions \cup {Rejected})

TypeLive ==
    /\ stateTs \in Int /\ clones \in SUBSET Nat /\ slam \in 0..MaxSlam
    /\ startup \in Int /\ lastUpdate \in Int

TypeFlags ==
    /\ initialized \in BOOLEAN /\ initOk \in BOOLEAN
    /\ didZupt \in BOOLEAN /\ hasMoved \in BOOLEAN

TypeClock == imu \in SUBSET Nat /\ imuLast \in Nat /\ lastFrame \in Nat

\* Every variable stays in its type; an attempt count, a consensus and a
\* landmark count never pass their configured limits.
TypeOK == TypeRecovery /\ TypeLive /\ TypeFlags /\ TypeClock

\* The counters the run report requires (activation, commit, failure, epoch)
\* account for every outage: each activation ended in exactly one commit or
\* one failure, or is the one under way, and only a commit opens an epoch.
OutagesAccounted ==
    /\ activations = commits + failures + (IF phase = "REACQUIRING" THEN 1 ELSE 0)
    /\ epoch = commits
    /\ failures = (IF phase = "FAILED" THEN 1 ELSE 0)

\* s is the newest part of the history h.
Newest(s, h) ==
    Len(s) <= Len(h) /\ \A i \in 1..Len(s) : s[i] = h[Len(h) - Len(s) + i]

\* process_long_gap_recovery_frame: the samples held for the consensus are
\* the outcomes of the most recent attempts, with no rejected frame between.
ConsensusIsRecent ==
    phase = "REACQUIRING" =>
        /\ Len(trail) = attempts /\ attempts < MaxAttempts
        /\ Newest(consensus, trail)

\* commit_long_gap_recovery runs only when the last ConsensusFrames attempts
\* of this outage were all accepted and agree within the radius, no attempt
\* beyond the limit was used, and the committed state is newer than the stale
\* one it replaces.
CommitNeedsConsensus ==
    [][epoch' # epoch =>
         LET n == Len(trail')
             last == SubSeq(trail', n - ConsensusFrames + 1, n)
         IN  /\ n >= ConsensusFrames /\ n <= MaxAttempts
             /\ Rejected \notin {last[i] : i \in DOMAIN last}
             /\ WithinRadius(last)
             /\ stateTs' > stateTs]_vars

\* The live state's time never runs backwards, whatever order frames come in.
StateTimeMonotone == [][stateTs' >= stateTs]_vars

\* Pruning of the IMU history (feed_imu, the clean-up after a ZUPT and after a
\* commit) never discards the reading the next propagation or orientation
\* prediction has to start from.
ImuHistoryKept ==
    initialized => \E r \in imu : r <= stateTs + CamImuDt

\* propagate_and_clone's assertion: the readings it integrates span the whole
\* interval it moves the state over.
PropagationHasImu ==
    [][stateTs' # stateTs /\ stateTs' \in clones' => Covers(imu, stateTs + CamImuDt)]_vars

\* Landmarks exist only once the epoch is dt_slam_delay old, so an outage that
\* starts sooner after start-up or after a commit cannot be recovered from.
LandmarksMature == slam > 0 => stateTs - startup >= DtSlamDelay

\* During warm-up the fresh epoch holds no old landmark and too few clones for
\* an update, and the state shown to consumers is the committed one.
WarmupIsFresh ==
    phase = "WARMUP" =>
        /\ Cardinality(clones) < EnoughClones /\ slam = 0
        /\ \A c \in clones : c > startup
        /\ lastUpdate = startup

\* A commit starts a new map: nothing of the map before the outage outlives it,
\* neither in the warm-up nor in the ordinary pipeline that follows it
\* (VioManagerHelper.cpp commit_long_gap_recovery, VioManager.cpp do_feature_propagate_update).
NewMapIsFresh == LandmarksMature /\ WarmupIsFresh

\* "Detect an initialized camera outage before the ordinary frontend/state
\* pipeline can propagate the stale position and velocity through it."
NoPropagationThroughOutage ==
    [][initialized /\ RecoveryEnabled /\ stateTs' - stateTs > Threshold
         => epoch' # epoch]_vars

\* With frames arriving, a reacquisition ends in a commit or in FAILED.
OutageResolves == phase = "REACQUIRING" ~> phase \in {"WARMUP", "FAILED"}

\* The boundary a consumer of the pose stream sees.
Contract == INSTANCE RecoveryContract WITH
    mode <- CASE phase = "REACQUIRING" -> "held"
              [] phase = "FAILED" -> "lost"
              [] OTHER -> "live",
    ts <- stateTs, map <- slam, epoch <- epoch

\* The recovery machine implements the boundary contract.
ImplementsContract == Contract!Spec
=============================================================================
