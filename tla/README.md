# A TLA+ verification project for BRAVO

BRAVO is a fork of the OpenVINS MSCKF visual-inertial estimator.  To it, the
repository adds recovery from long camera outages (*long-gap recovery*), a
Schur-complement update with its trace and replay machinery (*CP2*), rotation
diagnostics (*TurnSafe*), and, by far the largest part, the Python tooling that
prepares hosts, runs campaigns of experiments, and verifies, publishes and
reports what they produced.

The project models both sides.  Of the estimator: what it does to its phases,
clocks, buffers, maps and queues.  Of the tooling: what an experiment's evidence
can be made of, who may change, kill or interrupt what and when, and what a
published result then stands for.  Linear algebra and image processing are
abstracted to the outcomes they can have, files to what tells them apart.

All paths below are relative to the repository; `src/ov_msckf` is the estimator,
`src/scripts` the tooling.  `PROJECT.json` maps every definition to the lines it
models.

## 1. Inventory

### The estimator: parts, state, operations

| Part | State | Operations |
|---|---|---|
| **VioManager**, recovery (`core/VioManager.cpp`, `VioManagerHelper.cpp`) | recovery phase (TRACKING, REACQUIRING, WARMUP, FAILED), attempt count, accepted poses, three counters, epoch; initialised flags; ZUPT flags | `feed_measurement_imu`, `track_image_and_update`, `process_long_gap_recovery_frame`, `commit_long_gap_recovery`, `do_feature_propagate_update`, `try_to_initialize`, `initialize_with_gt` |
| **Propagator** (`state/Propagator.*`) | IMU history, odometry cache and its valid flag | `feed_imu`, `clean_old_imu_measurements`, `select_imu_readings`, `propagate_and_clone`, `fast_state_propagate`, `predict_orientation_readonly`, `invalidate_cache` |
| **State / StateHelper** (`state/`) | variables with ids and sizes, covariance, clone map, landmark map, timestamp | `clone`, `initialize`, `marginalize`, `augment_clone`, `marginalize_old_clone`, `marginalize_slam`, `EKFPropagation`, `EKFUpdate` |
| **UpdaterSLAM**, **UpdaterMSCKF**, **UpdaterZeroVelocity** (`update/`) | per-update scratch data; the MSCKF updater also a one-shot CP2 context | `delayed_init`, `update`, `change_anchors`, `try_update` |
| **ROS1Visualizer** (`ros/ROS1Visualizer.*`) | camera queue and its mutex, last stamp per camera, update-thread flag | `callback_inertial`, `callback_monocular`, `callback_stereo`, the update thread, `visualize_odometry` |
| **CP2 serial pairing and trace** (`update/CP2SerialPairing.cpp`, `CP2SerialRuntimeTrace.cpp`) | what became of every stereo pair; several trace files | enqueue, process, finalize |
| **LongGapRelocalizer**, **tracker**, **initialisers**, **TurnSafe diagnostics** | none between calls that control depends on | recover, track, initialise, diagnose |

### The tooling: parts, state, operations

| Part | State | Operations |
|---|---|---|
| **Host-control transaction** (`cp2/cp2_timing_controls.py`) | recovery journal, forked guardian, host settings | capture, apply, validate, restore, guardian and manual recovery |
| **Privileged helper** (`cp2/cp2_timing_privileged_helper.py`, `..._backend.py`) | session state, journal on disk, guardian's samples, receipts, cpuset | hello, apply, observe, restore, seal, recover; the detached verifier |
| **Recorded campaign** (`cp2/cp2_recorded_campaign.py`, `cp2_readiness.py`) | data lock, worktree identity, hidden and final directory, marker | readiness barrier, confined worker, sealing, verification, rename, roll-back |
| **Unit report** (`cp2/verify_report.py`) | evidence files, manifest, hidden and final name | assemble, verify, freeze, rename, reconcile, detached verification |
| **Sequence pair** (`cp2/run_sequence_pair.py`, `cp2_sequence_*.py`) | bound inputs, sinks, traces, archives | bind, run both modes, compare, publish, verify a set |
| **Timing campaign** (`cp2/run_timing_pair.py`, `cp2_timing_artifact.py`, `..._publication.py`, `..._math.py`, `..._profile.py`) | host state, phase evidence, artifact | apply, run phases, restore, assemble, publish; exact decisions |
| **Cross-dataset trial and campaign** (`icra27/cross_dataset_*.py`) | run directories, event log, derived results, report | run a trial, classify, adopt or derive, aggregate |
| **KAIST campaign** (`turnsafe/kaist_vio_campaign.py`, `kaist_vio_reports.py`, `event_ready_association.py`) | bound inputs, telemetry log, archive, result | adapt, launch, validate, evaluate, archive, commit, report |

### How they interact

* IMU readings go `callback_inertial -> VioManager::feed_measurement_imu ->
  Propagator::feed_imu` and, on the same thread, to `visualize_odometry`, which
  predicts a pose from a cached copy of the state.
* Images go through a callback per stream into the camera queue.  An IMU reading
  starts the update thread unless one runs; the thread feeds every queued frame
  older than the reading to `track_image_and_update`.
* Each frame takes exactly one of the paths recovery, zero-velocity update,
  initialisation or propagate-and-update.  All of them read or prune the IMU
  history.  A recovery commit replaces the whole `State` object and opens a new
  epoch.
* The serial runner pairs the messages of a bag, feeds them, and writes trace
  files that refer to each other; the recorded, sequence and timing campaigns
  accept a run by joining those files.
* The timing campaign runs the estimator between the host-control transaction's
  apply and restore, under the eyes of the privileged helper's guardian.
* The unit report is what the readiness barrier asks for before a recorded or a
  sequence campaign may run.
* A cross-dataset campaign launches one trial per cell and, from the results,
  the pair evaluator, the mechanism check, the reference extractor and the
  geometry bundler; the aggregator reads all of them.

### What is hard

* *Interleavings*: the update thread against callbacks; a signal handler against
  a command in flight; threads born while others are moved into a cpuset; two
  campaigns on one directory; a surviving process that goes on writing.
* *Crashes*: a kill, a power loss or an interrupt between any two steps of
  changing a host, publishing a directory or recording a result.
* *Stale evidence*: a file of another run, another build or another mode that
  passes every check of its own; an input that changes between two uses.
* *Long legal sequences*: two outages in a row, an outage during warm-up, a
  rejected pose between accepted ones, thousands of insertions and
  marginalisations that must keep ids and covariance rows together.
* *Edges*: cuts at interval ends, repeated timestamps, ties in nearest
  association, unsigned boundaries, medians.

`PROJECT.json` lists these hazards at their lines with the properties that
watch them.

## 2. Plan

| Order | Module | Subject | Status |
|---|---|---|---|
| 1 | `LongGapRecovery`, `RecoveryContract` | recovery; what it promises to a consumer of the pose | checked; main safety properties and the refinement proved |
| 2 | `StateWindow` | state vector, covariance, clone and landmark maps | checked; layout proved |
| 3 | `ImuSelection`, `CameraPipeline`, `OdometryCache`, `Estimator` | what recovery assumes of history and frames; odometry | checked; safety proved |
| 4 | `HostControls`, `PrivilegedHelper`, `CpusetPlacement`, `Host` | host settings under crashes and signals | checked; safety proved |
| 5 | `RecordedCampaign`, `UnitReport`, `RuntimeTrace` | evidence of the CP2 campaigns and its publication | checked; what is committed or published proved |
| 6 | `SequenceMath`, `SequencePair` | the two-mode sequence experiment | checked; what is published and reported proved |
| 7 | `TimingDecision`, `TimingCampaign` | the timing experiment | checked; what is published and what a failure leaves proved |
| 8 | `TrialRunner`, `CrossDataset`, `Campaigns` | one trial; the campaign of trials | checked; safety proved |
| 9 | `T0Log`, `KaistCampaign` | telemetry and the KAIST campaign | checked; association and report proved |
| 10 | proofs | `Host`, `CrossDataset`, `RecordedCampaign`, `SequencePair`, `UnitReport`, `Estimator`, the rest of `LongGapRecovery` | proved |
| 11 | proofs | `PrivilegedHelper!VerifierIsExact`, `TrialRunner`, `TimingCampaign`, `KaistCampaign` | proved, but for what section 5 lists as only checked |

*Composition.*  `SequencePair`, `TimingCampaign` and `KaistCampaign` extend the
module of their pure parts.  `CrossDataset` takes from `TrialRunner` the outcomes
of a cell; `TimingCampaign` takes from `HostControls` and `PrivilegedHelper` that
a transaction is applied, restored or indeterminate, and that the guardian may
have seen drift; `LongGapRecovery` takes from `ImuSelection` what a history has
to cover (`Covers`) and from `CameraPipeline` that frames come one at a time with
a reading past them.  Components that share no state are checked side by side
(`MCEstimator`, `MCHost`, `MCEvidence`, `MCCampaigns`): a behaviour of such a suite is a
behaviour of one part, chosen in the initial state, and every property is about
one part.  That asks the same questions as a run each and needs no product of
their states.  `Estimator` puts the layers around the recovery side by side and
names their properties; `MCEstimator` checks it and `EstimatorProofs` proves them
from it.  `Host` does the same for what keeps the host's controls and for the timing
campaign that measures on them, `Campaigns` for the cross-dataset campaign, one
trial of it and the KAIST campaign.

## 3. The modules and the code

### LongGapRecovery

One action per path a frame can take through `track_image_and_update`, with the
whole handler in it, plus `FeedImu` and the two ways of bringing the estimator
up.

| Action | Code |
|---|---|
| `RejectPose`, `AcceptPose`, `RejectConsensus`, `Commit` | `process_long_gap_recovery_frame` and `commit_long_gap_recovery`, including the trigger when this frame is the one that detects the outage |
| `DegradedFrame` | FAILED: the frame is dropped |
| `ZuptUpdate` | `try_update` accepted |
| `OutOfOrderFrame`, `PropagateOnly`, `VisualUpdate` | `do_feature_propagate_update` up to each of its returns |
| `InitializeFails`, `InitializeSucceeds`, `InitializeWithGt` | start-up |
| `FeedImu` | `feed_measurement_imu` and the pruning in `feed_imu` |

Times are integer ticks, a camera time `t` being `t + CamImuDt` on the IMU
clock.  The estimator's numbers are reduced to the state's time, its clone
times and how many landmarks it has.  A relocalised pose is an integer point;
the median and the radius test are the code's.  Whether a pose is found, whether
a zero-velocity test passes and how many landmarks survive an update are
nondeterministic, within the code's guards.  `trail` is a history variable: the
outcome of each attempt in the current outage.  Environment parameters:
`ImuPeriod` (largest step between readings), `InOrder` (camera times increase),
`PromptFirstFrame` (no outage directly after initialisation).

**RecoveryContract**: *live*, *held* and *lost*.  While held the estimate is
frozen; it is replaced only by a newer one, with a new epoch and an empty map;
lost is final.  `ImplementsContract` is the refinement: TRACKING and WARMUP are
live, REACQUIRING is held, FAILED is lost.

### ImuSelection, StateWindow, CameraPipeline, OdometryCache

* `ImuSelection`: `select_imu_readings` one iteration per step, on timestamps,
  against a declarative reference: `{time0, time1}` and the readings between.
* `StateWindow`: the layout of the filter.  A covariance row is named after the
  variable it is about, so that copying or cutting the wrong rows shows up as a
  misnamed row.  A frame goes through the order of `do_feature_propagate_update`;
  zero-velocity updates and commits happen between frames.
* `CameraPipeline`: a callback per image stream (rate filter, decode, queue under
  the lock), the IMU callback, and the update thread, detached or joined.  Steps
  are separated where another actor can come in between.  `slot` is the stack
  slot behind the reference that the detached lambda captured.  `Sorts` is what
  `std::sort` promises: some rearrangement with no frame behind a later one.
* `OdometryCache`: the IMU callback copies time, mean and covariance and sets the
  valid flag last; the update thread propagates, corrects, replaces and
  invalidates.

### HostControls

`HostControlTransaction`.  A control is at its prior value or changed; the last
two (affinity, DMA latency) end with the process.

| Action | Code |
|---|---|
| `Capture`, `ForkGuardian`, `BeginMutation` / `EndMutation`, `SkipControl`, `ValidateApplied`, `ApplyRefused` | `apply`: snapshot and journal, guardian, one command per control |
| `RestoreControl`, `VerifyRestored`, `CancelGuardian`, `RemoveJournal`, `AskGuardian`, `HearGuardian`, `Unwind` | `restore`, in reverse order, with its failures |
| `GuardianWakes`, `GuardianRestores`, `GuardianReports` | the forked guardian, woken by the caller's death or a request |
| `OperatorOpens`, `OperatorRestores`, `OperatorReports` | the manual recovery from a journal |
| `Signal`, `Kill`, `KillGuardian`, `LateCommand` | handler, kills, a command that takes effect after its caller gave up |

`Settle` says whether a command in flight is over before the signal handler
restores; `host` checks the transaction with it, `host_signal` without.

### PrivilegedHelper and CpusetPlacement

`PrivilegedHelper` is one session after the other over the same host: preflight,
capture, journal, apply, observations, restore, receipt; the guardian thread that
samples; failures and the emergency restore; kills; the pending journal that
blocks later sessions; `recover_pending`; and, as operators, the detached
verifier of the guardian's, the helper's and the client's evidence.
`CpusetPlacement` is the loop that moves every thread of a running process into
the cpuset and back, against a process that creates and ends threads.

### RecordedCampaign

`ParentStep` (revalidate, barrier, output, campaign, publish, end), `WorkerStep`
(namespaces, capsule, build, runs, assembly, sealing, the supervisor that
forwards the result) and `Mishap` (edits of the worktree, a spoiled recording,
another holder of the lock, a process that outlives the worker and writes,
interrupts, exceptions, kills).  Content of the worktree is a generation number.

### UnitReport

`run_unit_gate.sh` and `verify_report.py` step by step: collecting, assembling,
manifest, verification, freezing, rename, sync, exit trap, reconciliation.  A
file is known by the run that wrote it.  The validators are operators on the
evidence (`CompileEntries`, `LinkRecord`, `Timeline`, ...).  The name of a
directory has a value in memory (`at`) and one a power loss leaves (`disk`).  The
manifest a run generated stays in its record (`made`), for the properties.

### RuntimeTrace

`Enqueue`, `Process`, `Finalize` are the serial runner and its trace;  `Disturb`
loses, doubles, moves or changes one record of one file; `Verify` is the
validator of the campaign level: `RecordedHolds`, `SequenceHolds`, `TimingHolds`.

### SequenceMath and SequencePair

`SequenceMath`: the anchor walk over camera messages, exact association, nearest
ground-truth rows, each with a declarative reference.  `SequencePair`: one
transaction from authorization and binding of inputs through the two mode runs,
the comparisons, the workers, publication and detached verification, and the
verification of a set of sequences.  Bags and ground truth are known by content
and inode, a trace by the run and mode that wrote it, an executable by its commit
and by which bytes came of building it.

### TimingDecision and TimingCampaign

`TimingDecision`: eligible samples, nearest-rank quantiles, exact ratios, the
median of three, and what makes a profile isolate the estimator's core.
`TimingCampaign`: the orchestration (`Apply` ... `Restore`), evidence by origin
(`Assemble`, `VerifyStaging`), publication with its undo (`Seal` ... `Cleanup`),
and drift, edits, interrupts and kills.

### TrialRunner and CrossDataset

`TrialRunner`: the stages of `run_trial`; what the estimator did is a set of
defects of which the runner learns stage by stage; then `Classify`, `Publish`,
`Seal` and, on the campaign's side, `Validate`.  `CrossDataset`: campaign
processes, the tools they launch (which survive them), result directories with
the generation they were made from, the event log, and the aggregator.

### T0Log and KaistCampaign

`T0Log`: what a telemetry line says, each check of `_validate_t0_jsonl`, and the
association of callbacks with trajectory rows.  `KaistCampaign`: the stages of
`run_campaign`, the report's revalidation, and edits of every file in between.

## 4. The runs

| Run | Question | Result |
|---|---|---|
| `recovery` | Two outages and two commits, frames in order, camera clock ahead of the IMU clock | every outage accounted for; a new map starts fresh; the contract is implemented |
| `recovery_any_order` | One outage with frames in any order and an irregular IMU | state time never goes back; every propagation has readings for its whole interval; every reacquisition ends |
| `recovery_zupt` | Zero-velocity updates, three-frame consensus, irregular IMU, camera clock ahead | pruning never drops the reading that the next propagation starts from; commits only on consecutive acceptances of this outage |
| `estimator` | Layout, selection, camera queue, odometry cache | rows, ids and anchors stay together; the selection integrates exactly the interval; no frame lost, fed twice or before its reading (joined thread); the queue drains also after an exception; the serial odometry is that of the current state |
| `host` | Faults, a signal, a kill at any point; drift, interrupts and exchanged evidence in the timing campaign | off-prior settings are always covered by a journal; whoever says restored says so of a restored host; a killed caller is repaired; the verifier accepts exactly one session's evidence; no thread escapes the cpuset; a published artifact was measured on a held host, an ordinary failure leaves nothing, decisions are exact |
| `recorded_campaign` | Edits, stray writers, exceptions, kills | a final directory is verified and matches the reported outcome; committed is immutable; every campaign ends and releases its lock |
| `evidence` | Unit report: evidence of two runs, edits, power loss.  Trace: one failure or disturbed record on three levels | a published directory holds the files of its run's manifest, about one commit and one build; what was announced is durable; an accepted trace tells what became of every pair |
| `sequence_pair` | Inputs, executables, sinks, traces that change | exact populations; both modes on the same inputs; the report is the verified one |
| `campaigns` | Interrupts, kills, two campaigns at once, results taken away, edits | results are complete at every boundary and the report tells one story; a retained trial is true of its estimator; an accepted log is of one run; a callback gets a row where that is unambiguous; a reported KAIST run used the frozen inputs |
| `warmup_gap` | Is every outage of an initialised estimator detected? | **violated**: not during WARMUP |
| `host_signal` | Is a host that was declared restored restored? | **violated** when a signal meets a command in flight |
| `helper_journal` | Does a journal failure still restore the host? | **violated** |

### Bounds, and why they are enough

* `LongGapRecovery`: threshold 2 ticks, so frames 1 and 2 ticks apart are
  ordinary and 3 are an outage; window of 2 clones; one landmark; 2 or 3
  consensus frames with 3 or 4 attempts, so that a run of acceptances can be
  interrupted and completed on the last attempt; three points, two within the
  radius.  16 ticks in order hold initialisation and two outages, each with a
  commit; 8 ticks in any order hold one outage with late frames everywhere in it.
* `estimator`: five readings on six ticks give every way in which readings can lie
  before, at, between and behind the ends, with repetitions; a window of two
  clones, three features of which one is an ARUCO corner, six camera times; two
  streams, one exception; two updates in an epoch and one commit.
* `host`: three settings of which one is already at its value, and the two that
  end with the process; one fault, one signal and one kill in the transaction;
  two sessions of the helper with two faults and a kill; three threads and two
  attempts for the placement; two timing pairs for the code's three, with two faults,
  so that a fault can hit the handling of another.
* `recorded_campaign`: two campaigns, one edit, two mishaps, so that a mishap can
  hit the handling of another and a campaign can meet its predecessor's remains.
* `evidence`, unit report: two runs, so that evidence can be of the other; two
  edits or misplacements; one fault.
* `evidence`, trace: bags of two and three pairs (both orders, a message without a
  partner, one too late), three outcomes of an update.
* `sequence_pair`: every bag of four messages at non-decreasing times, all
  ground truths of four rows; two sequences for the code's three; one fault, one
  change of an input.
* `campaigns`: one matrix row with a full pair, a mechanism check and a reference,
  two systems, three campaign processes of which two at a time, one fault and one
  removal; each adapter with both systems and modes; three callbacks, one damage per log and two where every section
  is present.

`CHECK_DEADLOCK` is off everywhere: a bounded clock, or an experiment that is
over, ends every behaviour.

### Fairness

* `LongGapRecovery!LiveSpec`: weak fairness of camera frames, i.e. frames are
  delivered.  Without frames the estimator does nothing, and the code has no
  timer.  Used by `recovery_any_order`, where late frames remain possible when the
  bound on time has ended the IMU stream.
* `CameraPipeline!LiveSpec`: readings keep arriving, and each thread that can take
  a step does.  Nothing is assumed of the image streams.
* `HostControls!LiveSpec`: processes that are alive run on; nobody has to call the
  manual recovery and nobody has to stay alive.
* `PrivilegedHelper!LiveSpec`: a recovery that has begun runs on.
* `RecordedCampaign!LiveSpec`: parent and worker run on; every command has a
  deadline in the code.

### What the violations show

1. `warmup_gap`: the trigger requires TRACKING (`VioManager.cpp:663`), so an
   outage during WARMUP is propagated through, against the comment above it.
2. `host_signal`: the handler restores while a command is in flight
   (`cp2_timing_controls.py:972-974`, `223-239`); the host is verified, the
   guardian cancelled and the journal removed before the command takes effect.
3. `helper_journal`: the first thing `_restore` does is to append to the journal
   (`cp2_timing_privileged_helper.py:3561`); if that fails nothing is restored,
   against the comment in `_emergency_restore`.

### Seen while modelling, without a run of their own

Estimator:

* Until the first frame after initialisation, IMU history is pruned as if
  uninitialised (`VioManager.cpp:548`) and the trigger is off: after a long
  outage there the assertion at `Propagator.cpp:170` fails.  `PromptFirstFrame`
  excludes this.
* The detached update lambda reads a local variable of a callback that may have
  returned (`ROS1Visualizer.cpp:531`): a frame can be fed without a reading past
  it.  `FedInOrder` asks for the reading of the joined thread only.
* With the detached thread, an odometry cache that is being filled while a commit
  invalidates it is marked valid afterwards (`Propagator.cpp:218`).
  `CloneOfCurrentState` is checked with the serial subscriber.
* With zero-velocity updates on, a late frame reaches `try_update` before the
  out-of-order test and can move the state's time back (`VioManager.cpp:704`).
* With three or more streams a late frame can be fed after newer ones of a stream
  that was used up; `OldestFirst` speaks of queued frames only.
* The first odometry prediction after an invalidation is ahead by the camera
  offset (`Propagator.cpp:223`); `CloneOfCurrentState` states the exact error.

Tooling:

* `RecordedCampaign`: an exception between the creation of the hidden directory
  and the `try` behind it leaves an empty, unmarked directory.
* `UnitReport`: nothing binds the self-test record or the link commands to a run.
* `TrialRunner`: an interrupted capture whose bytes differ is retained as
  `retained_capture_link_mismatch` (`cross_dataset_campaign.py:1563-1567`),
  although the protocol document says to stop when an infrastructure/algorithm
  distinction cannot be proved.
* `SequencePair`: a failure of the revalidation after the commit is reported as a
  failed run although the artifact is published (`run_sequence_pair.py:689-720`).
* `TimingCampaign`: the affinity audit binds only the process id; a prior-state
  receipt of an earlier campaign with the same content is accepted; trace rows
  name the mode but not the run; a failure inside the creation of the staging
  directory leaves an empty one; an interrupt between `apply()` returning and the
  flag that records it (`run_timing_pair.py:1197-1198`) is left to the guardian.
* `KaistCampaign`: the campaign's own final comparison leaves the adapted bag out
  (`kaist_vio_campaign.py:4582-4586`), only the report compares it
  (`kaist_vio_reports.py:1702`); a library changed between the build manifest's
  validation and the identity record is not noticed; a log cut at a line end is
  accepted; a FAILED result without runtime summaries cannot be reported.

## 5. The proofs

### LongGapRecoveryProofs

For every value of the constants that satisfies `ModeAssumption`,
`ContractAssumption`, `WindowAssumption` and `ClockAssumption` (the parameter
ranges the code enforces, and the clock assumptions written beside them):

* `TypeCorrect`: `Spec => []TypeOK`.  `TypeOK` is not only typing: attempts,
  samples and landmarks stay within their configured limits, in any phase and
  for any order of frames.  It is inductive together with `AttemptsLeft`: a
  reacquisition under way has an attempt left.
* `OutagesAccountedAlways`: `Spec => []OutagesAccounted`.
* `ConsensusIsRecentAlways` and `CommitNeedsConsensusAlways`.  The commit looks
  only at the samples it holds; that these are the outcomes of the last
  consecutive attempts of this outage is a fact about the earlier steps.
  `ConsensusIsRecent` is the invariant that carries it: while reacquiring, the
  history has one entry per attempt, and the samples are its newest entries.
  `NewestAppend` and `NewestIsSubSeq` are the facts about sequences it rests on.
* `RecoveryImplementsContract`: `Spec => ImplementsContract`.  Every step is a
  step of `RecoveryContract` or leaves its variables alone.  The invariant is
  `RecoveringRuns`, recovery is under way only in an initialised estimator that
  has it enabled: without it, a start-up step could move a held estimate.  The
  assumption that a consensus takes more than one frame is what keeps an outage
  from being noticed and resolved in one step.
* `StateTimeMonotoneAlways`: state time never runs backwards if zero-velocity
  updates are off *or* frames come in order.  The hypothesis is needed:
  `try_update` is the one path that does not compare times.  The invariant
  `Clocked` relates the state's time to the last frame's.

* `NewMapIsFreshAlways`, under the same hypothesis.  `NewMapIsFresh` speaks of the
  map and its age; `MapAge` adds what start-up and a commit leave behind, and
  `Clocked` is needed because an old frame would bring an old clone.
* `ImuHistoryKeptAlways` and `PropagationHasImuAlways`, with the additional
  hypothesis `PromptFirstFrame` (see section 4 for what happens without it).  That
  *some* reading is early enough is not inductive: the history has to be one
  unbroken stretch of the stream (`Dense`), or pruning to a time could skip past
  the reading before it.  `CleanKeepsDense` and `CleanKeepsReading` are the facts
  about `clean_old_imu_measurements`.

`StepKinds`, `MapKinds` and `HistoryKinds` reduce the actions to the few things a
step can do to the recovery variables, to the map and to the history; the
invariants that concern only those are proved from them.

### HostProofs

For every profile (`ControlAssumption`, `SwitchAssumption`, `HelperAssumption`), any
number of threads (`PlacementAssumption`), any number of timing pairs
(`TimingAssumption`) and every number of faults, signals and kills:

* `TypeCorrect` and `OneWorkerAlways`: of transaction, guardian and manual recovery
  at most one changes the host.  `Alive` says in which phase of the transaction each
  of the others can be at work.
* `TransactionIsSafe`: `TransactionHolds`, if a signal is handled between two
  commands (`Settle`); the run `host_signal` shows why that is needed.  The
  invariant `Covered` follows the order of the code: the journal exists before
  anything is changed, a command is under way only in `apply`, and nothing is
  changed from the verification on.
* `JournalAlways`: `JournalHolds` of the privileged helper.  `Prepared` says that
  the host is changed only under a journal and, in a session, only after the
  session noted that it may be; `NotMutable` that a host the session does not count
  as changed, or whose journal is being completed, is at its prior state.
  `HelperGoesOn`, `HelperGone` and `RaisedGoes` reduce the twenty-nine actions to a
  few kinds of step.  The restoration's own bookkeeping (positions, errors, which
  handler is active) is not needed: whatever failed, the claim is only made after
  the host was read back.
* `PartitionAlways`: `PartitionHolds` of the placement.  Two equal captures in a row
  are not what makes it true (they may both miss a thread): `CaptureIsEnough` says
  that a thread created after the listing starts where a listed one is, so if all
  listed ones are inside all are.  `Accepted` and `Removed` carry that through the
  guardian's looks and the validation, as `InItsCapture` lets nobody move threads
  meanwhile.
* `VerifierAlways`: `VerifierIsExact` of the helper's archive.  The verifier sees files
  only, the session writes them over some twenty steps that may each fail; the
  invariant is what they have in common meanwhile.  `Transcript` ties the length of the
  transcript to the stage, and its last event to the state; `Events` says of each event
  that it is this session's, at its place in the frozen order, and agrees with the
  evidence as it is *now*, so rows must not change once an event speaks of them
  (`GuardRows`: a sealed guardian is stopped) and phases not once they are sealed
  (`ControlRows`).  `LeftPasses` is the theorem about `_seal_terminal_receipt`: from these,
  whatever the receipt claims is what the verifier recomputes, also for a session that
  failed half-way (`OrderHolds`, `FailClosedPasses`).  That a success cannot be put
  together from the files of several sessions rests on `Numbered`.  The hypothesis of the
  property, no counter of an observation ran backwards, is needed: the session does not
  compare counters, the verifier does.
* `MeasuredAlways` and `FailureAlways`: `MeasuredIsHeld`, `FailureIsClean` of the timing
  campaign.  `JoinsAreEnough` says that evidence which passes every join of
  `VerifyStaging` is of this campaign and of the right runs; `TimingInv` carries that
  from the sealing to the destination name (`ArtifactProgress`, `NameProgress`), and that
  a control which drifted during a measurement is seen before anything is made
  (`TaintIsSeen`, `HostIsBack`).
* `PlanAlways` and `MedianAlways`: the parts of `DecisionsAreExact` about profiles and
  about the median, for every profile and all ratios.

### CrossDatasetProofs

For every matrix of rows and any number of campaign processes, faults, removals
and edits (`MatrixAssumption`, `BoundAssumption`):

* `TypeCorrect`.  Each campaign process keeps its row and its step in the row's
  plan; `RowPlanShape` says what a plan is.
* `BoundaryAlways` and `FinishedAlways`.  A campaign infers that everything before
  its place in the plan is closed, although other processes make, adopt and remove
  the same results.  `BoundaryInv` states what a place stands for; it rests on
  `SealOwned` (what a program seals is what it claimed), on `WaitsForUnskipped` (a
  campaign does not wait for what it skips) and on `WholeKinds`.
* `ReportAlways`.  `AggHolds` carries what the aggregator established about the
  cells over to the moment at which it compares the derived results.

`JobKinds`, `CampKinds`, `ArtKinds` and `RestKinds` reduce the actions to what they
do to one program, one campaign, one result or the rest.

### RecordedCampaignProofs

For any number of campaigns, recordings, edits, exceptions and kills, and any depth
of the output parent (`BoundAssumption`):

* `TypeCorrect`, which includes that a rollback never takes away more components
  of the output parent than exist, and that a comparison is pending only where its
  failure is handled (`Pending`).  This part found a flaw of an earlier version of
  the model, in which a killed parent and a dead worker could still compare.
* `CommittedAlways`: `CommittedIsTrue`.  The invariant splits the campaigns into
  those that are over (`Others`) and the present one (`Present`): before the
  verifier is asked there is no verdict and no final name (`EarlyInv`); after a
  pass nobody is left who could write (`VerdictInv`), which holds because the
  supervisor forwards a result only of a worker that is gone; the directory is
  sealed and unmarked until the campaign fails (`IntactInv`); and the outcome says
  what the directory shows (`OutcomeInv`).
* `ImmutableAlways`: `CommittedIsImmutable`, from the same invariant: whoever
  could still write is gone, and every step of the parent that writes is at a place
  where nothing is committed.

`StepKinds` reduces 70 actions to four kinds: an exception, a step that leaves the
directory alone, a step beside the parent, and seventeen that matter.

### SequencePairProofs

For any inventory, any contents of the bags and ground truths, and any number of
runs, faults and changes (`InventoryAssumption`, `BoundAssumption`):

* `PublishedAlways`: `PublishedIsOneExperiment`.  `Progress` says what the evidence is
  at each step of the transaction, and where each fact comes from: a held bag is the
  one that was bound (`Inputs`, from inode identities that only grow), a trace is the
  run's own (`Traces`), the comparison is of these traces (`Comparison`).  That both
  runs used the executable of the commit is not established when they run, since it
  may be replaced between them; it follows at the end, when the executable is hashed
  again, because no replacement brings earlier bytes back (`Since`, `SameExecutable`).
  This is how the model's world behaves (`WriteExecutable`), not something the code
  enforces: it knows the executable by its hash alone, and bytes exchanged for one
  run and put back would pass.  `AssemblesGenuine` turns this into the property at the moment of
  assembly, and `Snapshot` carries it over a directory that is written to until the
  last comparison of the tree.  `Accepted` adds that a member of an accepted set is
  no directory a transaction still works in.
* `ReportAlways`: `ReportIsTrue`.  `Names` relates name, durable name, failure record
  and report of every run, and says what they are at each place of the transaction.

`GatheringKeeps`, `Refusal`, `Ends`, `Writes` and `Beside` are the kinds of steps: one
that gathers evidence, one that refuses, one that ends the transaction, one that
writes in its directory, and one of somebody else.

### UnitReportProofs

For any number of runs, edits and faults and any compile and link commands
(`BoundAssumption`, `CommandAssumption`):

* `TypeCorrect`.
* `PublishedAlways`: `PublishedIsOneRun`.  `EvidenceIsAbout` shows what the collectors
  establish together: no single one binds a file to the commit, but joined through
  archive, workspace and inventory they bind all except the self-test and the link
  commands (`StrictIsNotRelaxed` is the part about "the last option wins").
  `Finals` carries that from the verification of the frozen directory on,
  through rename, interruption and reconciliation.  Evidence refers to the records of
  runs, which a running gate changes; `Origins`, a file of the latest run is in no
  other directory, is why this cannot change what a frozen directory says
  (`Sustains`).  That the files are those of the run's manifest comes from the anchor:
  `Written` says that the gate holds it from the manifest on and that it is not empty.
  The property used to say that the workspace of a published directory is the run's
  own.  The proof showed that this held only for few misplaced files: if every evidence
  file is exchanged before the report is assembled, a consistent report about the
  other run is made and published.  It is still about one commit and one build, and
  that is what the property now says.
* `SaidAlways`: `SaidIsDurable`.  `Named` relates the two names of the directory at each
  place of the gate; `EndKeeps` is the one step in which all ways to end (success, exit
  trap, later reconciliation, kill, power loss) agree.

### EstimatorProofs

For any number of image streams, frames, readings, exceptions, updates and commits,
and a camera offset of either sign (`CameraAssumption`, `OdometryAssumption`,
`TickAssumption`):

* `NoFrameLostAlways`.  That nothing is lost is inductive only with `Queued`, the queue
  holds each frame once: otherwise the frame popped could leave a twin behind.  A frame
  is new when it is queued because it is younger than everything its stream has had
  accepted (`FreshFrames`), and the head stays the head while the estimator works on it
  because lock and flag say where the thread is (`Held`).  `SortFacts` is about
  `std::sort`: the same frames, each as often, in order.
* `FedInOrderAlways`.  The order is that of `Queued`; that a reading past the frame has
  arrived is `Joined`: the serial runner waits, so the reading the thread was started
  with is still the newest when the thread looks at it.
* `CloneOfCurrentStateAlways`.  A valid cache is a copy of the State until an EKF update
  has begun to correct it, and is invalid from the first updater a frame leaves to the
  next copy (`Cached`).  That is why `delayed_init` may correct the state without
  invalidating anything: the MSCKF stage before it always has.  `Whole` says what the
  State is in the middle of a correction, `Copied` what the callback has copied so far.
* `SelectsExactlyAlways`.  The loop is a state machine, so what it computes for every
  history is an invariant of its steps.  `Scanned`: nothing is selected until a
  reading past `time0` is seen, and from then on the last one selected is the reading
  before the one at hand, or `time0`.  `Gathered` is what the loop leaves for the
  extrapolation, `Spanned` what the removal of repeated times keeps.

The layout of the state, for every window size, block size, set of features and
landmark limit:

* `AnchorsAliveAlways`.  `AnchorsAlive` alone is not inductive.  `Window` adds
  that clones are no newer than the state and that during a frame its own clone
  is in the window; `AnchorsMoved`, that after `change_anchors` an overfull
  window's oldest clone anchors nothing.  An overfull window has more than one
  clone, so its oldest is not the one anchors are moved to
  (`OldestIsNotNewest`).
* `CovarianceAlignedAlways`.  `Layout` strengthens `CovarianceAligned` by the
  order of *all* pairs of blocks, not only neighbours (`marginalize` compares
  ids with the removed block's), and by the IMU being the first.  `InsertLayout`
  and `MarginalizeLayout` show that the two operations that change the
  covariance keep it; `RowsCut` and `MarginalizeMoves` say what a removal does to
  rows and blocks.
* `MapsAgreeAlways`: an insertion adds exactly one new name (a clone later than
  the state's time, a feature that is no landmark yet) and a marginalisation
  removes exactly one.

### CampaignsProofs

For any requests to a trial and any arguments of the KAIST campaign, any number of
exceptions, interrupts, kills and edits (`TrialAssumption`, `KaistAssumption`: the
adapters and systems that exist, and rows of a trajectory that are in order):

* `RetainedAlways`: `RetainedIsTrue`.  The runner learns of the estimator's defects stage
  by stage and classifies at the end; the campaign then looks at what was published and
  at the files as they are by then.  `TrialInv` says what has been told at each stage:
  the launch (`LaunchTold`), the console (`ConsoleTold`), the outputs (`OutputsTold`),
  the capture (`CaptureTold`), the processes that are left (`LeftAlive`), that inputs are
  the pinned ones unless a change is noticed (`InputsPinned`), and that the status is
  what these facts give (`Classified`).  `StatusMeans`, `EligibleMeans` and `FailureMeans`
  are the facts about the classification.  The model allows an estimator two defects;
  the proof does not use that.  It showed a defect of the model: two guards of a `CASE`
  overlapped where the code has `if` and `elif`, which TLC resolved in the code's order
  and the language leaves open.
* `ReportedAlways`: `ReportedIsFrozen`.  `KaistInv` follows the stages of `run_campaign`:
  from which stage on an input is known to be the frozen one (`InputsIdentified`), that
  what is read is what was identified (`InputsRead`), the same for what the run writes
  (`OutputsIdentified`, `OutputsRead`), and when the log is archived (`LogArchived`).
  `Past` names the stages a fact holds from.  No comparison in the middle is enough, as
  a file can change after it; what the report compares again makes the claim true.
* `AssociationAlways`: `AssociationIsExact`.  `BisectIsBoundary` says what the bisection
  returns, `NearestIsAround` that the nearest row is one of the two around it, and
  `UniqueNearestIsExact` what a tie does.  These are facts about ordered sequences and
  need no induction, as the bisection is defined by its result.

### Only model-checked

* Liveness, which needs fairness: `OutageResolves`, `QueueDrains`,
  `CrashIsRepaired`, `RecoveryRestores`, `CampaignEnds`.
* `PopulationsAreExact`: what the recursive functions of `SequenceMath` compute for
  every input takes induction over data.
* `TraceIsTheStory` and the part of `DecisionsAreExact` about the decision on a pair:
  both rest on sorting, of which the provers have no definition to reason with.
* `AcceptedIsOneRun`: it is not a theorem.  The validator of the telemetry log has no
  digest to compare with, so a log with enough consistent damages is a log of another
  run; the property is that no single damage, and no two where every section is
  present, go unnoticed.

All are checked on the bounds of section 4.

## 6. Not modelled

* Linear algebra, image processing and optimisation (EKF arithmetic, Schur
  complement, PnP, KLT, Ceres), trajectory alignment, percentiles of errors: their
  outcomes are nondeterministic, or agree or not, where control depends on them.
* Byte formats: codecs, canonical encodings, capsules, schemas, offline replay.
  The modules speak of what a decoded file says and of its identity.
* The ROS 2 visualizer, which repeats the ROS 1 callbacks, the simulator and all
  publishing.
* Memory corruption by unlocked containers (`camera_last_timestamp`, `imu_data` in
  the clean-up) and the initialisation thread's interleaving.
* `rotation_robustness_trial.py` beyond its recovery gate, `kaist_pair_evaluator.py`,
  `kaist_geometry_bundle.py`, `kaist_upstream_screen.py` and
  `event_ready_corpus.py`: earlier or parallel versions of what `TrialRunner` and
  `CrossDataset` model, and statistics over finished results.
* The CP0 and CP1 scripts: single runs kept for the record.
* Within modelled parts: cooldown between cells, registry look-ups, parsing of
  kernel files, the wording of logs and errors, disk space and size limits.
