---------------------------- MODULE TrialRunner ----------------------------
\* One trial of the cross-dataset campaign: cross_dataset_trial.py (EuRoC, TUM-VI)
\* and cross_dataset_kaist_trial.py run one estimator on one bag, classify what
\* came out and publish the result; cross_dataset_campaign.py decides later whether
\* the result is retained.
\*
\* What the estimator did is a set of defects; the runner learns of them from the
\* console, the tables and the process group, one stage at a time, and may be
\* interrupted, fail or be killed at any of them.
EXTENDS Naturals, FiniteSets

CONSTANTS Requests,    \* the trials: [adapter, system, mode]; adapter "rotation" is
                       \* the KAIST sequence with the gap the recovery is for
          MaxFaults,   \* exceptions, interrupts, kills, processes that will not die
          MaxChanges   \* inputs or scored files that change

VARIABLES req, pc, run,
          inputs,   \* content of the inputs: 0 is what the matrix pins
          scored,   \* content of the linked scored run: 0 is what it published
          truth,    \* what really happened: [ran, on, defects]
          alive,    \* processes of the trial
          result,   \* the published result, NoRun if there is none
          sums,     \* its checksums are there
          verdict,  \* the campaign's classification
          faults, changes

vars == <<req, pc, run, inputs, scored, truth, alive, result, sums, verdict, faults, changes>>
world == <<inputs, scored, changes>>
disk == <<result, sums, verdict>>

Inputs == {"config", "launch", "matrix", "binary", "bag"}
Pinned == [i \in Inputs |-> 0]

Defects == {"missing", "empty", "invalid",      \* the state file
            "tables", "nonfinite", "decode", "gap", "tail",
            "failed", "abort", "unproven",      \* how the required child ended
            "unstarted", "recovery",
            "noTerminal", "noEarly", "miscount", \* the console summaries of KAIST
            "active", "differs",                \* the recorded bag, the bytes
            "hang", "stuck"}

NoRun == [before |-> [i \in Inputs |-> 9], unchanged |-> "none", contract |-> FALSE,
          launch |-> "none", survived |-> FALSE, teardown |-> TRUE, managed |-> {},
          numeric |-> TRUE, decoded |-> TRUE, state |-> "missing", outputs |-> FALSE,
          continuity |-> FALSE, tail |-> FALSE, exits |-> {}, early |-> FALSE,
          terminal |-> FALSE, child |-> "unproven", captured |-> FALSE, linked |-> FALSE,
          link |-> [before |-> 9, after |-> 9, exact |-> FALSE], attempted |-> FALSE,
          closed |-> FALSE, mechanism |-> FALSE, status |-> "ACTIVE", evidence |-> "none"]

Capture == req.mode = "capture"
Kaist == req.adapter \in {"kaist", "rotation"}
KaistS1 == Kaist /\ req.system = "S1"

Init ==
    /\ req \in Requests /\ pc = "preflight"
    /\ run = [NoRun EXCEPT !.captured = ~Capture, !.linked = ~Capture]
    /\ inputs = Pinned /\ scored = 0
    /\ truth = [ran |-> FALSE, on |-> inputs, defects |-> {}] /\ alive = {}
    /\ result = NoRun /\ sums = FALSE /\ verdict = "none"
    /\ faults = 0 /\ changes = 0

Works == UNCHANGED faults
Fails == faults < MaxFaults /\ faults' = faults + 1

-----------------------------------------------------------------------------
\* The surroundings

Change ==
    /\ changes < MaxChanges /\ changes' = changes + 1
    /\ \/ \E i \in DOMAIN inputs : inputs' = [inputs EXCEPT ![i] = 1] /\ UNCHANGED scored
       \/ Capture /\ scored' = 1 /\ UNCHANGED inputs
    /\ UNCHANGED <<req, pc, run, truth, alive, disk, faults>>

-----------------------------------------------------------------------------
\* Before the estimator

\* validate_canonical_paths_and_hashes, validate_config_contract,
\* validate_launch_contract: the files are the pinned ones and say what they must.
CanonicalPaths == inputs.config = 0 /\ inputs.launch = 0
ConfigContract == inputs.config = 0
LaunchContract == inputs.launch = 0

\* validate_campaign_bindings: the matrix has one row for this request.
CampaignBindings == inputs.matrix = 0

\* Everything but the bag is identified, then checked.
Preflight ==
    /\ pc = "preflight"
    /\ CanonicalPaths /\ CampaignBindings /\ LaunchContract /\ ConfigContract
    /\ run' = [run EXCEPT !.before = [inputs EXCEPT !.bag = 9]] /\ pc' = "census"
    /\ UNCHANGED <<req, world, truth, alive, disk, faults>>

\* validate_matrix_bag_identity.
MatrixBag == inputs.bag = 0

\* The pair census reads the whole bag and identifies it against the matrix.
Census ==
    /\ pc = "census" /\ MatrixBag
    /\ run' = [run EXCEPT !.before.bag = inputs.bag] /\ pc' = "parameters"
    /\ UNCHANGED <<req, world, truth, alive, disk, faults>>

\* validate_resolved_parameters: what roslaunch makes of the launch file as it is
\* now names these files, and no ground truth.
ResolvedParameters == inputs.launch = 0

Parameters ==
    /\ pc = "parameters" /\ ResolvedParameters /\ pc' = "identity"
    /\ UNCHANGED <<req, run, world, truth, alive, disk, faults>>

\* resolve_runtime_identity: binary, libraries and worktree are the system's.
RuntimeIdentity == inputs.binary = 0

Identity ==
    /\ pc = "identity" /\ RuntimeIdentity /\ pc' = IF Capture THEN "linkage" ELSE "services"
    /\ run' = [run EXCEPT !.contract = ~Capture]
    /\ UNCHANGED <<req, world, truth, alive, disk, faults>>

\* load_scored_linkage: every file of the scored run is what its result says.
LinkScored ==
    /\ pc = "linkage" /\ scored = 0
    /\ run' = [run EXCEPT !.link.before = scored, !.contract = TRUE] /\ pc' = "services"
    /\ UNCHANGED <<req, world, truth, alive, disk, faults>>

Services == IF Capture THEN {"roscore", "recorder"} ELSE {"roscore"}

StartServices ==
    /\ pc = "services" /\ alive' = alive \cup Services
    /\ run' = [run EXCEPT !.managed = Services] /\ pc' = "estimator"
    /\ UNCHANGED <<req, world, truth, disk, faults>>

\* A stage raises: a check that does not hold, a command that fails.  Services
\* that do not come up are finished where they were started.
Raises ==
    /\ \/ pc = "preflight" /\ ~(CanonicalPaths /\ CampaignBindings) /\ Works
       \/ pc = "census" /\ ~MatrixBag /\ Works
       \/ pc = "parameters" /\ ~ResolvedParameters /\ Works
       \/ pc = "identity" /\ ~RuntimeIdentity /\ Works
       \/ pc = "linkage" /\ scored # 0 /\ Works
       \/ pc \in {"preflight", "census", "parameters", "identity", "linkage", "services",
                  "estimator", "close", "console", "outputs", "capture", "postflight"} /\ Fails
    /\ run' = [run EXCEPT !.contract = FALSE] /\ pc' = "finish"
    /\ UNCHANGED <<req, world, truth, alive, disk>>

\* A keyboard interrupt outside run_command.  Between the start of a service and
\* its entry in the list of managed processes it leaves the service running.
Interrupted ==
    /\ pc \in {"preflight", "census", "parameters", "identity", "linkage", "services",
               "close", "console", "outputs", "capture", "postflight"} /\ Fails
    /\ run' = [run EXCEPT !.contract = IF Kaist THEN FALSE ELSE @,
                          !.launch = IF @ = "none" THEN "interrupted" ELSE @]
    /\ alive' \in {alive} \cup (IF pc = "services" THEN {{s} : s \in Services} ELSE {})
    /\ pc' = "finish" /\ UNCHANGED <<req, world, truth, disk>>

-----------------------------------------------------------------------------
\* The estimator

\* At most two at a time.
DefectSets == {{}} \cup {{a, b} : a, b \in Defects}

\* Defects that exclude each other, and those only some systems can have.
Possible(d) ==
    /\ Cardinality(d \cap {"missing", "empty", "invalid"}) <= 1
    /\ Cardinality(d \cap {"failed", "abort", "unproven", "unstarted"}) <= 1
    /\ "abort" \in d => req.system = "U0"
    /\ d \cap {"noTerminal", "noEarly", "miscount", "unproven"} # {} => KaistS1
    /\ d \cap {"active", "differs"} # {} => Capture

\* run_command: waits, and cleans the process group up after a timeout, an
\* interrupt or an exit that leaves members of the group behind.
RunCommand(d) ==
    /\ \/ Works /\ run' = [run EXCEPT !.launch = IF "hang" \in d THEN "timedOut" ELSE "ended",
                                      !.survived = "stuck" \in d]
       \/ Fails /\ run' = [run EXCEPT !.launch = "interrupted", !.survived = "stuck" \in d]
    /\ alive' = alive \cup (IF "stuck" \in d THEN {"estimator"} ELSE {})

Estimator ==
    /\ pc = "estimator" /\ pc' = "close"
    /\ \E d \in DefectSets : /\ Possible(d) /\ RunCommand(d)
                                 /\ truth' = [ran |-> TRUE, on |-> inputs, defects |-> d]
    /\ UNCHANGED <<req, world, disk>>

\* finish_managed_process: interrupt, terminate, kill; one may survive.
FinishManaged(next) ==
    /\ pc' = next
    /\ \/ /\ Works /\ alive' = alive \ run.managed
          /\ run' = [run EXCEPT !.managed = {}]
       \/ /\ Fails /\ \E s \in run.managed : alive' = alive \ (run.managed \ {s})
          /\ run' = [run EXCEPT !.managed = {}, !.teardown = FALSE]

CloseServices ==
    /\ pc = "close" /\ FinishManaged("console") /\ UNCHANGED <<req, world, truth, disk>>

-----------------------------------------------------------------------------
\* What the console and the files say

Had(x) == x \in truth.defects

\* parse_roslaunch_child_deaths: how the required child ended.
Child == IF Had("failed") \/ Had("abort") THEN "failed"
         ELSE IF Had("unproven") \/ Had("unstarted") \/ Had("hang") THEN "unproven"
         ELSE "clean"

\* parse_console.
ChildExits == (IF Had("failed") THEN {1} ELSE {}) \cup (IF Had("abort") THEN {6} ELSE {})

\* _recovery_evidence: in a KAIST trial a transcript that does not hold is recorded,
\* in the others, where recovery is off, an event breaks the contract.
RecoveryOff == ~Kaist => ~Had("recovery")
Mechanism == Kaist /\ ~Had("recovery")

\* assess_s1_pairing_runtime: each summary there is must match the census.
Early == ~Had("noEarly") /\ ~Had("unstarted")
Terminal == Early /\ ~Had("noTerminal")
PairingHolds == KaistS1 => ~Had("miscount")

Console ==
    /\ pc = "console" /\ pc' = "outputs"
    /\ run' = [run EXCEPT !.contract = @ /\ ~Had("unstarted") /\ RecoveryOff /\ PairingHolds,
                          !.mechanism = Mechanism,
                          !.numeric = ~Had("nonfinite"), !.decoded = ~Had("decode"),
                          !.exits = ChildExits, !.child = Child,
                          !.early = KaistS1 /\ Early, !.terminal = KaistS1 /\ Terminal]
    /\ UNCHANGED <<req, world, truth, alive, disk, faults>>

\* validate_numeric_table of the state file.
StateKind == IF Had("missing") \/ Had("unstarted") \/ Had("noEarly") THEN "missing"
             ELSE IF Had("empty") THEN "empty"
             ELSE IF Had("invalid") THEN "invalid"
             ELSE "valid"

\* assess_output_coverage: gaps that the input does not explain, and the tail;
\* an image that was not decoded spoils the first.  The gap of the rotation
\* sequence is explained by a recovery that is proven (assess_kaist_output_coverage).
Continuity == StateKind = "valid" /\ ~Had("gap") /\ ~Had("decode")
RecoveredGap(r) == req.adapter = "rotation" /\ req.system = "S1" => r.mechanism
Tail == StateKind = "valid" /\ ~Had("tail")

Outputs ==
    /\ pc = "outputs" /\ pc' = IF Capture THEN "capture" ELSE "postflight"
    /\ run' = [run EXCEPT !.state = StateKind, !.outputs = StateKind = "valid" /\ ~Had("tables"),
                          !.continuity = Continuity /\ RecoveredGap(run), !.tail = Tail]
    /\ UNCHANGED <<req, world, truth, alive, disk, faults>>

\* The bag of the recorder is closed; assess_capture_linkage compares the bytes
\* with the scored files as they are now, and those with what they were.
CaptureCheck ==
    /\ pc = "capture" /\ pc' = "postflight"
    /\ LET exact == scored = IF Had("differs") THEN 2 ELSE 0 IN
       run' = [run EXCEPT !.captured = ~Had("active"),
                          !.link.after = scored, !.link.exact = exact,
                          !.linked = exact /\ scored = run.link.before]
    /\ UNCHANGED <<req, world, truth, alive, disk, faults>>

\* Mutant: the bag, which is large, is not identified a second time.
PostflightOfTools ==
    /\ pc = "postflight" /\ pc' = "finish"
    /\ LET same == \A i \in Inputs \ {"bag"} : run.before[i] = inputs[i] IN
       run' = [run EXCEPT !.unchanged = IF same THEN "yes" ELSE "no", !.contract = @ /\ same]
    /\ UNCHANGED <<req, world, truth, alive, disk, faults>>

Postflight ==
    /\ pc = "postflight" /\ pc' = "finish"
    /\ LET same == run.before = inputs IN
       run' = [run EXCEPT !.unchanged = IF same THEN "yes" ELSE "no", !.contract = @ /\ same]
    /\ UNCHANGED <<req, world, truth, alive, disk, faults>>

-----------------------------------------------------------------------------
\* The verdict of the runner

\* What the finally clause finds to be managed is finished again.
FinishTrial ==
    /\ pc = "finish" /\ FinishManaged("classify") /\ UNCHANGED <<req, world, truth, disk>>

Abnormal(r) == r.launch # "none" /\ (r.exits # {} \/ (Kaist /\ r.child = "failed"))
TeardownOk(r) == r.teardown /\ ~r.survived
ExactU0Teardown(r) ==
    req.system = "U0" /\ r.exits = {6} /\ r.continuity /\ r.tail /\ r.state = "valid"

\* _s1_post_selector_evidence_observed.
PostSelector(r) ==
    r.early \/ r.state \notin {"missing", "empty"} \/ ~r.numeric \/ ~r.decoded

\* finalize_s1_pairing_runtime_contract: which summaries may be absent when.
PairingContract(r) ==
    /\ r.contract
    /\ IF r.launch \in {"timedOut", "interrupted"} THEN TRUE
       ELSE IF r.terminal THEN r.early /\ r.child \in {"clean", "failed"}
       ELSE IF r.early THEN ~r.survived /\ r.child = "failed"
       ELSE /\ r.launch # "none" /\ ~r.survived /\ r.child = "failed"
            /\ r.state \in {"missing", "empty"} /\ ~PostSelector(r)

\* classify_outcome: the first of the returns whose condition holds.
ClassifyOutcome(r) ==
    IF r.launch = "interrupted" THEN "INTERRUPTED"
    ELSE IF r.launch = "timedOut" THEN "TIMED_OUT"
    ELSE IF ~TeardownOk(r) THEN "TEARDOWN_FAILED"
    ELSE IF ~r.contract THEN "INFRASTRUCTURE_FAILED"
    ELSE IF ~r.numeric THEN "NUMERIC_FAILURE"
    ELSE IF r.state \in {"missing", "empty"} THEN IF Abnormal(r) THEN "ESTIMATOR_CRASH" ELSE "NO_INITIALIZATION"
    ELSE IF r.state = "invalid" THEN "INVALID_OUTPUT"
    ELSE IF ~r.outputs THEN IF Abnormal(r) THEN "PARTIAL" ELSE "INVALID_OUTPUT"
    ELSE IF ~r.decoded \/ ~r.continuity THEN "TRACKING_LOSS"
    ELSE IF ~r.tail \/ (Abnormal(r) /\ ~ExactU0Teardown(r)) THEN "PARTIAL"
    ELSE IF ~r.captured THEN "CAPTURE_INCOMPLETE"
    ELSE IF ~r.linked THEN "INVALID_LINKAGE"
    ELSE IF ExactU0Teardown(r) THEN "COMPLETED_WITH_TEARDOWN_DEFECT"
    ELSE "COMPLETED"

\* classify_evidence_validity.
EvidenceValidity(r) ==
    IF ~r.linked THEN "CAPTURE_LINK_INVALID"
    ELSE IF r.unchanged = "no" THEN "INVALID_PROVENANCE"
    ELSE IF r.unchanged # "yes" \/ ~r.contract \/ ~TeardownOk(r) \/ ~r.captured THEN "INVALID_INFRA"
    ELSE "VALID"

\* The close receipt, the facts, the status.
Classify ==
    /\ pc = "classify" /\ pc' = "publish"
    /\ LET r == [run EXCEPT !.contract = IF KaistS1 /\ run.launch # "none" THEN PairingContract(run) ELSE @]
       IN  run' = [r EXCEPT !.attempted = run.launch # "none",
                            !.closed = run.launch # "none" /\ ~run.survived /\ run.teardown,
                            !.status = ClassifyOutcome(r), !.evidence = EvidenceValidity(r)]
    /\ UNCHANGED <<req, world, truth, alive, disk, faults>>

\* The result and then the checksums, each written once; a link that leads out of
\* the directory, or another exception, ends the trial without them.
Publish ==
    /\ pc = "publish"
    /\ \/ Works /\ result' = run /\ pc' = "seal"
       \/ Fails /\ pc' = "ended" /\ UNCHANGED result
    /\ UNCHANGED <<req, run, world, truth, alive, sums, verdict>>

Seal ==
    /\ pc = "seal" /\ pc' = "ended"
    /\ \/ Works /\ sums' = TRUE
       \/ Fails /\ UNCHANGED sums
    /\ UNCHANGED <<req, run, world, truth, alive, result, verdict>>

\* The runner is killed; its children, in sessions of their own, live on.
Killed ==
    /\ pc # "ended" /\ Fails /\ pc' = "ended"
    /\ alive' \in {alive} \cup (IF pc = "estimator" THEN {alive \cup {"estimator"}} ELSE {})
    /\ UNCHANGED <<req, run, world, truth, disk>>

-----------------------------------------------------------------------------
\* The campaign's validate_sequence_result

Eligible == {"COMPLETED", "COMPLETED_WITH_TEARDOWN_DEFECT"}
Algorithm == Eligible \cup {"NO_INITIALIZATION", "ESTIMATOR_CRASH", "TRACKING_LOSS",
                            "NUMERIC_FAILURE", "PARTIAL", "TIMED_OUT"}

Classification(r) ==
    CASE Capture /\ r.evidence = "CAPTURE_LINK_INVALID" -> "mismatch"
      [] r.status \in Algorithm /\ r.evidence = "VALID" -> "retained"
      [] OTHER -> "fatal"

\* The receipt of the close, and what was checked around it.
CloseReceipt(r) ==
    r.attempted /\ r.closed /\ r.unchanged = "yes" /\ r.contract /\ TeardownOk(r)

\* _validate_kaist_census_evidence.  The status follows from the facts,
StatusIsDerived(r) == r.status = ClassifyOutcome(r)

\* a child that failed makes the launch abnormal,
ChildIsAbnormal(r) == r.child = "failed" => Abnormal(r)

\* a terminal summary comes with the early one and a child that reported its end,
TerminalBinding(r) == r.terminal => r.early /\ (r.launch = "ended" => r.child # "unproven")

\* a missing one with a failed child, and one that is missing altogether with
\* nothing that comes after the selector,
AbsentTerminal(r) ==
    ~r.terminal /\ r.launch = "ended" => r.child = "failed" /\ (~r.early => ~PostSelector(r))

\* and a trial that counts has both, and a clean child.
CleanTerminal(r) ==
    r.status \in Eligible \cup {"NO_INITIALIZATION"} => r.terminal /\ r.child = "clean"

KaistEvidence(r) ==
    KaistS1 => /\ StatusIsDerived(r) /\ ChildIsAbnormal(r) /\ TerminalBinding(r)
               /\ AbsentTerminal(r) /\ CleanTerminal(r)

\* Mutant: the scored files are not compared with what the scored run published.
CaptureLinkageOfBytes(r, mismatch) == mismatch = ~r.link.exact

\* _validate_capture_linkage: the scored run is what it was before and after, and
\* the comparison is repeated; a mismatch must be a proven one.
CaptureLinkage(r, mismatch) ==
    /\ r.link.before = scored /\ r.link.after = scored /\ scored = 0
    /\ r.link.exact = ~Had("differs")
    /\ mismatch = ~r.link.exact

Validate ==
    /\ verdict = "none" /\ result # NoRun
    /\ verdict' =
         LET r == result
             c == Classification(r)
         IN  IF /\ sums /\ (\A i \in Inputs \ {"bag"} : r.before[i] = inputs[i])
                /\ r.status = "INVALID_LINKAGE" => r.evidence = "CAPTURE_LINK_INVALID"
                /\ c # "fatal" => CloseReceipt(r) /\ KaistEvidence(r)
                /\ Capture => /\ r.captured /\ CaptureLinkage(r, c = "mismatch")
             THEN c ELSE "refused"
    /\ UNCHANGED <<req, pc, run, world, truth, alive, result, sums, faults>>

Next ==
    \/ Change \/ Preflight \/ Census \/ Parameters \/ Identity \/ LinkScored \/ StartServices
    \/ Raises \/ Interrupted \/ Estimator \/ CloseServices \/ Console \/ Outputs \/ CaptureCheck
    \/ Postflight \/ FinishTrial \/ Classify \/ Publish \/ Seal \/ Killed \/ Validate

Spec == Init /\ [][Next]_vars

-----------------------------------------------------------------------------

\* The defects a status owns up to.
Owned == [COMPLETED |-> {}, COMPLETED_WITH_TEARDOWN_DEFECT |-> {"abort"}]

\* A result the campaign retains is about an estimator that really ran, on the
\* pinned inputs, and of which nothing is left running; a completed trial had no
\* defect the status does not name, and a status for a failure of the algorithm is
\* only given to one that failed so.  Behind it: run_trial of both runners,
\* whatever stage an interrupt, an exception or a change of the inputs hits, and
\* validate_sequence_result.
RetainedIsTrue ==
    verdict = "retained" =>
        LET st == result.status
            d == truth.defects
        IN  /\ truth.ran /\ truth.on = Pinned /\ alive = {}
            /\ d \cap {"unstarted", "miscount", "stuck", "active", "differs"} = {}
            /\ "recovery" \in d => Kaist /\ ~result.mechanism
            /\ st \in Eligible => d \ {"recovery"} \subseteq Owned[st]
            /\ st \in Eligible /\ req.adapter = "rotation" /\ KaistS1 => result.mechanism
            /\ st = "TIMED_OUT" <=> "hang" \in d
            /\ st \in {"NO_INITIALIZATION", "ESTIMATOR_CRASH"} => d \cap {"missing", "empty", "noEarly"} # {}
            /\ st = "NO_INITIALIZATION" => d \cap {"failed", "abort"} = {}
            /\ st = "ESTIMATOR_CRASH" => d \cap {"failed", "abort"} # {}

\* A capture retained as a mismatch ran beside a scored run that nobody touched and
\* its bytes do differ.  Behind it: classify_evidence_validity gives the mismatch
\* precedence over everything else, and _validate_capture_linkage has to tell the
\* proven one from all other ways a link can be missing.
MismatchIsProven ==
    verdict = "mismatch" =>
        /\ Capture /\ truth.ran /\ "differs" \in truth.defects /\ alive = {}
        /\ truth.on = Pinned
=============================================================================
