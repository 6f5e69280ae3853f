---------------------------- MODULE SequencePair ----------------------------
\* One CP2-D sequence comparison: under a held readiness authorization the same
\* estimator replays one bag twice, in nullspace and in Schur mode, two sealed
\* capsules compare the trajectories, and the evidence is assembled, verified by a
\* detached process and published under its final name; three published
\* sequences form a set.
\*
\* A trace is known by the run and the mode that wrote it; a bag or a ground
\* truth by its content and by the identity of its inode, which every write changes;
\* an executable by the commit it was built from and by which bytes came of that.
EXTENDS SequenceMath

CONSTANTS Indices,     \* positions of the frozen inventory of sequences
          Messages0,   \* contents the first bag may start with
          Truths,      \* contents the first ground truth may start with
          FrozenMessages, FrozenTruth,  \* the contents whose digests are frozen
          Stamps,      \* pose times to compare
          PoseTimes,   \* of each mode: the pose times its runs come up with
          MaxRuns, MaxFaults, MaxChanges

ASSUME InventoryAssumption == 0 \in Indices
ASSUME BoundAssumption == {MaxRuns, MaxFaults, MaxChanges} \subseteq Nat

VARIABLES repo, unit,  \* current commit; commit the unit artifact was made for
          bag, truth,  \* of each sequence: [content, id]
          tx,          \* the running transaction
          art, sums,   \* of each run: its evidence, and what its manifest lists
          at, disk,    \* name of each run's directory, and the one a power loss leaves
          mark,        \* failure.json is in the directory
          said,        \* what the runner reported of each run
          sets,        \* sets of artifacts verify_sequence_set accepted
          faults, changes

vars == <<repo, unit, bag, truth, tx, art, sums, at, disk, mark, said, sets, faults, changes>>
world == <<repo, unit, bag, truth>>
store == <<art, sums, at, disk, mark>>

Runs == 1..MaxRuns
Modes == {"nullspace", "schur"}
Flaws == {"callbacks", "trajectory", "coverage", "parameters", "loader"}
WorkerFlaws == {"environment", "imports", "loader", "threads"}
ResultFlaws == {"members", "array", "statistics", "console", "rmse"}

NoExe == <<0, 0>>
NoTrace == [by |-> 0, mode |-> "none", exe |-> NoExe, msgs |-> <<>>, stamps |-> <<>>,
            commit |-> 0, flaw |-> "none"]
NoRequest == [nullspace |-> NoTrace, schur |-> NoTrace, truth |-> <<>>]
NoResponse == [request |-> NoRequest, unit |-> 0, assoc |-> <<>>, close |-> FALSE, env |-> "none"]
NoArchive == [response |-> NoResponse, mode |-> "none", flaw |-> "none"]
Nothing == [seq |-> 0, commit |-> 0, unit |-> 0, bag |-> <<>>, bagAfter |-> <<>>,
            truth |-> <<>>, exe |-> NoExe, exeAfter |-> NoExe, witness |-> <<>>, pairs |-> <<>>,
            cmds |-> <<>>, trace |-> [m \in Modes |-> NoTrace], exeOf |-> [m \in Modes |-> NoExe],
            request |-> NoRequest, response |-> NoResponse,
            archive |-> [m \in Modes |-> NoArchive]]
Idle == [pc |-> "idle", r |-> 0, bagId |-> 0, truthId |-> 0, exe |-> NoExe, sink |-> "held",
         shot |-> Nothing, ev |-> Nothing]

Init ==
    /\ repo = 1 /\ unit = 1
    \* with other contents than the frozen ones nothing else goes wrong
    /\ \E ms \in Messages0, gt \in Truths :
          /\ ms = FrozenMessages \/ gt = FrozenTruth
          /\ faults = IF ms = FrozenMessages /\ gt = FrozenTruth THEN 0 ELSE MaxFaults
          /\ changes = IF ms = FrozenMessages /\ gt = FrozenTruth THEN 0 ELSE MaxChanges
          /\ bag = [s \in Indices |-> [content |-> IF s = 0 THEN ms ELSE FrozenMessages, id |-> 0]]
          /\ truth = [s \in Indices |-> [content |-> IF s = 0 THEN gt ELSE FrozenTruth, id |-> 0]]
    /\ tx = Idle /\ art = [r \in Runs |-> Nothing] /\ sums = [r \in Runs |-> Nothing]
    /\ at = [r \in Runs |-> "none"] /\ disk = [r \in Runs |-> "none"]
    /\ mark = [r \in Runs |-> FALSE] /\ said = [r \in Runs |-> "none"]
    /\ sets = {}

Fails == faults < MaxFaults /\ faults' = faults + 1
Works == UNCHANGED faults
Changes == changes < MaxChanges /\ changes' = changes + 1
Ev == tx.ev
Running == tx.pc # "idle"
Step(pc, next) == tx.pc = pc /\ tx' = [tx EXCEPT !.pc = next]
Records(pc, next, ev) == tx.pc = pc /\ tx' = [tx EXCEPT !.pc = next, !.ev = ev]
Command(ev, phase, mode) == [ev EXCEPT !.cmds = Append(@, <<phase, mode>>)]

\* _retain_failure: whatever fails leaves failure.json in the hidden directory, if
\* it can still be written; a directory that is not there is left alone.
RetainFailure ==
    /\ tx' = Idle /\ said' = [said EXCEPT ![tx.r] = "failed"]
    /\ \/ mark' = [mark EXCEPT ![tx.r] = at[tx.r] = "hidden"] /\ Works
       \/ UNCHANGED mark /\ Fails
    /\ UNCHANGED <<art, sums, at, disk>>

Refuse == RetainFailure
Goes == UNCHANGED <<store, said, faults>>
Outside == UNCHANGED <<world, sets, changes>>

-----------------------------------------------------------------------------
\* Authorization and inputs

\* revalidate of the held authorization, before and after every command: the
\* repository and the frozen unit artifact are those of the barrier.
Authorized == repo = Ev.commit /\ unit = Ev.unit

\* _actual: the readiness module is compiled from the bytes that matched its
\* anchor, and read again after the barrier and after the transaction.
Barrier == unit = repo

\* run_authorized_sequence, the head of execute_authorized_sequence: one requested
\* sequence of the inventory, a free final name, a new hidden directory.
Start(r, s) ==
    /\ ~Running /\ at[r] = "none" /\ \A q \in 1..r - 1 : at[q] # "none"
    /\ Barrier
    /\ tx' = [Idle EXCEPT !.pc = "bind", !.r = r,
                          !.ev = [Nothing EXCEPT !.seq = s, !.commit = repo, !.unit = unit]]
    /\ at' = [at EXCEPT ![r] = "hidden"] /\ disk' = [disk EXCEPT ![r] = "hidden"]
    /\ UNCHANGED <<art, sums, mark, said, faults>> /\ Outside

\* parse_ground_truth_tum_bytes, _ground_truth: nonempty, times not decreasing.
GroundTruth(gt) == gt # <<>> /\ Chronological(gt)

\* The bag and the ground truth are bound by inode and have their frozen digests.
BindInputs ==
    LET s == Ev.seq
    IN  /\ tx.pc = "bind"
        /\ \/ /\ Authorized /\ bag[s].content = FrozenMessages
              /\ truth[s].content = FrozenTruth /\ GroundTruth(truth[s].content)
              /\ tx' = [tx EXCEPT !.pc = "build", !.bagId = bag[s].id, !.truthId = truth[s].id,
                                  !.ev.bag = bag[s].content, !.ev.truth = truth[s].content]
              /\ Goes
           \/ /\ ~(Authorized /\ bag[s].content = FrozenMessages /\ truth[s].content = FrozenTruth)
              /\ Refuse
        /\ Outside

\* A held file whose path and inode are still the ones that were bound.
HeldBag == bag[Ev.seq].id = tx.bagId
HeldTruth == truth[Ev.seq].id = tx.truthId

\* _copy_static_inputs, and the private build of the archived source; the digest
\* of the executable is taken once before anything runs.  A build of a commit is
\* not always the same bytes (those of the first are called 0).
Build ==
    /\ tx.pc = "build"
    /\ \/ /\ Authorized
          /\ \E b \in 0..tx.r - 1 :
                tx' = [tx EXCEPT !.pc = "pairs", !.exe = <<repo, b>>, !.ev.exe = <<repo, b>>]
          /\ Goes
       \/ ~Authorized /\ Refuse
    /\ Outside

-----------------------------------------------------------------------------
\* Pairs and the two mode runs

\* _extract: the extractor opens the parent's descriptors of the bag and of its own
\* source and refuses any other inode;
ExtractorHolds == HeldBag
\* _read_pair_evidence: it reads the messages of three topics after the offset.
Extract(ms) == [Ev EXCEPT !.witness = ms, !.pairs = Walk(ms)]

\* _run_pair_index_command starts the held extractor, which reads the held bag,
RunPairIndex ==
    /\ \/ /\ Authorized /\ HeldBag /\ ExtractorHolds
          /\ Records("pairs", "paired", Command(Extract(bag[Ev.seq].content), "pair_index", "none"))
          /\ Goes
       \/ tx.pc = "pairs" /\ ~(Authorized /\ HeldBag) /\ Refuse
    /\ Outside

\* and accepts its output if nothing moved meanwhile and the witness replays.
AcceptPairIndex ==
    LET holds == Authorized /\ HeldBag /\ Selects(Ev.witness)
                 /\ WitnessReplays(Ev.witness, Ev.pairs)
    IN  /\ \/ holds /\ Step("paired", "nullspace") /\ Goes
           \/ tx.pc = "paired" /\ ~holds /\ Refuse
        /\ Outside

\* _HeldRuntimeTrace.precreate, fill_parent and the launch of _capture_mode: the
\* sinks are new inodes held open; the estimator writes through these.  A run may
\* leave evidence that does not join.
LaunchMode(m) ==
    LET trace(flaw) ==
            [by |-> tx.r, mode |-> m, exe |-> tx.exe, msgs |-> bag[Ev.seq].content,
             stamps |-> PoseTimes[m], commit |-> Ev.commit, flaw |-> flaw]
    IN  /\ tx.pc = m
        /\ \/ /\ Authorized /\ HeldBag
              /\ \E flaw \in {"none"} \union Flaws :
                    /\ tx' = [tx EXCEPT !.pc = IF m = "nullspace" THEN "ran nullspace"
                                               ELSE "ran schur",
                                        !.sink = "held",
                                        !.ev = [Command(Command(Ev, "runtime_preflight", m),
                                                        "ros_run", m)
                                                  EXCEPT !.trace[m] = trace(flaw)]]
                    /\ IF flaw = "none" THEN Works ELSE Fails
              /\ UNCHANGED <<store, said>>
           \/ ~(Authorized /\ HeldBag) /\ Refuse
        /\ Outside

\* What a name of the trace directory leads to: the held inode, or the trace of
\* the same mode an earlier run left.
Named(m) ==
    IF tx.sink = "held" THEN Ev.trace[m]
    ELSE LET q == CHOOSE q \in Runs : art[q].trace[m].by = q /\ q # tx.r IN art[q].trace[m]

\* accept_external: every sink is the inode that was created, and no other name is
\* in the directory.
SinksAreHeld == tx.sink = "held"
\* Mutant: the completed sinks are read by name.
AcceptTraceByName(m, t) == t = Named(m)
\* _accept_completed: the bytes come from the held inode.
AcceptTrace(m, t) == SinksAreHeld /\ t = Ev.trace[m]

\* The rest of _capture_mode: the serial pairs are the extracted ones, the resolved
\* parameters are those of the preflight, the mapped libraries are the same before
\* and after.
SerialPairs(t) == Walk(t.msgs) = Ev.pairs
RuntimeParameters(t) == t.flaw # "parameters"
LoaderMaps(t) == t.flaw # "loader"

AcceptMode(m) ==
    LET holds(t) == /\ Authorized /\ HeldBag /\ AcceptTrace(m, t)
                    /\ SerialPairs(t) /\ RuntimeParameters(t) /\ LoaderMaps(t)
        seen == {Ev.trace[m], Named(m)}
    IN  /\ tx.pc = IF m = "nullspace" THEN "ran nullspace" ELSE "ran schur"
        /\ \/ \E t \in seen :
                 /\ holds(t)
                 /\ tx' = [tx EXCEPT !.pc = IF m = "nullspace" THEN "schur" ELSE "inputs",
                                     !.ev.trace[m] = t, !.ev.exeOf[m] = tx.exe]
                 /\ Goes
           \/ (\A t \in seen : ~holds(t)) /\ Refuse
        /\ Outside

\* After both runs the inputs are hashed again and the capsules are those staged.
RehashInputs ==
    LET s == Ev.seq
        holds == /\ bag[s].content = FrozenMessages /\ HeldTruth
                 /\ truth[s].content = FrozenTruth /\ unit = Ev.unit
    IN  /\ \/ holds /\ Records("inputs", "math", [Ev EXCEPT !.bagAfter = bag[s].content]) /\ Goes
           \/ tx.pc = "inputs" /\ ~holds /\ Refuse
        /\ Outside

-----------------------------------------------------------------------------
\* Direct mathematics and evaluators, each in a sealed capsule

\* _validate_callbacks and its coverage, _validate_trajectory, _validate_mode_trace.
CallbacksJoin(t, rows) == Walk(t.msgs) = rows /\ t.flaw \notin {"callbacks", "coverage"}
TrajectoryJoins(t) == Increasing(t.stamps) /\ t.flaw # "trajectory"
ModeTrace(m, t, rows) == t.mode = m /\ CallbacksJoin(t, rows) /\ TrajectoryJoins(t)

\* _direct_request_bytes, encode_sequence_request: a projection of both traces and
\* of the parsed ground truth.
Request(trace, gt) == [nullspace |-> trace["nullspace"], schur |-> trace["schur"], truth |-> gt]

\* decode_sequence_request: times increase within a mode, not necessarily in truth.
RequestDecodes(q) ==
    Increasing(q.nullspace.stamps) /\ Increasing(q.schur.stamps) /\ Chronological(q.truth)

\* What the worker refuses to run under: environment variables, import paths,
\* mapped objects, threads and processor features that are not the capsule's.
WorkerEnvironment(flaw) == flaw # "environment"
ImportIsolation(flaw) == flaw # "imports"
LoaderIsolation(flaw) == flaw # "loader"
ThreadState(flaw) == flaw # "threads"
WorkerRuns(flaw) ==
    WorkerEnvironment(flaw) /\ ImportIsolation(flaw) /\ LoaderIsolation(flaw) /\ ThreadState(flaw)

\* evaluate_sequence_request: the shared population, its associations, and whether
\* the metrics are within their limits; too small a population is an error.
Population(q) == Merge(q.nullspace.stamps, q.schur.stamps)
Evaluates(q) == /\ RequestDecodes(q) /\ Len(Population(q)) >= Fewest
                /\ Len(Associate(Population(q), q.truth)) >= Fewest
Response(q, capsule, close, env) ==
    [request |-> q, unit |-> capsule, assoc |-> Associate(Population(q), q.truth),
     close |-> close, env |-> env]

\* decode_sequence_response: it answers that request, its population and its
\* associations are computed again by the codec, and its metrics are within limits.
ResponseBinds(p, q) == p.request = q
ResponsePopulation(p, q) == p.assoc = Nearest(Population(q), q.truth) /\ Len(p.assoc) >= Fewest
ResponseMetrics(p) == p.close
ResponseDecodes(p, q) == ResponseBinds(p, q) /\ ResponsePopulation(p, q) /\ ResponseMetrics(p)

DirectMath ==
    LET q == Request(Ev.trace, Ev.truth)
    IN  /\ tx.pc = "math"
        /\ \E close \in BOOLEAN, env \in {"clean"} \union WorkerFlaws :
              LET p == Response(q, unit, close, env)
                  holds == /\ \A m \in Modes : ModeTrace(m, Ev.trace[m], Ev.pairs)
                           /\ PairRows(Ev.pairs) /\ WorkerRuns(env) /\ Evaluates(q)
                           /\ ResponseDecodes(p, q) /\ Authorized
              IN  /\ IF close /\ env = "clean" THEN TRUE ELSE faults < MaxFaults
                  /\ \/ /\ holds /\ Goes
                        /\ tx' = [tx EXCEPT !.pc = "evaluate",
                                            !.ev = [Command(Ev, "evaluation", "direct")
                                                      EXCEPT !.request = q, !.response = p]]
                     \/ ~holds /\ Refuse
        /\ Outside

\* cp2_evaluator_result: the archive has exactly its members, a finite error array
\* and the statistics of that array; the console shows the same error.
ArchiveMembers(x) == x.flaw # "members"
ErrorArray(x) == x.flaw # "array"
ArchiveStatistics(x) == x.flaw # "statistics"
ConsoleToken(x) == x.flaw # "console"

\* parse_evaluator_result_archive.
ArchiveParses(x) == ArchiveMembers(x) /\ ErrorArray(x) /\ ArchiveStatistics(x) /\ ConsoleToken(x)

\* What the evaluator refuses to run under, and the documents it refuses to read.
EvaluatorEnvironment(flaw) == flaw # "environment"
EvaluatorImports(flaw) == flaw # "imports"
EvaluatorLoader(flaw) == flaw # "loader"
EvaluatorReads(p) == Increasing([k \in 1..Len(p.assoc) |-> p.assoc[k].time])
EvaluatorRuns(flaw, p) ==
    /\ EvaluatorEnvironment(flaw) /\ EvaluatorImports(flaw) /\ EvaluatorLoader(flaw)
    /\ EvaluatorReads(p)

\* _run_evaluators: both modes are evaluated on the aligned shared population.
RunEvaluators ==
    LET archive(m, flaw) == [response |-> Ev.response, mode |-> m, flaw |-> flaw]
        environments == WorkerFlaws \ {"threads"}
    IN  /\ tx.pc = "evaluate"
        /\ \E bad \in Modes, flaw \in {"none"} \union ResultFlaws \union environments :
              LET x == [m \in Modes |-> archive(m, IF m = bad THEN flaw ELSE "none")]
                  holds == /\ \A m \in Modes : /\ EvaluatorRuns(x[m].flaw, x[m].response)
                                               /\ ArchiveParses(x[m])
                           /\ Authorized
              IN  /\ IF flaw = "none" THEN bad = "nullspace" ELSE faults < MaxFaults
                  /\ \/ /\ holds /\ Goes
                        /\ tx' = [tx EXCEPT !.pc = "executable",
                                            !.ev = [Command(Command(Ev, "evaluation", "nullspace"),
                                                            "evaluation", "schur")
                                                      EXCEPT !.archive = x]]
                     \/ ~holds /\ Refuse
        /\ Outside

\* The executable is hashed again: the same before, between and after the runs.
ExecutableAfter ==
    /\ \/ tx.exe = Ev.exe /\ Records("executable", "assemble", [Ev EXCEPT !.exeAfter = tx.exe]) /\ Goes
       \/ tx.pc = "executable" /\ tx.exe # Ev.exe /\ Refuse
    /\ Outside

-----------------------------------------------------------------------------
\* Assembly.  a is the evidence to assemble.

\* _validate_sequence_identity.
SequenceIdentity(a) == a.seq \in Indices
\* _validate_parameters: equal outside the allowlisted keys, each with its mode.
ParametersJoin(a) ==
    /\ \A m \in Modes : a.trace[m].mode = m /\ a.trace[m].flaw # "parameters"
    /\ a.trace["nullspace"].commit = a.trace["schur"].commit
\* _validate_mode.
ModeHolds(a, m) == ModeTrace(m, a.trace[m], a.pairs) /\ ArchiveParses(a.archive[m])
\* _metric_artifacts: the request is the projection of the traces, the response
\* answers it, and both evaluators agree with it on population and error.
MetricArtifacts(a) ==
    LET q == Request(a.trace, a.truth)
    IN  /\ a.request = q /\ ResponseDecodes(a.response, q)
        /\ \A m \in Modes : a.archive[m].response.assoc = a.response.assoc
                            /\ a.archive[m].flaw # "rmse"
\* _validate_commands and the joins of the evaluator and direct commands.
Phase(a, phase) == SelectSeq(a.cmds, LAMBDA c : c[1] = phase)
CommandsHold(a) ==
    /\ a.cmds # <<>>
    /\ Phase(a, "evaluation") = <<<<"evaluation", "direct">>, <<"evaluation", "nullspace">>,
                                 <<"evaluation", "schur">>>>
\* _validate_provenance_base: executable, libraries, configuration, inputs.
ProvenanceRuntime(a) == a.exe = a.exeAfter /\ \A m \in Modes : a.trace[m].flaw # "loader"
ProvenanceConfiguration(a) == \A m \in Modes : a.trace[m].commit = a.commit
ProvenanceInputs(a) == a.bag = a.bagAfter
\* _validate_provenance_joins: unit-tested commit, run identities, frozen inputs.
ProvenanceJoins(a) ==
    /\ a.unit = a.commit /\ a.bag = FrozenMessages /\ a.truth = FrozenTruth
    /\ \A m \in Modes : a.exeOf[m] = a.exe

AssemblyHolds(a) ==
    /\ SequenceIdentity(a) /\ PairRows(a.pairs) /\ WitnessReplays(a.witness, a.pairs)
    /\ \A m \in Modes : ModeHolds(a, m)
    /\ a.exeOf["nullspace"] = a.exeOf["schur"]
    /\ ParametersJoin(a) /\ MetricArtifacts(a) /\ CommandsHold(a)
    /\ ProvenanceRuntime(a) /\ ProvenanceConfiguration(a) /\ ProvenanceInputs(a)
    /\ ProvenanceJoins(a)

\* assemble_sequence_artifact writes the held bytes of every member, the report
\* and the manifest; make_tree_read_only and the snapshot follow.
Assemble ==
    /\ tx.pc = "assemble"
    /\ \/ /\ AssemblyHolds(Ev)
          /\ art' = [art EXCEPT ![tx.r] = Ev] /\ sums' = [sums EXCEPT ![tx.r] = Ev]
          /\ tx' = [tx EXCEPT !.pc = "verify", !.shot = Ev]
          /\ UNCHANGED <<at, disk, mark, said, faults>>
       \/ ~AssemblyHolds(Ev) /\ Refuse
    /\ Outside

-----------------------------------------------------------------------------
\* The detached verifier; a is the published evidence

\* _actual_scan_and_verify_manifest.
ManifestHolds(a, anchor) == a = anchor
\* _actual_validate_sequence_provenance.
DetachedInputs(a) ==
    /\ a.seq \in Indices /\ a.bag = a.bagAfter /\ a.bag = FrozenMessages
    /\ a.truth = FrozenTruth
    /\ bag[a.seq].content = a.bag    \* the bag at its path is hashed again
DetachedRuns(a) == \A m \in Modes : a.trace[m].flaw # "loader"
DetachedParameters(a) ==
    /\ \A m \in Modes : a.trace[m].flaw # "parameters" /\ a.trace[m].commit = a.commit
    /\ a.trace["nullspace"].commit = a.trace["schur"].commit
DetachedDifference(a) == \A m \in Modes : a.trace[m].mode = m
\* _actual_validate_sequence_pair_index_command: one extractor command, before all
\* others, whose output is retained; one preflight and one run of each mode.
DetachedPairCommand(a) ==
    /\ Phase(a, "pair_index") = <<<<"pair_index", "none">>>> /\ a.cmds[1][1] = "pair_index"
    /\ a.pairs = Walk(a.witness)
DetachedRunCommands(a) ==
    \A phase \in {"runtime_preflight", "ros_run"} :
        Phase(a, phase) = <<<<phase, "nullspace">>, <<phase, "schur">>>>
\* _actual_validate_sequence_traces.
DetachedRunReports(a) == \A m \in Modes : a.exeOf[m] = a.exe
DetachedCallbacks(t, rows) == Walk(t.msgs) = rows /\ t.flaw # "callbacks"
DetachedTrajectory(t) == Increasing(t.stamps) /\ t.flaw # "trajectory"
DetachedCoverage(t) == t.flaw # "coverage"
\* _actual_validate_unit_capsule_identity: the capsules are those the commit froze.
DetachedCapsules(a) == a.unit = a.commit
\* _actual_replay_direct_capsule: the response is reproduced byte for byte.
DirectReplay(a) ==
    a.response.unit = a.unit
    /\ a.response.assoc = Associate(Population(a.response.request), a.response.request.truth)
\* _actual_replay_evaluator_capsule_preflight: the known answer is reproduced.
EvaluatorReplay(a) == a.unit = a.commit
\* _actual_read_ground_truth_source: read again from its path.
DetachedTruth(a) ==
    /\ truth[a.seq].content = FrozenTruth /\ GroundTruth(truth[a.seq].content)
    /\ a.request.truth = truth[a.seq].content
\* _actual_sequence_shared_math.
DetachedResponse(a) == ResponseDecodes(a.response, a.request)
DetachedRequest(a) == \A m \in Modes : a.request[m] = a.trace[m]
DetachedShared(a) ==
    a.response.assoc = Nearest(Population(a.request), a.request.truth)
DetachedMetrics(a) == a.response.close
DetachedEvaluators(a) ==
    \A m \in Modes : /\ ArchiveParses(a.archive[m]) /\ a.archive[m].flaw # "rmse"
                     /\ a.archive[m].mode = m
                     /\ Len(a.archive[m].response.assoc) = Len(a.response.assoc)
DetachedEvaluationCommands(a) == Len(Phase(a, "evaluation")) = 3

VerifySequence(a, anchor) ==
    /\ ManifestHolds(a, anchor) /\ DetachedInputs(a) /\ DetachedRuns(a)
    /\ DetachedParameters(a) /\ DetachedDifference(a)
    /\ DetachedPairRows(a.pairs) /\ DetachedReplays(a.witness, a.pairs) /\ DetachedRunReports(a)
    /\ \A m \in Modes : /\ DetachedCallbacks(a.trace[m], a.pairs)
                         /\ DetachedTrajectory(a.trace[m]) /\ DetachedCoverage(a.trace[m])
    /\ DetachedPairCommand(a) /\ DetachedRunCommands(a)
    /\ DetachedCapsules(a) /\ DirectReplay(a) /\ EvaluatorReplay(a)
    /\ DetachedResponse(a) /\ DetachedRequest(a) /\ DetachedTruth(a) /\ DetachedShared(a)
    /\ DetachedMetrics(a) /\ DetachedEvaluationCommands(a) /\ DetachedEvaluators(a)

Verify ==
    LET holds == Authorized /\ VerifySequence(art[tx.r], sums[tx.r])
    IN  /\ \/ holds /\ Step("verify", "verified") /\ Goes
           \/ tx.pc = "verify" /\ ~holds /\ Refuse
        /\ Outside

\* The tree is the one that was verified, the workspace is removed, the
\* authorization still holds.
Unchanged ==
    LET holds == Authorized /\ art[tx.r] = tx.shot
    IN  /\ \/ holds /\ Step("verified", "publish") /\ Goes
           \/ tx.pc = "verified" /\ ~holds /\ Refuse
        /\ Outside

-----------------------------------------------------------------------------
\* publish_sequence_noreplace, by inode: rename, parent fsync, reconciliation

Rename ==
    /\ Step("publish", "renamed") /\ at' = [at EXCEPT ![tx.r] = "final"]
    /\ UNCHANGED <<art, sums, disk, mark, said, faults>> /\ Outside

\* The rename that did not happen: the hidden name is made durable again, or its
\* durability is unknown.
RenameFails ==
    /\ tx.pc = "publish" /\ Fails /\ tx' = Idle
    /\ mark' = [mark EXCEPT ![tx.r] = TRUE]
    /\ \E words \in {"failed", "indeterminate"} : said' = [said EXCEPT ![tx.r] = words]
    /\ UNCHANGED <<art, sums, at, disk>> /\ Outside

\* Mutant: success is reported before the parent directory is durable.
CommitUnsynced == Step("renamed", "committed") /\ Goes /\ Outside
Commit ==
    /\ Step("renamed", "committed") /\ disk' = [disk EXCEPT ![tx.r] = "final"]
    /\ UNCHANGED <<art, sums, at, mark, said, faults>> /\ Outside

\* An exception after the rename: the directory goes back under its hidden name,
\* durably, and the failure is retained in it;
RollBack ==
    /\ tx.pc = "renamed" /\ Fails
    /\ at' = [at EXCEPT ![tx.r] = "hidden"] /\ disk' = [disk EXCEPT ![tx.r] = "hidden"]
    /\ mark' = [mark EXCEPT ![tx.r] = TRUE] /\ said' = [said EXCEPT ![tx.r] = "failed"]
    /\ tx' = Idle /\ UNCHANGED <<art, sums>> /\ Outside

\* or the rollback fails too, and neither name is promised.
RollBackFails ==
    /\ tx.pc = "renamed" /\ Fails
    /\ said' = [said EXCEPT ![tx.r] = "indeterminate"] /\ tx' = Idle
    /\ UNCHANGED store /\ Outside

\* The barrier is read once more after the transaction: its failure is reported
\* although the artifact is published.
Report ==
    /\ tx.pc = "committed" /\ tx' = Idle
    /\ said' = [said EXCEPT ![tx.r] = IF Authorized THEN "passed" ELSE "failed"]
    /\ UNCHANGED <<store, faults>> /\ Outside

\* verify_sequence_set: one artifact of every sequence, in order, with one source,
\* executable and configuration.
CrossIdentity(a) == <<a.commit, a.exe>>
VerifySet(q) ==
    /\ sets' = sets \union {q}
    /\ \A s \in Indices : /\ at[q[s]] = "final" /\ art[q[s]].seq = s
                          /\ VerifySequence(art[q[s]], sums[q[s]])
    /\ \A s \in Indices : CrossIdentity(art[q[s]]) = CrossIdentity(art[q[0]])
    /\ UNCHANGED <<world, tx, store, said, faults, changes>>

-----------------------------------------------------------------------------
\* The environment

\* A command fails or times out, or an exception arrives, anywhere before the rename.
Raise ==
    /\ tx.pc \notin {"idle", "renamed", "committed"} /\ faults < MaxFaults
    /\ Refuse /\ Outside

\* The process is killed; what it had renamed stays renamed.
Kill ==
    /\ Running /\ Fails /\ tx' = Idle /\ said' = [said EXCEPT ![tx.r] = "killed"]
    /\ UNCHANGED store /\ Outside

PowerLoss ==
    /\ Fails /\ tx' = Idle /\ at' = disk
    /\ said' = IF Running THEN [said EXCEPT ![tx.r] = "killed"] ELSE said
    /\ UNCHANGED <<art, sums, disk, mark>> /\ Outside

\* A new commit; the unit gate runs for it.
NewCommit ==
    Changes /\ repo' = repo + 1 /\ UNCHANGED <<unit, bag, truth, tx, store, said, sets, faults>>
UnitGate ==
    /\ unit # repo /\ unit' = repo
    /\ UNCHANGED <<repo, bag, truth, tx, store, said, sets, faults, changes>>

\* A file is written or replaced, perhaps with what it held before.
WriteBag(s) ==
    /\ Changes /\ \E ms \in {FrozenMessages, Tail(FrozenMessages)} :
          bag' = [bag EXCEPT ![s] = [content |-> ms, id |-> @.id + 1]]
    /\ UNCHANGED <<repo, unit, truth, tx, store, said, sets, faults>>
WriteTruth(s) ==
    /\ Changes /\ \E gt \in {FrozenTruth, Tail(FrozenTruth)} :
          truth' = [truth EXCEPT ![s] = [content |-> gt, id |-> @.id + 1]]
    /\ UNCHANGED <<repo, unit, bag, tx, store, said, sets, faults>>

\* The built executable is replaced, by bytes that were not there before (it is only
\* known by its hash, which does not tell that other bytes were there in between);
\* a sink's name is taken by an earlier trace.
WriteExecutable ==
    /\ Changes /\ tx.exe # NoExe /\ tx' = [tx EXCEPT !.exe = <<@[1], @[2] + MaxRuns>>]
    /\ UNCHANGED <<world, store, said, sets, faults>>
TakeSinkName(m) ==
    /\ Changes /\ tx.sink = "held" /\ tx.pc = IF m = "nullspace" THEN "ran nullspace" ELSE "ran schur"
    /\ \E q \in Runs : q # tx.r /\ art[q].trace[m].by = q
    /\ tx' = [tx EXCEPT !.sink = "taken"]
    /\ UNCHANGED <<world, store, said, sets, faults>>

\* A member of the hidden directory is replaced by an earlier run's, until the
\* last comparison of the tree.
Tamper(f) ==
    /\ Changes /\ tx.pc \in {"verify", "verified"}
    /\ \E q \in Runs : /\ q # tx.r /\ art[q].seq = Ev.seq /\ art[q].trace["nullspace"].by = q
                      /\ art' = [art EXCEPT ![tx.r][f] = art[q][f]]
    /\ UNCHANGED <<world, tx, sums, at, disk, mark, said, sets, faults>>

-----------------------------------------------------------------------------
Transaction ==
    \/ \E r \in Runs, s \in Indices : Start(r, s)
    \/ BindInputs \/ Build \/ RunPairIndex \/ AcceptPairIndex
    \/ \E m \in Modes : LaunchMode(m) \/ AcceptMode(m)
    \/ RehashInputs \/ DirectMath \/ RunEvaluators \/ ExecutableAfter \/ Assemble
    \/ Verify \/ Unchanged \/ Rename \/ Commit \/ Report
    \/ RenameFails \/ RollBack \/ RollBackFails

Next ==
    \/ Transaction
    \/ \E q \in [Indices -> Runs] : VerifySet(q)
    \/ Raise \/ Kill \/ PowerLoss \/ NewCommit \/ UnitGate \/ WriteExecutable
    \/ \E s \in Indices : WriteBag(s) \/ WriteTruth(s)
    \/ \E m \in Modes : TakeSinkName(m)
    \/ \E f \in {"trace", "response", "archive"} : Tamper(f)

Spec == Init /\ [][Next]_vars

-----------------------------------------------------------------------------
\* Properties

\* The stereo pairs, the shared poses and the ground-truth rows the comparison is
\* made over are exactly the ones its rules name (select_pair_evidence,
\* shared_timestamp_intersection, associate_nearest_ground_truth), for whatever
\* bag and ground truth there are, so no replay ever refuses a genuine selection.
PopulationsAreExact ==
    said = [r \in Runs |-> "none"] /\ ~Running =>
        /\ SelectionIsTheRule(bag[0].content)
        /\ \A l \in Stamps, g \in Stamps :
              MergeIsIntersection(l, g) /\ AssociationIsNearest(Merge(l, g), truth[0].content)

\* A comparison under its final name is one experiment of execute_authorized_sequence:
\* both traces were written by that run, in their modes, by the executable built
\* from its commit, on the frozen bag; the pairs are that bag's, the mathematics
\* and the evaluations are over these traces and the frozen ground truth, in the
\* commit's own capsules; the bytes are the manifest's and carry no failure.
OneExperiment(r) ==
    LET a == art[r]
    IN  /\ \A m \in Modes :
              /\ a.trace[m].by = r /\ a.trace[m].mode = m /\ a.trace[m].exe = a.exe
              /\ a.trace[m].msgs = FrozenMessages /\ a.trace[m].flaw = "none"
              /\ a.archive[m].response = a.response /\ a.archive[m].flaw = "none"
        /\ a.exe[1] = a.commit /\ a.pairs = Walk(FrozenMessages)
        /\ a.response.request = [nullspace |-> a.trace["nullspace"], schur |-> a.trace["schur"],
                                 truth |-> FrozenTruth]
        /\ a.response.unit = a.commit /\ a.response.env = "clean" /\ a.response.close
        /\ a = sums[r] /\ ~mark[r]
PublishedIsOneExperiment ==
    /\ \A r \in Runs : at[r] = "final" => OneExperiment(r)
    /\ \A q \in sets : \A s \in Indices :
          art[q[s]].seq = s /\ art[q[s]].exe = art[q[0]].exe /\ art[q[s]].commit = art[q[0]].commit

\* What the runner says is so (publish_sequence_noreplace, _retain_failure): a
\* comparison reported as passed keeps its final name through a power loss, one
\* with a failure record is hidden, and one reported as failed is hidden unless it
\* was committed before the failure.
ReportIsTrue ==
    \A r \in Runs : /\ said[r] = "passed" => at[r] = "final" /\ disk[r] = "final"
                    /\ mark[r] => at[r] = "hidden"
                    /\ said[r] = "failed" /\ at[r] = "final" => disk[r] = "final"
=============================================================================
