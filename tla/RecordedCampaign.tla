-------------------------- MODULE RecordedCampaign --------------------------
\* One recorded campaign of checkpoint CP2-C: the readiness barrier
\* (scripts/cp2/cp2_readiness.py) that binds the source and takes the data
\* lock, and the campaign (scripts/cp2/cp2_recorded_campaign.py) whose confined
\* worker fills and seals a hidden directory that the trusted parent verifies
\* and renames to the run's final name.
\*
\* The content of the worktree is a generation number, stepped by every edit, its
\* namespace the number of files Git does not know; the recorded input is whole
\* while `bag' is 0, the executable that was built while wk.exe is 0.  An
\* exception may end any step of the parent or of the worker, after the step's
\* effect; a process may be killed.
EXTENDS Naturals, Sequences

CONSTANTS Depth,      \* components of results/staging/cp2/recorded
          Recordings, \* sequences of the campaign
          MaxRuns,    \* campaigns started, all with one run id
          MaxEdits,   \* changes of the worktree or of the recorded input
          MaxFaults   \* exceptions, failing commands and kills

ASSUME BoundAssumption == {Depth, Recordings, MaxRuns, MaxEdits, MaxFaults} \subseteq Nat

VARIABLES src,     \* the worktree: content, whether it is committed, unknown files
          bag,     \* changes made to the recorded input
          lock,    \* holder of the data lock
          anc,     \* how many components of the output parent exist
          tree,    \* the output directory of each campaign
          p,       \* the trusted parent
          wk,      \* supervisor, worker and what they left running
          unit,    \* generation the unit artifact was built from
          run, outcome, edits, faults

vars == <<src, bag, lock, anc, tree, p, wk, unit, run, outcome, edits, faults>>
world == <<src, bag, unit, edits>>

NoTree == [at |-> "none", mode |-> "none", bytes |-> 0, sums |-> 0, ready |-> 0,
           built |-> 0, runs |-> <<>>, marker |-> "none"]
NoWorker == [st |-> "none", i |-> 1, pend |-> FALSE, ok |-> FALSE, sup |-> "none",
             stray |-> FALSE, strict |-> TRUE, idx |-> 0, exe |-> 0]
NoParent == [pc |-> "idle", pend |-> FALSE, gen |-> 0, names |-> 0, ready |-> 0, made |-> 0, latch |-> "none",
             committed |-> FALSE, failed |-> FALSE, snap |-> {}, private |-> FALSE,
             owners |-> FALSE, verdict |-> "none"]

Init ==
    /\ src = [gen |-> 0, clean |-> TRUE, extra |-> 0] /\ bag = 0 /\ lock = "free" /\ unit = 0
    /\ anc = 0 /\ tree = [r \in 1..MaxRuns |-> NoTree]
    /\ p = NoParent /\ wk = NoWorker /\ run = 0 /\ edits = 0 /\ faults = 0
    /\ outcome = [r \in 1..MaxRuns |-> "none"]

Out == tree[run]
FinalTaken == \E r \in 1..MaxRuns : tree[r].at = "final"
Holds(o, r) == outcome' = [outcome EXCEPT ![r] = o]
Fails == faults < MaxFaults /\ faults' = faults + 1
Works == UNCHANGED faults

-----------------------------------------------------------------------------
\* The surroundings

Edit ==
    /\ edits < MaxEdits /\ edits' = edits + 1
    /\ \/ \E c \in BOOLEAN : src' = [src EXCEPT !.gen = @ + 1, !.clean = c]
       \/ src' = [src EXCEPT !.extra = @ + 1]
    /\ UNCHANGED <<bag, lock, anc, tree, p, wk, unit, run, outcome, faults>>

SpoilBag ==
    /\ edits < MaxEdits /\ edits' = edits + 1 /\ bag' = bag + 1
    /\ UNCHANGED <<src, lock, anc, tree, p, wk, unit, run, outcome, faults>>

OtherLocks ==
    /\ lock' = CASE lock = "free" -> "other" [] lock = "other" -> "free" [] OTHER -> lock
    /\ lock # "ours"
    /\ UNCHANGED <<src, bag, anc, tree, p, wk, unit, run, outcome, edits, faults>>

\* A process of the worker that outlived its command writes the output or the
\* build while the PID namespace lives; the name failure.json is not reserved.
StrayWrites ==
    /\ wk.stray
    /\ \/ /\ Out.bytes < 2 /\ UNCHANGED wk
          /\ \E m \in {Out.marker, "untrusted"} :
               /\ m = "untrusted" => Out.marker \in {"none", "untrusted"}
               /\ tree' = [tree EXCEPT ![run].bytes = @ + 1, ![run].marker = m]
       \/ wk.exe = 0 /\ wk' = [wk EXCEPT !.exe = 1] /\ UNCHANGED tree
    /\ UNCHANGED <<src, bag, lock, anc, p, unit, run, outcome, edits, faults>>

-----------------------------------------------------------------------------
\* Steps of the parent

To(pc) == p' = [p EXCEPT !.pc = pc]
\* A step that reads the worktree is followed by a comparison with what is held.
Read(pc) == p' = [p EXCEPT !.pc = pc, !.pend = TRUE]
At(pc) == p.pc = pc /\ ~p.pend

Barrier == {"establish", "before", "tests", "after", "lock", "postlock", "freeze", "unit",
            "postunit", "seal", "authorize"}
Campaign == {"workspaces", "mounts", "fork", "await", "bags", "verify", "snapshot"}

\* The except clause that receives an exception raised at a step.
Handler(pc) ==
    CASE pc \in Barrier -> "refuse"
      [] pc = "registry" -> "abandon"
      [] pc \in {"parents", "partial", "register"} -> "unmake"
      [] pc = "staged" -> IF p.pend THEN "unregister" ELSE "abandon"
      [] pc \in Campaign -> "clean"
      [] pc \in {"publish", "report"} -> "state"
      [] pc \in {"rename", "renamed", "published"} -> "reconcile"
      [] pc = "commit" -> IF p.pend THEN "unpublish" ELSE "state"
      [] pc \in {"unrename", "unrenamed", "unpublish"} -> "reconcile2"
      [] OTHER -> "unmarked"

Raise == p' = [p EXCEPT !.pc = Handler(p.pc), !.pend = FALSE, !.failed = TRUE]

\* _validate_bindings: the held descriptors and their bytes are those of the time
\* the repository was opened.
HeldContent == src.gen = p.gen
\* _scan_worktree_namespace, against the namespace captured by _prewalk_worktree.
Namespace == src.extra = p.names
Bound == HeldContent /\ Namespace

\* ReadinessAuthorization.revalidate, and _validate_bindings inside the barrier.
Revalidate ==
    /\ p.pend
    /\ IF Bound THEN p' = [p EXCEPT !.pend = FALSE] ELSE Raise
    /\ UNCHANGED <<world, lock, anc, tree, wk, run, outcome, faults>>

\* An exception of any kind, a failing system call included.  While it waits for
\* the supervisor the parent kills and reaps it; the worker dies of that later.
Interrupt ==
    /\ p.pc \notin {"idle", "open", "refuse", "abandon", "unmake", "unregister", "clean",
                     "reconcile", "reconcile2", "state", "unmarked", "close", "remove", "done"}
    /\ Fails /\ Raise
    /\ wk' = IF p.pc = "await" /\ wk.sup = "up" THEN [wk EXCEPT !.sup = "dead"] ELSE wk
    /\ UNCHANGED <<world, lock, anc, tree, run, outcome>>

-----------------------------------------------------------------------------
\* The readiness barrier

Start ==
    /\ At("idle") /\ run < MaxRuns /\ run' = run + 1
    /\ \E u \in 0..src.gen : unit' = u
    /\ p' = [NoParent EXCEPT !.pc = "open"] /\ wk' = NoWorker
    /\ UNCHANGED <<src, bag, lock, anc, tree, outcome, edits, faults>>

\* _open_and_validate: binds the root, .git, the index, the objects and every
\* tracked file.
OpenRepository ==
    /\ At("open") /\ p' = [p EXCEPT !.gen = src.gen, !.names = src.extra, !.pc = "establish"]
    /\ UNCHANGED <<world, lock, anc, tree, wk, run, outcome, faults>>

\* _cat_file_digests: the blobs of HEAD are the files of the worktree.
BlobsMatch == src.clean
\* _git status --untracked-files=all.
StatusEmpty == src.clean /\ src.extra = 0

\* _establish_source.
EstablishSource ==
    /\ At("establish")
    /\ IF BlobsMatch /\ StatusEmpty
       THEN p' = [p EXCEPT !.pc = "before", !.pend = TRUE, !.private = TRUE] ELSE Raise
    /\ UNCHANGED <<world, lock, anc, tree, wk, run, outcome, faults>>

\* capture_source and the three capture_repository_root calls.
CaptureBefore ==
    /\ At("before") /\ p' = [p EXCEPT !.ready = src.gen, !.pc = "tests", !.pend = TRUE]
    /\ UNCHANGED <<world, lock, anc, tree, wk, run, outcome, faults>>

\* run_self_tests: descriptor-bound entry points, each in a process group that
\* is gone when its result is read.
RunSelfTests ==
    /\ At("tests")
    /\ \/ Works /\ Read("after")
       \/ Fails /\ Raise
    /\ UNCHANGED <<world, lock, anc, tree, wk, run, outcome>>

CaptureAfter ==
    /\ At("after")
    /\ IF src.gen = p.ready THEN Read("lock") ELSE Raise
    /\ UNCHANGED <<world, lock, anc, tree, wk, run, outcome, faults>>

\* acquire_data_lock does not wait.
AcquireDataLock ==
    /\ At("lock")
    /\ IF lock = "free" THEN lock' = "ours" /\ To("postlock") ELSE UNCHANGED lock /\ Raise
    /\ UNCHANGED <<world, anc, tree, wk, run, outcome, faults>>

PostLock ==
    /\ At("postlock")
    /\ IF src.gen = p.ready THEN Read("freeze") ELSE Raise
    /\ UNCHANGED <<world, lock, anc, tree, wk, run, outcome, faults>>

\* _freeze_unit_artifact: a copy that no later change of the artifact reaches.
FreezeUnitArtifact ==
    /\ At("freeze") /\ Read("unit")
    /\ UNCHANGED <<world, lock, anc, tree, wk, run, outcome, faults>>

\* _invoke_unit_verifier: the held verifier, fed with the held source context,
\* must report the held commit and tree.
InvokeUnitVerifier ==
    /\ At("unit")
    /\ \/ Works /\ unit = p.gen /\ Read("postunit")
       \/ Works /\ unit # p.gen /\ Raise
       \/ Fails /\ Raise
    /\ UNCHANGED <<world, lock, anc, tree, wk, run, outcome>>

PostUnit ==
    /\ At("postunit")
    /\ IF src.gen = p.ready THEN Read("seal") ELSE Raise
    /\ UNCHANGED <<world, lock, anc, tree, wk, run, outcome, faults>>

\* _PrivateTreeSeal.capture.
SealPrivateTree ==
    /\ At("seal") /\ Read("authorize")
    /\ UNCHANGED <<world, lock, anc, tree, wk, run, outcome, faults>>

\* The authorization takes over lock, guard and seal.
Authorize ==
    /\ At("authorize") /\ To("registry")
    /\ UNCHANGED <<world, lock, anc, tree, wk, run, outcome, faults>>

\* The barrier's except clause: nothing survives a refusal.
Refuse ==
    /\ p.pc = "refuse" /\ To("remove")
    /\ lock' = IF lock = "ours" THEN "free" ELSE lock
    /\ Holds("refused", run)
    /\ UNCHANGED <<world, anc, tree, wk, run, faults>>

\* read_registry_once.
ReadRegistry ==
    /\ At("registry") /\ Read("parents")
    /\ UNCHANGED <<world, lock, anc, tree, wk, run, outcome, faults>>

-----------------------------------------------------------------------------
\* The output directory: created, registered and taken back

\* One component of the output parent: opened, or created.
AcquireParent ==
    /\ At("parents")
    /\ \/ anc < Depth /\ anc' = anc + 1 /\ p' = [p EXCEPT !.made = @ + 1]
       \/ anc = Depth /\ UNCHANGED anc /\ (IF FinalTaken THEN Raise ELSE To("partial"))
    /\ UNCHANGED <<world, lock, tree, wk, run, outcome, faults>>

\* A hidden directory under a fresh random name.
CreatePartial ==
    /\ At("partial") /\ To("register")
    /\ tree' = [tree EXCEPT ![run] = [NoTree EXCEPT !.at = "hidden", !.mode = "open"]]
    /\ UNCHANGED <<world, lock, anc, wk, run, outcome, faults>>

\* Only the ancestors and the new directory may differ in the worktree; then the
\* directory becomes the registered output.
Register ==
    /\ At("register")
    /\ IF Bound THEN p' = [p EXCEPT !.latch = "hidden", !.pc = "staged", !.pend = TRUE] ELSE Raise
    /\ UNCHANGED <<world, lock, anc, tree, wk, run, outcome, faults>>

\* Directories leave in reverse order of their creation; an exception stops it.
RemoveCreated ==
    \/ Works /\ anc' = anc - p.made /\ tree' = [tree EXCEPT ![run] = NoTree]
    \/ Fails /\ \E k \in 0..p.made :
         /\ tree' = IF k = p.made THEN tree ELSE [tree EXCEPT ![run] = NoTree]
         /\ anc' = anc - p.made + k

\* rollback_local_creation.
RollbackLocal ==
    /\ p.pc = "unmake" /\ RemoveCreated /\ To("abandon")
    /\ UNCHANGED <<world, lock, wk, run, outcome>>

\* _rollback_empty_postauthorization_output.
RollbackEmpty ==
    /\ p.pc = "unregister" /\ RemoveCreated
    /\ p' = [p EXCEPT !.pc = "abandon", !.latch = "none"]
    /\ UNCHANGED <<world, lock, wk, run, outcome>>

\* The exception leaves execute_recorded_campaign outside its try statement.
Abandon ==
    /\ p.pc = "abandon" /\ To("close") /\ Holds("raised", run)
    /\ UNCHANGED <<world, lock, anc, tree, wk, run, faults>>

-----------------------------------------------------------------------------
\* The trusted parent around the worker

\* _validate_output_staging.
EnterCampaign ==
    /\ At("staged") /\ To("workspaces")
    /\ UNCHANGED <<world, lock, anc, tree, wk, run, outcome, faults>>

\* Three private workspaces.
CreateWorkspaces ==
    /\ At("workspaces") /\ p' = [p EXCEPT !.owners = TRUE, !.pc = "mounts"]
    /\ UNCHANGED <<world, lock, anc, tree, wk, run, outcome, faults>>

\* _prepare_parent_bag_mounts: the recorded inputs are held and hashed.
HoldBags ==
    /\ At("mounts")
    /\ IF bag = 0 THEN Read("fork") ELSE Raise
    /\ UNCHANGED <<world, lock, anc, tree, wk, run, outcome, faults>>

ForkSupervisor ==
    /\ At("fork") /\ To("await") /\ wk' = [NoWorker EXCEPT !.st = "enter", !.sup = "up"]
    /\ UNCHANGED <<world, lock, anc, tree, run, outcome, faults>>

\* The status record, or its absence, and the end of the supervisor.
AwaitResult ==
    /\ At("await") /\ wk.sup \in {"passed", "failed", "dead"}
    /\ IF wk.sup = "passed" THEN Read("bags") ELSE Raise
    /\ UNCHANGED <<world, lock, anc, tree, wk, run, outcome, faults>>

CheckResult ==
    /\ At("bags")
    /\ IF bag = 0 /\ Out.mode = "sealed" THEN To("verify") ELSE Raise
    /\ UNCHANGED <<world, lock, anc, tree, wk, run, outcome, faults>>

\* verify_report.py --verify-recorded on the sealed directory.
Accepts(t) ==
    /\ t.mode = "sealed" /\ t.bytes = t.sums /\ t.marker = "none"
    /\ t.ready = t.built /\ t.runs = [i \in 1..Recordings |-> <<0, 0>>]

\* The held verifier in a mount and PID namespace of its own, read only after its
\* PID 1 is gone.
RunVerifier ==
    /\ At("verify") /\ p.verdict = "none"
    /\ \/ Works /\ p' = [p EXCEPT !.verdict = IF Accepts(Out) THEN "pass" ELSE "fail"]
       \/ Fails /\ p' = [p EXCEPT !.verdict = "fail"]
    /\ UNCHANGED <<world, lock, anc, tree, wk, run, outcome>>

\* _trusted_parent_detached_verify_recorded.
DetachedVerify ==
    /\ At("verify") /\ p.verdict # "none"
    /\ IF p.verdict = "pass" THEN Read("snapshot") ELSE Raise
    /\ UNCHANGED <<world, lock, anc, tree, wk, run, outcome, faults>>

\* _sealed_artifact_snapshot.
Snapshot(t) == IF t.mode = "sealed" THEN {<<t.bytes, t.marker>>} ELSE {}

TakeSnapshot ==
    /\ At("snapshot")
    /\ IF bag = 0 /\ Snapshot(Out) # {}
       THEN p' = [p EXCEPT !.snap = Snapshot(Out), !.pc = "clean"]
       ELSE Raise
    /\ UNCHANGED <<world, lock, anc, tree, wk, run, outcome, faults>>

\* The finally clause; a workspace that cannot be removed is a failure too.
CleanWorkspaces ==
    /\ p.pc = "clean"
    /\ \/ /\ Works
          /\ p' = [p EXCEPT !.owners = FALSE, !.pc = IF p.failed THEN "state" ELSE "publish"]
       \/ Fails /\ p.owners /\ p' = [p EXCEPT !.failed = TRUE, !.pc = "state"]
    /\ UNCHANGED <<world, lock, anc, tree, wk, run, outcome>>

-----------------------------------------------------------------------------
\* The confined worker and its supervisor

WorkerAlive == wk.st \notin {"none", "gone"}
WTo(st) == wk' = [wk EXCEPT !.st = st, !.pend = TRUE]
WAt(st) == wk.st = st /\ ~wk.pend
WTell(ok) == wk' = [wk EXCEPT !.st = "told", !.ok = ok, !.pend = FALSE]

\* Every command is framed by authorization.revalidate.
WorkerRevalidate ==
    /\ wk.pend
    /\ IF Bound THEN wk' = [wk EXCEPT !.pend = FALSE] ELSE WTell(FALSE)
    /\ UNCHANGED <<world, lock, anc, tree, p, run, outcome, faults>>

WorkerRaises ==
    /\ WorkerAlive /\ wk.st # "told" /\ Fails /\ WTell(FALSE)
    /\ UNCHANGED <<world, lock, anc, tree, p, run, outcome>>

\* A command whose process left the process group outlives the command.
CommandStrays ==
    /\ wk.st \in {"audit", "pair", "ros", "accept", "assemble", "replay", "seal"} /\ ~wk.stray
    /\ Fails /\ wk' = [wk EXCEPT !.stray = TRUE]
    /\ UNCHANGED <<world, lock, anc, tree, p, run, outcome>>

\* The worktree and the inputs become read-only mounts; only output and workspace
\* can be written.
InstallMounts ==
    /\ WAt("enter") /\ WTo("pidns")
    /\ UNCHANGED <<world, lock, anc, tree, p, run, outcome, faults>>

\* PID namespace, rebound descriptors, dropped capabilities.
EnterNamespaces ==
    /\ WAt("pidns") /\ WTo("copy")
    /\ UNCHANGED <<world, lock, anc, tree, p, run, outcome, faults>>

CopyReadiness ==
    /\ WAt("copy") /\ (IF bag = 0 THEN WTo("capsule") ELSE WTell(FALSE))
    /\ tree' = [tree EXCEPT ![run].ready = p.ready]
    /\ UNCHANGED <<world, lock, anc, p, run, outcome, faults>>

\* The capsules of the frozen unit artifact.
StageCapsule ==
    /\ WAt("capsule") /\ WTo("build")
    /\ UNCHANGED <<world, lock, anc, tree, p, run, outcome, faults>>

\* The archive of the held commit, extracted, compared and built; a build with
\* another floating-point contract is one of the ways a build goes wrong.
BuildRuntime ==
    /\ WAt("build")
    /\ \E strict \in BOOLEAN :
         /\ IF strict THEN Works ELSE Fails
         /\ wk' = [wk EXCEPT !.st = "audit", !.pend = TRUE, !.strict = strict]
    /\ tree' = [tree EXCEPT ![run].built = p.gen]
    /\ UNCHANGED <<world, lock, anc, p, run, outcome>>

\* _audit_strict_fp_compile_commands.
AuditBuild ==
    /\ WAt("audit") /\ (IF wk.strict THEN WTo("pair") ELSE WTell(FALSE))
    /\ UNCHANGED <<world, lock, anc, tree, p, run, outcome, faults>>

\* The recorded input is hashed, then the independent selector reads it.
PairIndex ==
    /\ WAt("pair")
    /\ IF bag = 0 THEN wk' = [wk EXCEPT !.st = "ros", !.pend = TRUE, !.idx = bag] ELSE WTell(FALSE)
    /\ UNCHANGED <<world, lock, anc, tree, p, run, outcome, faults>>

RosRun ==
    /\ WAt("ros") /\ WTo("accept") /\ tree' = [tree EXCEPT ![run].runs = Append(@, <<bag, wk.exe>>)]
    /\ UNCHANGED <<world, lock, anc, p, run, outcome, faults>>

\* The pairs of the run, in the form of the independent index.
Projected(x) == x[1]

\* The sinks are accepted once, the input hashed again, and the run's selection
\* of pairs is the independent one.
AcceptRun ==
    /\ WAt("accept")
    /\ IF bag # 0 \/ Projected(Out.runs[wk.i]) # wk.idx THEN WTell(FALSE)
       ELSE wk' = [wk EXCEPT !.i = @ + 1, !.st = IF wk.i < Recordings THEN "pair" ELSE "assemble"]
    /\ UNCHANGED <<world, lock, anc, tree, p, run, outcome, faults>>

Assemble ==
    /\ WAt("assemble") /\ WTo("replay")
    /\ UNCHANGED <<world, lock, anc, tree, p, run, outcome, faults>>

OfflineReplay ==
    /\ WAt("replay") /\ WTo("seal")
    /\ UNCHANGED <<world, lock, anc, tree, p, run, outcome, faults>>

\* The executable is the one that was built.
SameExecutable == wk.exe = 0

\* Commands, provenance, report and manifest, then read-only modes.
SealArtifact ==
    /\ WAt("seal")
    /\ IF SameExecutable
       THEN /\ WTo("sealed")
            /\ tree' = [tree EXCEPT ![run].sums = Out.bytes, ![run].mode = "sealed"]
       ELSE WTell(FALSE) /\ UNCHANGED tree
    /\ UNCHANGED <<world, lock, anc, p, run, outcome, faults>>

WorkerPasses ==
    /\ WAt("sealed") /\ WTell(TRUE)
    /\ UNCHANGED <<world, lock, anc, tree, p, run, outcome, faults>>

\* The worker is PID 1: nothing of its namespace survives it.
NamespaceEnds ==
    /\ \/ wk.st = "told" /\ Works /\ wk' = [wk EXCEPT !.st = "gone", !.stray = FALSE]
       \/ /\ WorkerAlive /\ (Fails \/ (wk.sup = "dead" /\ Works))
          /\ wk' = [wk EXCEPT !.st = "gone", !.pend = FALSE, !.stray = FALSE, !.ok = FALSE]
    /\ UNCHANGED <<world, lock, anc, tree, p, run, outcome>>

\* Mutant: the result is forwarded before the worker is reaped.
SupervisorForwardsEarly ==
    /\ wk.sup = "up" /\ wk.st \in {"told", "gone"}
    /\ wk' = [wk EXCEPT !.sup = IF wk.ok THEN "passed" ELSE "failed"]
    /\ UNCHANGED <<world, lock, anc, tree, p, run, outcome, faults>>

\* The supervisor forwards the result once the worker has been reaped.
SupervisorForwards ==
    /\ wk.sup = "up" /\ wk.st = "gone"
    /\ wk' = [wk EXCEPT !.sup = IF wk.ok THEN "passed" ELSE "failed"]
    /\ UNCHANGED <<world, lock, anc, tree, p, run, outcome, faults>>

SupervisorDies ==
    /\ wk.sup = "up" /\ Fails /\ wk' = [wk EXCEPT !.sup = "dead"]
    /\ UNCHANGED <<world, lock, anc, tree, p, run, outcome>>

-----------------------------------------------------------------------------
\* Publication

\* The snapshot of the sealed directory is taken again just before the rename.
Publish ==
    /\ At("publish")
    /\ IF Snapshot(Out) = p.snap THEN Read("rename") ELSE Raise
    /\ UNCHANGED <<world, lock, anc, tree, wk, run, outcome, faults>>

\* renameat2 with RENAME_NOREPLACE.
RenameNoReplace ==
    /\ At("rename")
    /\ IF FinalTaken THEN Raise /\ UNCHANGED tree
       ELSE tree' = [tree EXCEPT ![run].at = "final"] /\ To("renamed")
    /\ UNCHANGED <<world, lock, anc, wk, run, outcome, faults>>

\* The registered output takes the new name in the expected namespace.
Rebaseline ==
    /\ At("renamed") /\ p' = [p EXCEPT !.latch = "final", !.pc = "published", !.pend = TRUE]
    /\ UNCHANGED <<world, lock, anc, tree, wk, run, outcome, faults>>

AfterPublish ==
    /\ At("published") /\ Read("commit")
    /\ UNCHANGED <<world, lock, anc, tree, wk, run, outcome, faults>>

Commit ==
    /\ At("commit") /\ p' = [p EXCEPT !.committed = TRUE, !.pc = "report"]
    /\ UNCHANGED <<world, lock, anc, tree, wk, run, outcome, faults>>

\* After a failing rename: which name the directory has now.
Reconcile ==
    /\ p.pc = "reconcile"
    /\ p' = [p EXCEPT !.latch = Out.at, !.pc = IF Out.at = "final" THEN "unrename" ELSE "state"]
    /\ UNCHANGED <<world, lock, anc, tree, wk, run, outcome, faults>>

\* Renamed back, inside the rename or by rollback_published_output.
RenameBack ==
    /\ p.pc \in {"unrename", "unpublish"} /\ To("unrenamed")
    /\ tree' = [tree EXCEPT ![run].at = "hidden"]
    /\ UNCHANGED <<world, lock, anc, wk, run, outcome, faults>>

Unrenamed ==
    /\ p.pc = "unrenamed"
    /\ p' = [p EXCEPT !.latch = "hidden", !.pc = IF Bound THEN "state" ELSE "reconcile2"]
    /\ UNCHANGED <<world, lock, anc, tree, wk, run, outcome, faults>>

\* A failing rollback is reconciled once more and not retried.
ReconcileAgain ==
    /\ p.pc = "reconcile2" /\ p' = [p EXCEPT !.latch = Out.at, !.pc = "state"]
    /\ UNCHANGED <<world, lock, anc, tree, wk, run, outcome, faults>>

-----------------------------------------------------------------------------
\* What a failed campaign leaves

\* Mutant: an exception after the commit is handled like any other.
PublicationStateBlind ==
    /\ p.pc = "state" /\ To(IF p.latch = Out.at THEN "mark_mode" ELSE "unmarked")
    /\ UNCHANGED <<world, lock, anc, tree, wk, run, outcome, faults>>

\* publication_state: committed, hidden or published.  A committed output is
\* never marked; a name that is not the registered one cannot be.
PublicationState ==
    /\ p.pc = "state"
    /\ To(CASE p.committed -> "report"
            [] ~p.committed /\ p.latch = Out.at /\ (p.snap = {} => p.latch = "hidden") -> "mark_mode"
            [] OTHER -> "unmarked")
    /\ UNCHANGED <<world, lock, anc, tree, wk, run, outcome, faults>>

UnsealForMarker ==
    /\ At("mark_mode") /\ To("mark_move") /\ tree' = [tree EXCEPT ![run].mode = "open"]
    /\ UNCHANGED <<world, lock, anc, wk, run, outcome, faults>>

\* A failure.json left by the worker is moved aside.
Quarantine ==
    /\ At("mark_move") /\ To("mark")
    /\ tree' = [tree EXCEPT ![run].marker = IF @ = "untrusted" THEN "none" ELSE @]
    /\ UNCHANGED <<world, lock, anc, wk, run, outcome, faults>>

\* Created exclusively.
CommitMarker ==
    /\ At("mark")
    /\ IF Out.marker = "none"
       THEN /\ tree' = [tree EXCEPT ![run].marker = "trusted"]
            /\ To("close") /\ Holds("failed", run)
       ELSE To("unmarked") /\ UNCHANGED <<tree, outcome>>
    /\ UNCHANGED <<world, lock, anc, wk, run, faults>>

\* The failure could not be marked; the exception carries both errors.
Unmarked ==
    /\ p.pc = "unmarked" /\ To("close") /\ Holds("unmarked", run)
    /\ UNCHANGED <<world, lock, anc, tree, wk, run, faults>>

Report ==
    /\ At("report") /\ To("close") /\ Holds("passed", run)
    /\ UNCHANGED <<world, lock, anc, tree, wk, run, faults>>

\* Mutant: a failed campaign ends without releasing the lock.
CloseStopsEarly ==
    /\ p.pc = "close" /\ To("remove")
    /\ lock' = IF lock = "ours" /\ ~p.failed THEN "free" ELSE lock
    /\ UNCHANGED <<world, anc, tree, wk, run, outcome, faults>>

\* ReadinessAuthorization.close: the lock and the guard first.
Close ==
    /\ p.pc = "close" /\ To("remove")
    /\ lock' = IF lock = "ours" THEN "free" ELSE lock
    /\ UNCHANGED <<world, anc, tree, wk, run, outcome, faults>>

\* _remove_private_tree, which may leave some of it.
RemovePrivateTree ==
    /\ p.pc = "remove"
    /\ \/ Works /\ p' = [p EXCEPT !.pc = "done", !.private = FALSE]
       \/ Fails /\ p.private /\ To("done")
    /\ UNCHANGED <<world, lock, anc, tree, wk, run, outcome>>

NextRun ==
    /\ p.pc = "done" /\ wk.st \in {"none", "gone"} /\ To("idle")
    /\ UNCHANGED <<world, lock, anc, tree, wk, run, outcome, faults>>

\* The parent is killed: the kernel frees its lock, PDEATHSIG ends the supervisor.
Kill ==
    /\ p.pc \notin {"idle", "done"} /\ Fails /\ p' = [p EXCEPT !.pc = "done", !.pend = FALSE]
    /\ outcome' = [outcome EXCEPT ![run] = IF @ = "none" THEN "killed" ELSE @]
    /\ lock' = IF lock = "ours" THEN "free" ELSE lock
    /\ wk' = [wk EXCEPT !.sup = IF @ = "up" THEN "dead" ELSE @]
    /\ UNCHANGED <<world, anc, tree, run>>

-----------------------------------------------------------------------------
BarrierStep ==
    \/ OpenRepository \/ EstablishSource \/ CaptureBefore \/ RunSelfTests \/ CaptureAfter
    \/ AcquireDataLock \/ PostLock \/ FreezeUnitArtifact \/ InvokeUnitVerifier \/ PostUnit
    \/ SealPrivateTree \/ Authorize \/ Refuse \/ ReadRegistry
OutputStep ==
    \/ AcquireParent \/ CreatePartial \/ Register \/ RollbackLocal \/ RollbackEmpty \/ Abandon
CampaignStep ==
    \/ EnterCampaign \/ CreateWorkspaces \/ HoldBags \/ ForkSupervisor \/ AwaitResult \/ CheckResult
    \/ RunVerifier \/ DetachedVerify \/ TakeSnapshot \/ CleanWorkspaces
PublishStep ==
    \/ Publish \/ RenameNoReplace \/ Rebaseline \/ AfterPublish \/ Commit \/ Reconcile
    \/ RenameBack \/ Unrenamed \/ ReconcileAgain
EndStep ==
    \/ PublicationState \/ UnsealForMarker \/ Quarantine \/ CommitMarker \/ Unmarked
    \/ Report \/ RemovePrivateTree \/ Close
ParentStep == Revalidate \/ BarrierStep \/ OutputStep \/ CampaignStep \/ PublishStep \/ EndStep
WorkerStep ==
    \/ WorkerRevalidate \/ InstallMounts \/ EnterNamespaces \/ CopyReadiness \/ StageCapsule
    \/ BuildRuntime \/ AuditBuild \/ PairIndex \/ RosRun \/ AcceptRun \/ Assemble \/ OfflineReplay \/ SealArtifact \/ WorkerPasses
    \/ NamespaceEnds \/ SupervisorForwards
Mishap ==
    \/ Edit \/ SpoilBag \/ OtherLocks \/ StrayWrites \/ Interrupt \/ WorkerRaises
    \/ CommandStrays \/ SupervisorDies \/ Kill

Next == Start \/ NextRun \/ ParentStep \/ WorkerStep \/ Mishap
Spec == Init /\ [][Next]_vars
\* Neither process waits for anything but the other: a command has a deadline.
LiveSpec == Spec /\ WF_vars(ParentStep) /\ WF_vars(WorkerStep)

-----------------------------------------------------------------------------
\* A directory under the run's final name holds what the manifest lists, every
\* run read the pristine recording, and the readiness record in it is that of the
\* commit that was built, whatever was edited, killed or left running meanwhile.
FinalIsVerified == \A r \in 1..MaxRuns : LET t == tree[r] IN
    t.at = "final" =>
        /\ t.bytes = t.sums /\ t.ready = t.built
        /\ t.runs = [i \in 1..Recordings |-> <<0, 0>>]

Ended(r) == outcome[r] # "none" /\ (r < run \/ p.pc \in {"done", "idle"})

\* What a finished campaign reports is what its directory says: a pass leaves the
\* sealed directory under the final name and no marker, a failure leaves the
\* parent's own marker, a refusal leaves nothing.  A final directory without a
\* marker belongs to a pass, to a kill or to a failure reported as unmarked.
OutcomeIsMarked == \A r \in 1..MaxRuns : Ended(r) =>
    /\ outcome[r] = "passed" => /\ tree[r].at = "final" /\ tree[r].mode = "sealed"
                               /\ tree[r].marker = "none"
    /\ outcome[r] = "failed" => tree[r].marker = "trusted"
    /\ outcome[r] = "refused" => tree[r].at = "none"
    /\ tree[r].at = "final" /\ tree[r].marker # "trusted" =>
          outcome[r] \in {"passed", "unmarked", "killed"}

\* A published campaign is verified, and the outcome reported is the one its
\* directory shows (cp2_recorded_campaign.py run_recorded_campaign and its worker).
CommittedIsTrue == FinalIsVerified /\ OutcomeIsMarked

\* Once committed, a published directory is never changed, moved or marked again,
\* also not by the handling of an exception that follows the commit.
CommittedIsImmutable == [][\A r \in 1..MaxRuns :
    outcome[r] = "passed" \/ (r = run /\ p.committed) => tree'[r] = tree[r]]_vars

\* Every campaign ends with a verdict, and with the data lock released, through
\* every exception, refusal and kill.
CampaignEnds == \A r \in 1..MaxRuns :
    run = r ~> outcome[r] # "none" /\ (run = r => lock # "ours")
=============================================================================
