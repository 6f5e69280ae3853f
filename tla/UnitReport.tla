----------------------------- MODULE UnitReport -----------------------------
\* The unit evidence of checkpoint CP2: scripts/cp2/run_unit_gate.sh (outside the
\* Python sources) leaves evidence files in a hidden directory, verify_report.py
\* assembles the report and the manifest, verifies everything again, freezes the
\* directory and renames it to its final name; an interrupted publication is
\* reconciled, and the readiness barrier verifies the artifact detached from the
\* repository.
\*
\* A file is known by the run that wrote it: its commit, its workspace, the argv
\* of its compile commands and so on are those of that run.  Every run has a
\* fresh workspace, so a path below the workspace names the run.
EXTENDS Naturals, Sequences, SequencesExt

CONSTANTS MaxRuns,    \* runs of the gate
          MaxEdits,   \* commits, edits, misplaced files and occupied names
          MaxFaults,  \* exceptions, kills and power losses
          Argvs,      \* compile commands a build may come up with
          Links       \* link commands a build may come up with

ASSUME BoundAssumption == {MaxRuns, MaxEdits, MaxFaults} \subseteq Nat
ASSUME CommandAssumption == Argvs \subseteq Seq(STRING)

VARIABLES repo,    \* [head, dirty]
          runs,    \* what each run of the gate did
          art,     \* the files of each run's directory, each the run that wrote it
          report,  \* of each directory: the files it reports about, and the verdict
          sums,    \* of each directory: the files and report its manifest lists
          at, disk,\* name of each directory, and the name a power loss leaves
          frozen, squat, kept,  \* read-only; final name occupied; workspace retained
          gate,    \* the running gate
          said,    \* what the gate said of each run
          trusted, \* <<run, commit>>: accepted by the detached verifier
          edits, faults

vars == <<repo, runs, art, report, sums, at, disk, frozen, squat, kept, gate, said,
          trusted, edits, faults>>
dirs == <<art, report, sums, frozen>>
names == <<at, disk, squat>>

Files == {"self", "before", "tar", "receipt", "capsule", "build", "compile", "link", "depends",
          "libs", "tests", "inventory", "status", "results", "workspace", "after"}
Runs == 1..MaxRuns
Empty == [f \in Files |-> 0]
NoReport == [files |-> Empty, status |-> "none"]
NoSums == [files |-> Empty, report |-> NoReport]
NoRun == [commit |-> 0, before |-> [head |-> 0, dirty |-> FALSE],
          after |-> [head |-> 0, dirty |-> FALSE], argv |-> <<>>, links |-> <<>>,
          built |-> FALSE, passed |-> FALSE, bounded |-> FALSE, pinned |-> TRUE, checked |-> FALSE,
          made |-> NoSums]  \* its manifest
Idle == [pc |-> "idle", r |-> 0, anchor |-> NoSums, begun |-> FALSE]

Init ==
    /\ repo = [head |-> 1, dirty |-> FALSE]
    /\ runs = [r \in Runs |-> NoRun] /\ art = [r \in Runs |-> Empty]
    /\ report = [r \in Runs |-> NoReport] /\ sums = [r \in Runs |-> NoSums]
    /\ at = [r \in Runs |-> "none"] /\ disk = [r \in Runs |-> "none"]
    /\ frozen = [r \in Runs |-> FALSE] /\ squat = [r \in Runs |-> FALSE]
    /\ kept = [r \in Runs |-> FALSE] /\ gate = Idle
    /\ said = [r \in Runs |-> "none"] /\ trusted = {} /\ edits = 0 /\ faults = 0

Fails == faults < MaxFaults /\ faults' = faults + 1
Works == UNCHANGED faults
Changes == edits < MaxEdits /\ edits' = edits + 1

-----------------------------------------------------------------------------
\* Compile commands: the last of several options wins

LastIs(option, argv, options) ==
    \E i \in DOMAIN argv : /\ argv[i] = option
                           /\ \A j \in DOMAIN argv : j > i => argv[j] \notin options

\* required_macro_record: defined last, and no spelling whose effect is unknown.
RequiredMacro(argv) ==
    LastIs("define", argv, {"define", "undefine", "redefine"}) /\ ~Contains(argv, "opaque")

\* forced_include_record.
ForcedIncludes(argv) == ~Contains(argv, "include")

\* cp2_testing_macro_record, recorded_assembler_test_macro_record: the test macro
\* is in the commands of its own target and in no other.
TestingMacro(argv, expected) == Contains(argv, "testing") = expected

\* strict_flag_record: required flags, their last occurrence, and no flag that
\* conflicts wherever it stands.
StrictFlags(argv) ==
    /\ Contains(argv, "strict") /\ LastIs("strict", argv, {"strict", "relaxed"})
    /\ ~Contains(argv, "unsafe")
    /\ RequiredMacro(argv) /\ ForcedIncludes(argv)

\* The fault library is compiled by the production command and the test macro.
Commands(argv) == [production |-> argv, fault |-> Append(argv, "testing")]

-----------------------------------------------------------------------------
\* Link commands: [out, refs, opaque], the output, the runtimes referred to and
\* whether a token hides what is linked

\* linker_control_record and the tokens refused while parsing.
LinkControls(l) == ~l.opaque
\* compiler_output_binding: one output, under its expected name.
OutputBinding(l, name) == l.out = {name}
\* scan_library_values, library_references: every spelling of a library.
LibraryReferences(l, libraries) == l.refs = libraries

\* The four retained commands of collect_link_isolation.
LinkIsolation(k) ==
    \A l \in {"production_library", "fault_library", "production_test", "fault_test"} :
        /\ LinkControls(k[l]) /\ OutputBinding(k[l], l)
        /\ LibraryReferences(k[l], CASE l = "production_test" -> {"production_library"}
                                     [] l = "fault_test" -> {"fault_library"}
                                     [] OTHER -> {})

-----------------------------------------------------------------------------
\* The collectors of verify_report.py; a is a directory's files

Src(a) == runs[a["before"]].before
Wrote(a, f) == runs[a[f]]
Workspace(a) == a["workspace"]
Complete(a) == \A f \in Files : a[f] # 0

\* collect_source_metadata: both snapshots are one clean commit,
SourceSnapshots(a) == Src(a) = Wrote(a, "after").after /\ ~Src(a).dirty
\* which is still the clean HEAD of the live repository,
LiveSource(a) == repo = Src(a)
\* and the archive of that commit is reproduced byte for byte.
SourceArchive(a) == Wrote(a, "tar").commit = Src(a).head

\* validate_prevalidated_source_context: the readiness barrier holds a commit whose
\* index is its tree and whose status is empty;
PrevalidatedContext(held) == ~held.dirty
\* collect_prevalidated_source_metadata: that commit stands for the live repository.
PrevalidatedSource(a, held) == Src(a) = held
\* validate_source_archive_against_context.
PrevalidatedArchive(a, held) == Wrote(a, "tar").commit = held.head

\* collect_workspace_record: commit, tree and archives of a fresh workspace.
WorkspaceRecord(a) ==
    Wrote(a, "workspace").commit = Src(a).head
    /\ Wrote(a, "workspace").commit = Wrote(a, "tar").commit

\* collect_third_party_sources_and_notices.
ThirdParty(a) == Wrote(a, "workspace").pinned

\* collect_unit_capsule_import: the receipt joins the identity documents of the
\* archived source,
CapsuleReceipt(a) == Wrote(a, "receipt").commit = Wrote(a, "tar").commit
\* the imported archives join both; in place, they are the very inodes of the
\* receipt,
CapsuleFiles(a, detached) ==
    IF detached THEN Wrote(a, "capsule").commit = Wrote(a, "receipt").commit
    ELSE a["capsule"] = a["receipt"]
\* and so do their profiles and the two rehearsals of each.
CapsuleProfiles(a) == Wrote(a, "capsule").commit = Wrote(a, "tar").commit

\* expected_build_environment: SOURCE_DATE_EPOCH is the commit's.
BuildEnvironment(a) == Wrote(a, "build").commit = Src(a).head
\* expected_build_argv: every path lies in the workspace.
BuildArgv(a) == a["build"] = Workspace(a)
\* validate_build_command, collect_build_records.
BuildRecords(a) == Wrote(a, "build").built /\ BuildEnvironment(a) /\ BuildArgv(a)

\* Mutant: the directory of a compile command is not looked at.
CompileEntriesAnywhere(a) == a["compile"] # 0

\* analyze_compile_commands: entries are located in the workspace,
CompileEntries(a) == a["compile"] = Workspace(a)
\* and production, fault library and tests are strict.
CompileStrict(a) ==
    \A target \in {"production", "fault"} :
        LET argv == Commands(Wrote(a, "compile").argv)[target]
        IN  StrictFlags(argv) /\ TestingMacro(argv, target = "fault")

\* collect_link_isolation: paths may be relative, so that the workspace is not
\* bound.
LinkRecord(a) == LinkIsolation(Wrote(a, "link").links)

\* analyze_dependency_compile_commands.
DependencyAbi(a) == a["depends"] = Workspace(a)

\* collect_dependency_inventory: recorded paths and digests of what was copied,
InventoryRecord(a) ==
    a["inventory"] = Workspace(a) /\ a["libs"] = a["inventory"] /\ a["tests"] = a["inventory"]
\* compared with the workspace itself while it is there.
RetainedOutputs(a) ==
    kept[Workspace(a)] => a["libs"] = Workspace(a) /\ a["tests"] = Workspace(a)

\* loader_map, collect_elf_linkage: what the tests load lies beside them.
Linkage(a) == a["tests"] = a["libs"]

\* validate_test_status: digests of the inputs before and after the execution.
TestStatus(a) == a["status"] = a["tests"] /\ a["status"] = a["libs"]
\* parse_gtest_xml: every expected case ran, none failed or was skipped.
GtestClean(a) == Wrote(a, "results").passed
\* parse_summaries, validate_summary_contract: counters and bounds of the logs.
SummaryContract(a) == Wrote(a, "results").bounded
\* collect_verifier_self_test: contract, exit status and log of the self-test.
SelfTest(a) == Wrote(a, "self").checked
\* rerun_snapshotted_tests: the same numbers from the same binaries.
Rerun(a) == Wrote(a, "results").commit = Wrote(a, "tests").commit

\* validate_record_timeline; a later run is later in all its files.
Timeline(a) ==
    /\ a["self"] <= a["before"] /\ a["before"] <= a["build"]
    /\ a["build"] <= a["status"] /\ a["status"] <= a["after"]

\* Everything assemble_unit_report and verify_unit_report collect alike.
Evidence(a, detached) ==
    /\ SourceSnapshots(a) /\ WorkspaceRecord(a) /\ ThirdParty(a)
    /\ CapsuleReceipt(a) /\ CapsuleFiles(a, detached)
    /\ CapsuleProfiles(a) /\ BuildRecords(a)
    /\ CompileEntries(a) /\ CompileStrict(a) /\ LinkRecord(a) /\ DependencyAbi(a)
    /\ InventoryRecord(a) /\ Linkage(a) /\ TestStatus(a) /\ GtestClean(a) /\ SummaryContract(a)
    /\ Rerun(a) /\ SelfTest(a) /\ Timeline(a)

\* regular_artifact_files: link counts, sizes and, once final, modes.
RegularFiles(r, final) == final => frozen[r]
\* verify_manifest.
ManifestHolds(r) == sums[r] = [files |-> art[r], report |-> report[r]]
\* validate_manifest_anchor.
AnchorHolds(r, anchor) == anchor # NoSums => sums[r] = anchor

\* verify_unit_report against the live repository.
VerifyUnit(r, anchor, final) ==
    /\ Complete(art[r]) /\ ManifestHolds(r) /\ AnchorHolds(r, anchor) /\ RegularFiles(r, final)
    /\ report[r].status = "passed" /\ report[r].files = art[r]
    /\ Evidence(art[r], FALSE) /\ LiveSource(art[r]) /\ SourceArchive(art[r]) /\ RetainedOutputs(art[r])

\* verify_unit_anchor_prevalidated: neither repository nor workspace.
VerifyDetached(r, anchor, held) ==
    /\ Complete(art[r]) /\ ManifestHolds(r) /\ AnchorHolds(r, anchor) /\ RegularFiles(r, TRUE)
    /\ report[r].status = "passed" /\ report[r].files = art[r]
    /\ Evidence(art[r], TRUE) /\ PrevalidatedContext(held)
    /\ PrevalidatedSource(art[r], held) /\ PrevalidatedArchive(art[r], held)

-----------------------------------------------------------------------------
\* The surroundings

Edit ==
    /\ Changes
    /\ \/ repo' = [head |-> repo.head + 1, dirty |-> FALSE]
       \/ repo' = [repo EXCEPT !.dirty = TRUE]
    /\ UNCHANGED <<runs, dirs, names, kept, gate, said, trusted, faults>>

\* A file of another run ends up in a directory that is still writable: an
\* evidence file, the report, or everything.
Misplace ==
    /\ Changes
    /\ \E r \in Runs, q \in Runs \ {gate.r} :
        /\ q # r /\ at[r] = "partial" /\ ~frozen[r]
        /\ \/ \E f \in Files : /\ art[r][f] # 0 /\ art[q][f] # 0
                               /\ art' = [art EXCEPT ![r][f] = art[q][f]]
                               /\ UNCHANGED <<report, sums>>
           \/ /\ sums[r] # NoSums /\ sums[q] # NoSums
              /\ art' = [art EXCEPT ![r] = art[q]]
              /\ report' = [report EXCEPT ![r] = report[q]]
              /\ sums' = [sums EXCEPT ![r] = sums[q]]
    /\ UNCHANGED <<repo, runs, frozen, names, kept, gate, said, trusted, faults>>

\* Something else takes the final name.
Squat ==
    /\ Changes /\ \E r \in Runs : at[r] = "partial" /\ ~squat[r] /\ squat' = [squat EXCEPT ![r] = TRUE]
    /\ UNCHANGED <<repo, runs, dirs, at, disk, kept, gate, said, trusted, faults>>

-----------------------------------------------------------------------------
\* run_unit_gate.sh

R == gate.r
At(pc) == gate.pc = pc
To(pc) == gate' = [gate EXCEPT !.pc = pc]
Writes(fs) == art' = [art EXCEPT ![R] = [f \in Files |-> IF f \in fs THEN R ELSE @[f]]]

\* One gate at a time holds the lock; it refuses a dirty worktree, and has run
\* the verifier's self-test.
Begin ==
    /\ At("idle") /\ R < MaxRuns /\ ~repo.dirty
    /\ gate' = [Idle EXCEPT !.pc = "archive", !.r = R + 1]
    /\ runs' = [runs EXCEPT ![R + 1].commit = repo.head, ![R + 1].checked = TRUE]
    /\ kept' = [kept EXCEPT ![R + 1] = TRUE]
    /\ UNCHANGED <<repo, dirs, names, said, trusted, edits, faults>>

\* The commit's archive becomes the workspace, the directory is made, the
\* capsule imported and the first snapshot of the source taken.
Archive ==
    /\ At("archive") /\ To("build")
    /\ runs' = [runs EXCEPT ![R].before = repo]
    /\ Writes({"self", "tar", "receipt", "capsule", "before"})
    /\ at' = [at EXCEPT ![R] = "partial"] /\ disk' = [disk EXCEPT ![R] = "partial"]
    /\ UNCHANGED <<repo, report, sums, frozen, squat, kept, said, trusted, edits, faults>>

\* A build that fails is recorded and the gate goes on.
Build ==
    /\ At("build") /\ To("test")
    /\ \E argv \in Argvs, links \in Links, flaw \in {"none", "build", "pins"} :
        /\ IF flaw = "none" THEN Works ELSE Fails
        /\ runs' = [runs EXCEPT ![R].argv = argv, ![R].links = links,
                                ![R].built = flaw # "build", ![R].pinned = flaw # "pins"]
    /\ Writes({"build", "compile", "link", "depends"})
    /\ UNCHANGED <<repo, report, sums, frozen, names, kept, said, trusted, edits>>

Test ==
    /\ At("test") /\ To("after")
    /\ \/ Works /\ runs' = [runs EXCEPT ![R].passed = TRUE, ![R].bounded = TRUE]
       \/ Fails /\ \E k \in {"passed", "bounded"} : runs' = [runs EXCEPT ![R][k] = TRUE]
    /\ Writes({"libs", "tests", "inventory", "status", "results"})
    /\ UNCHANGED <<repo, report, sums, frozen, names, kept, said, trusted, edits>>

After ==
    /\ At("after") /\ To("assemble")
    /\ runs' = [runs EXCEPT ![R].after = repo] /\ Writes({"workspace", "after"})
    /\ UNCHANGED <<repo, report, sums, frozen, names, kept, said, trusted, edits, faults>>

\* assemble_unit_report: whatever is wrong is written into the report; an
\* existing report is never overwritten.
Assemble ==
    /\ At("assemble") /\ report[R] = NoReport /\ sums[R] = NoSums /\ To("manifest")
    /\ LET a == art[R]
           ok == /\ Complete(a) /\ Evidence(a, FALSE) /\ LiveSource(a) /\ SourceArchive(a)
                 /\ RetainedOutputs(a)
       IN  report' = [report EXCEPT ![R] =
                        [files |-> a, status |-> IF ok THEN "passed" ELSE "failed"]]
    /\ UNCHANGED <<repo, runs, art, sums, frozen, names, kept, said, trusted, edits, faults>>

\* generate_manifest; the gate keeps the manifest's digest.
GenerateManifest ==
    /\ At("manifest")
    /\ LET m == [files |-> art[R], report |-> report[R]] IN
       /\ sums' = [sums EXCEPT ![R] = m] /\ runs' = [runs EXCEPT ![R].made = m]
       /\ gate' = [gate EXCEPT !.pc = "verify", !.anchor = m, !.begun = TRUE]
    /\ UNCHANGED <<repo, art, report, frozen, names, kept, said, trusted, edits, faults>>

\* atomic_write_bytes that fails: the name is taken back, or the file is there
\* and its durability is not known.
WriteFails ==
    /\ gate.pc \in {"assemble", "manifest"} /\ Fails /\ To("cleanup")
    /\ report' \in {report} \cup
           {[report EXCEPT ![R] = [files |-> art[R], status |-> st]] :
               st \in IF At("assemble") THEN {"failed"} ELSE {}}
    /\ UNCHANGED <<repo, runs, art, sums, frozen, names, kept, said, trusted, edits>>

-----------------------------------------------------------------------------
\* finalize_staging_noreplace

VerifyStaging ==
    /\ At("verify")
    /\ To(IF VerifyUnit(R, NoSums, FALSE) THEN "freeze" ELSE "cleanup")
    /\ UNCHANGED <<repo, runs, dirs, names, kept, said, trusted, edits, faults>>

Freeze ==
    /\ At("freeze") /\ To("verify2") /\ frozen' = [frozen EXCEPT ![R] = TRUE]
    /\ UNCHANGED <<repo, runs, art, report, sums, names, kept, said, trusted, edits, faults>>

\* Mutant: the frozen directory is not verified against the anchor.
VerifyFrozenUnanchored ==
    /\ At("verify2")
    /\ To(IF VerifyUnit(R, NoSums, TRUE) THEN "rename" ELSE "cleanup")
    /\ UNCHANGED <<repo, runs, dirs, names, kept, said, trusted, edits, faults>>

VerifyFrozen ==
    /\ At("verify2")
    /\ To(IF VerifyUnit(R, gate.anchor, TRUE) THEN "rename" ELSE "cleanup")
    /\ UNCHANGED <<repo, runs, dirs, names, kept, said, trusted, edits, faults>>

\* rename_name_noreplace of the held inode.
Rename ==
    /\ At("rename")
    /\ IF squat[R] THEN To("restore") /\ UNCHANGED at
       ELSE To("sync") /\ at' = [at EXCEPT ![R] = "final"]
    /\ UNCHANGED <<repo, runs, dirs, disk, squat, kept, said, trusted, edits, faults>>

\* Mutant: success before the directory is synced.
CommitUnsynced ==
    /\ At("sync") /\ To("commit")
    /\ UNCHANGED <<repo, runs, dirs, names, kept, said, trusted, edits, faults>>

\* The parent directory is synced and both names are looked at once more.
Commit ==
    /\ At("sync") /\ To("commit") /\ disk' = [disk EXCEPT ![R] = at[R]]
    /\ UNCHANGED <<repo, runs, dirs, at, squat, kept, said, trusted, edits, faults>>

\* _restore_exact_publication_name: nothing to do, or renamed back and synced;
\* anything else is indeterminate.
RestoreName ==
    /\ At("restore") /\ To("cleanup")
    /\ \/ Works /\ at' = [at EXCEPT ![R] = "partial"] /\ disk' = [disk EXCEPT ![R] = "partial"]
       \/ Fails /\ at' \in {at, [at EXCEPT ![R] = "partial"]} /\ UNCHANGED disk
    /\ UNCHANGED <<repo, runs, dirs, squat, kept, said, trusted, edits>>

\* An exception inside finalize_staging_noreplace; from the rename on it goes
\* through the restoration of the name.
Interrupt ==
    /\ gate.pc \in {"verify", "freeze", "verify2", "rename", "sync", "commit"} /\ Fails
    /\ To(IF gate.pc \in {"rename", "sync"} THEN "restore" ELSE "cleanup")
    /\ UNCHANGED <<repo, runs, dirs, names, kept, said, trusted, edits>>

\* The gate ends well: the workspace goes.
Succeed ==
    /\ At("commit") /\ gate' = [Idle EXCEPT !.r = R]
    /\ said' = [said EXCEPT ![R] = "passed"] /\ kept' = [kept EXCEPT ![R] = FALSE]
    /\ UNCHANGED <<repo, runs, dirs, names, trusted, edits, faults>>

-----------------------------------------------------------------------------
\* Reconciliation, by the exit trap of the gate or by hand after a kill

\* reconcile_staging_publication on the hidden name only.
ReconcileSource(r, anchor) ==
    /\ at[r] = "partial" /\ ~squat[r] /\ VerifyUnit(r, anchor, TRUE)
    /\ disk' = [disk EXCEPT ![r] = "partial"] /\ UNCHANGED at
    /\ said' = [said EXCEPT ![r] = "staged"]

\* On the final name only: verified, renamed back and synced.
ReconcileDestination(r, anchor) ==
    /\ at[r] = "final" /\ VerifyUnit(r, anchor, TRUE)
    /\ at' = [at EXCEPT ![r] = "partial"] /\ disk' = [disk EXCEPT ![r] = "partial"]
    /\ said' = [said EXCEPT ![r] = "staged"]

ReconcileRefuses(r, anchor) ==
    /\ \/ at[r] = "partial" /\ (squat[r] \/ ~VerifyUnit(r, anchor, TRUE))
       \/ at[r] = "final" /\ ~VerifyUnit(r, anchor, TRUE)
       \/ at[r] = "none"
    /\ said' = [said EXCEPT ![r] = "indeterminate"] /\ UNCHANGED <<at, disk>>

Reconcile(r, anchor) ==
    ReconcileSource(r, anchor) \/ ReconcileDestination(r, anchor) \/ ReconcileRefuses(r, anchor)

\* The exit trap.
Cleanup ==
    /\ At("cleanup") /\ gate' = [Idle EXCEPT !.r = R]
    /\ IF gate.begun THEN Reconcile(R, gate.anchor)
       ELSE said' = [said EXCEPT ![R] = "incomplete"] /\ UNCHANGED <<at, disk>>
    /\ UNCHANGED <<repo, runs, dirs, squat, kept, trusted, edits, faults>>

\* SIGKILL, or the host goes down and with it what was not synced.
Die ==
    /\ ~At("idle") /\ Fails
    /\ \/ UNCHANGED at
       \/ at' = disk
    /\ said' = [said EXCEPT ![R] = IF gate.begun THEN "killed" ELSE "incomplete"]
    /\ gate' = [Idle EXCEPT !.r = R, !.anchor = gate.anchor]
    /\ UNCHANGED <<repo, runs, dirs, disk, squat, kept, trusted, edits>>

\* The host goes down while no gate runs.
PowerLoss ==
    /\ At("idle") /\ at # disk /\ at' = disk
    /\ UNCHANGED <<repo, runs, dirs, disk, squat, kept, gate, said, trusted, edits, faults>>

\* --reconcile-staging-publication with the manifest digest of a killed run.
ReconcileLater ==
    /\ At("idle") /\ R > 0 /\ said[R] = "killed" /\ Reconcile(R, gate.anchor)
    /\ UNCHANGED <<repo, runs, dirs, squat, kept, gate, trusted, edits, faults>>

\* The readiness barrier accepts a published artifact for the commit it holds.
Accept ==
    \E r \in Runs :
        /\ at[r] = "final" /\ VerifyDetached(r, NoSums, repo)
        /\ trusted' = trusted \cup {<<r, repo.head>>}
        /\ UNCHANGED <<repo, runs, dirs, names, kept, gate, said, edits, faults>>

GateNext ==
    \/ Begin \/ Archive \/ Build \/ Test \/ After \/ Assemble \/ GenerateManifest \/ WriteFails
    \/ VerifyStaging \/ Freeze \/ VerifyFrozen \/ Rename \/ Commit \/ RestoreName
    \/ Interrupt \/ Succeed \/ Cleanup

Next ==
    \/ Edit \/ Misplace \/ Squat \/ GateNext \/ Die \/ PowerLoss \/ ReconcileLater \/ Accept

Spec == Init /\ [][Next]_vars

-----------------------------------------------------------------------------
\* What the compiler makes of a command: a relaxed option with no strict one
\* after it, or the macro undefined last.
Relaxed(argv) ==
    \/ \E i \in DOMAIN argv : argv[i] = "relaxed"
                             /\ \A j \in i + 1..Len(argv) : argv[j] # "strict"
    \/ \E i \in DOMAIN argv : argv[i] = "undefine"
                             /\ \A j \in i + 1..Len(argv) : argv[j] # "define"

\* All of a directory is evidence about commit c: snapshots, archive and capsule
\* are of c, and what was compiled, copied and tested comes from one workspace,
\* filled with c and compiled strictly.  The self-test and the link commands
\* are bound to no run.
About(r, c) ==
    LET a == art[r] IN
    /\ Src(a).head = c /\ runs[a["after"]].after.head = c
    /\ \A f \in Files \ {"self", "link", "before", "after"} : runs[a[f]].commit = c
    /\ \A f \in {"build", "compile", "depends", "libs", "tests", "inventory", "status"} :
           a[f] = a["workspace"]
    /\ ~Relaxed(runs[a["compile"]].argv)
    /\ "fault_library" \notin runs[a["link"]].links["production_test"].refs

\* The final name, whatever was edited, misplaced or interrupted on the way,
\* only ever shows a frozen directory, with the files the gate made its manifest
\* of, about one commit and one build; the readiness barrier accepts it for that commit only
\* (finalize_staging_noreplace, verify_unit_report, verify_unit_anchor_prevalidated).
PublishedIsOneRun ==
    /\ \A r \in Runs : at[r] = "final" =>
           /\ frozen[r] /\ runs[r].made = [files |-> art[r], report |-> report[r]]
           /\ \E c \in 1..repo.head : About(r, c)
    /\ \A t \in trusted : About(t[1], t[2])

\* What the gate said of a run survives a power loss: passed means the final
\* name, and staged, after a reconciliation, the hidden one (Commit's fsync,
\* _restore_exact_publication_name, reconcile_staging_publication).
SaidIsDurable ==
    \A r \in Runs :
        /\ said[r] = "passed" => at[r] = "final" /\ disk[r] = "final"
        /\ said[r] = "staged" => at[r] = "partial" /\ disk[r] = "partial" /\ frozen[r]

=============================================================================
