--------------------------- MODULE TimingCampaign ---------------------------
\* One CP2-E timing campaign: run_timing_pair.py applies the host controls, runs
\* every slot through its four phases, restores the host, and assembles,
\* verifies, seals and publishes one artifact (cp2_timing_artifact.py,
\* cp2_timing_publication.py).  The control transaction, the privileged helper
\* and the phase executor are modelled by what the orchestrator asks of them;
\* HostControls and PrivilegedHelper hold their own protocols.
\*
\* A piece of evidence is known by where it comes from, [camp, run]: this
\* campaign or an earlier one, and the run slot.  Campaign-wide evidence has
\* run 0.  At most one piece is stale in a behaviour.
EXTENDS TimingDecision

CONSTANTS Pairs,       \* timing pairs (three in the code)
          MaxFaults,   \* things that may go wrong in one behaviour
          Probes, MedianProbes, PlanProbes   \* inputs of the pure parts

VARIABLES pc,       \* what the orchestrator does next
          at,       \* the next command: 4 * run + phase
          host,     \* "prior", "applied", "drifted"
          latched,  \* the helper's guardian saw the host drift
          tainted,  \* runs during whose estimator command the host had drifted
          ev,       \* evidence collected: name -> origin
          stale,    \* the piece of evidence that is not what it should be
          error,    \* an exception waits for the restore to finish
          dir,      \* the artifact directory: [staging, final, made, sealed, intact]
          outcome,  \* how the orchestration ended
          faults,   \* how many things went wrong
          probe     \* an input of the pure parts, and what they answer

vars == <<pc, at, host, latched, tainted, ev, stale, error, dir, outcome, faults, probe>>
env == <<host, latched, tainted>>

RunIndices == 0..2 * Pairs - 1
Phases == <<"clock_pre", "runtime_preflight", "ros_run", "clock_post">>
PhaseOf(k) == Phases[(k % 4) + 1]
PairOrder == <<<<"nullspace", "schur">>, <<"schur", "nullspace">>, <<"nullspace", "schur">>>>
ModeOf(r) == PairOrder[(r \div 2) + 1][(r % 2) + 1]

\* What each phase of a run hands back, and what the transaction and the helper do.
RunItems == [clock_pre |-> {"clock_pre", "telemetry_pre"},
             runtime_preflight |-> {},
             ros_run |-> {"context", "parameters", "loader_before", "loader_after",
                          "affinity", "observation", "updater", "timing"},
             clock_post |-> {"clock_post", "telemetry_post"}]
RunNames == UNION {RunItems[p] : p \in DOMAIN RunItems}
CampaignNames == {"prior", "applied", "restored", "transcript", "terminal", "guardian", "control"}
Now(r) == [camp |-> "now", run |-> r]
Old(r) == [camp |-> "old", run |-> r]
Absent == [camp |-> "none", run |-> 0]
Names == (RunNames \X RunIndices) \union (CampaignNames \X {0})
\* "traces" is the whole set of traces of one run.
Staleable == ((RunNames \union {"traces"}) \X RunIndices \X ({Old(r) : r \in RunIndices} \union {Now(r) : r \in RunIndices}))
                \union (CampaignNames \X {0} \X {Old(0)})
Fresh == <<"none", 0, Absent>>

\* Which processes share a process ID: an earlier campaign's may come again.
PidOf(o) == o.run
StartOf(o) == o
\* The command interval an instant of the origin lies in; an earlier campaign is
\* before every command.
Instant(o, phase) == IF o.camp = "now" THEN 4 * o.run + phase ELSE -1
\* A context names the run slot, not the campaign (a campaign repeated under the
\* same name writes the same one), and the parameters name only the mode.
Content(name, o) ==
    CASE name = "context" -> [camp |-> "any", run |-> o.run]
      [] name = "parameters" -> [camp |-> "any", run |-> IF ModeOf(o.run) = "schur" THEN 1 ELSE 0]
      [] OTHER -> o

\* What is handed back under a name for a run.
Handed(name, r) ==
    LET group == IF name \in {"updater", "timing"} THEN {name, "traces"} ELSE {name}
    IN  Content(name, IF stale[1] \in group /\ stale[2] = r THEN stale[3] ELSE Now(r))

Empty == [staging |-> "none", final |-> "none", made |-> FALSE, sealed |-> FALSE, intact |-> TRUE]

Fault == faults < MaxFaults /\ faults' = faults + 1
Fine == UNCHANGED faults

-----------------------------------------------------------------------------
\* What the assembler and the detached verifier ask of the evidence e.

\* Control receipts: the host was captured, changed and restored in this order.
Captured(name, o) ==
    LET k == CASE name = "prior" -> 0 [] name = "applied" -> 1 [] name = "restored" -> 2
    IN  IF o.camp = "now" THEN k ELSE k - 3
ControlReceipt(e, name) == e[<<name, 0>>] # Absent
ControlEvidence(e) ==
    /\ \A n \in {"prior", "applied", "restored"} : ControlReceipt(e, n)
    /\ Captured("prior", e[<<"prior", 0>>]) < Captured("applied", e[<<"applied", 0>>])
    /\ Captured("applied", e[<<"applied", 0>>]) < Captured("restored", e[<<"restored", 0>>])

\* A clock snapshot names its slot and the applied receipt, and was taken inside
\* its command.
ClockSnapshot(e, r, name, phase) ==
    LET o == e[<<name, r>>]
    IN  /\ o.run = r
        /\ o.camp = e[<<"applied", 0>>].camp
        /\ Instant(o, phase) = 4 * r + phase
\* Raw telemetry names no slot; its instants and its values tie it down.
RawTelemetry(e, r, name, phase) == Instant(e[<<name, r>>], phase) = 4 * r + phase
TelemetryComparison(e, r) ==
    Instant(e[<<"telemetry_pre", r>>], 0) < Instant(e[<<"telemetry_post", r>>], 3)
ClockMatchesTelemetry(e, r) ==
    /\ e[<<"clock_pre", r>>] = e[<<"telemetry_pre", r>>]
    /\ e[<<"clock_post", r>>] = e[<<"telemetry_post", r>>]

ProcessIdentity(e, r) ==
    /\ e[<<"observation", r>>] = e[<<"loader_before", r>>]
    /\ e[<<"observation", r>>] = e[<<"loader_after", r>>]
    /\ Instant(e[<<"observation", r>>], 2) = 4 * r + 2
FreshProcesses(e, rs) ==
    \A r, s \in rs : r # s => StartOf(e[<<"observation", r>>]) # StartOf(e[<<"observation", s>>])
AffinityAudit(e, r) == PidOf(e[<<"affinity", r>>]) = PidOf(e[<<"observation", r>>])
LoaderMaps(e, r) == e[<<"loader_before", r>>] = e[<<"loader_after", r>>]
RuntimeContext(e, r) ==
    /\ e[<<"context", r>>] = Content("context", Now(r))
    /\ e[<<"parameters", r>>] = Content("parameters", Now(r))
\* The updater and timing rows carry the mode and repeat each other's instants;
\* they do not say which run wrote them.
TraceRows(e, r) ==
    /\ ModeOf(e[<<"updater", r>>].run) = ModeOf(r)
    /\ e[<<"updater", r>>] = e[<<"timing", r>>]

DeriveRunSamples(e, r) ==
    /\ ClockSnapshot(e, r, "clock_pre", 0) /\ ClockSnapshot(e, r, "clock_post", 3)
    /\ TelemetryComparison(e, r) /\ ClockMatchesTelemetry(e, r)
    /\ ProcessIdentity(e, r) /\ AffinityAudit(e, r) /\ LoaderMaps(e, r)
    /\ RuntimeContext(e, r) /\ TraceRows(e, r)

Commands(e) ==
    \A r \in RunIndices : /\ RawTelemetry(e, r, "telemetry_pre", 0)
                          /\ RawTelemetry(e, r, "telemetry_post", 3)

\* The helper's own evidence: one session, whose observations are the telemetry
\* of the runs and whose seals close the two evidence files.
HelperTranscript(e) ==
    /\ e[<<"transcript", 0>>] = e[<<"terminal", 0>>]
    /\ e[<<"transcript", 0>>] # Absent
HelperObservations(e, r) ==
    \A n \in {"telemetry_pre", "telemetry_post"} : e[<<n, r>>].camp = e[<<"transcript", 0>>].camp
HelperGuardian(e) == e[<<"guardian", 0>>] = e[<<"transcript", 0>>]
HelperControl(e) == e[<<"control", 0>>] = e[<<"transcript", 0>>]
HelperEvidence(e) ==
    /\ HelperTranscript(e) /\ HelperGuardian(e) /\ HelperControl(e)
    /\ \A r \in RunIndices : HelperObservations(e, r)

Prepare(e) ==
    /\ ControlEvidence(e)
    /\ \A r \in RunIndices : DeriveRunSamples(e, r)
    /\ FreshProcesses(e, RunIndices)
    /\ Commands(e)
    /\ HelperEvidence(e)

\* verify_timing_artifact: the external manifest digest pins every byte, and all
\* the joins are made again from the files.
VerifyArtifact == dir.intact /\ Prepare(ev)

-----------------------------------------------------------------------------
\* Measuring.

Collect(names, r) ==
    ev' = [n \in Names |-> IF n[1] \in names /\ n[2] = r THEN Handed(n[1], r) ELSE ev[n]]

End(how) == outcome' = how /\ pc' = "done"
\* Mutant: an exception while measuring ends the orchestration at once.
RaisesUnrestored == End("failed") /\ error' = TRUE
\* An exception while the controls are applied waits for the restore.
Raises == pc' = "restore" /\ error' = TRUE /\ UNCHANGED outcome

\* Mutant: that the controls were applied once is enough.
ValidateAppliedOnce == host # "prior"
\* control_transaction.validate_applied
ValidateApplied == host = "applied"

\* apply() either applies, or puts back what it changed and raises.
Apply ==
    /\ pc = "apply"
    /\ \/ host' = "applied" /\ pc' = "receipts" /\ Fine /\ UNCHANGED outcome
       \/ End("failed") /\ Fault /\ UNCHANGED host
    /\ UNCHANGED <<at, latched, tainted, ev, stale, error, dir, probe>>

Receipts ==
    /\ pc = "receipts"
    /\ Collect({"prior", "applied"}, 0)
    /\ IF ValidateApplied THEN pc' = "phase" /\ UNCHANGED <<error, outcome>> ELSE Raises
    /\ Fine /\ UNCHANGED <<at, env, stale, dir, probe>>

PhaseStarts ==
    /\ pc = "phase"
    /\ IF ValidateApplied THEN pc' = "running" /\ UNCHANGED <<error, outcome>> ELSE Raises
    /\ Fine /\ UNCHANGED <<at, env, ev, stale, dir, probe>>

\* The executor returns: a failed, late or leaking command, and controls that no
\* longer hold, are refused; what it brought is kept.
PhaseEnds ==
    /\ pc = "running"
    /\ Collect(RunItems[PhaseOf(at)], at \div 4)
    /\ \/ Fault /\ Raises /\ UNCHANGED at
       \/ Fine /\ ~ValidateApplied /\ Raises /\ UNCHANGED at
       \/ /\ Fine /\ ValidateApplied
          /\ at' = at + 1
          /\ pc' = IF PhaseOf(at) = "clock_post" THEN "run" ELSE "phase"
          /\ UNCHANGED <<error, outcome>>
    /\ UNCHANGED <<env, stale, dir, probe>>

\* The joins made as soon as a run's four phases are there.
RunRetained(r) ==
    /\ Instant(ev[<<"observation", r>>], 2) = 4 * r + 2
    /\ ProcessIdentity(ev, r) /\ FreshProcesses(ev, 0..r)
    /\ AffinityAudit(ev, r)
    /\ TelemetryComparison(ev, r)

RunEnds ==
    /\ pc = "run"
    /\ IF RunRetained((at \div 4) - 1)
       THEN /\ pc' = IF at = 8 * Pairs THEN "restore" ELSE "phase"
            /\ UNCHANGED <<error, outcome>>
       ELSE Raises
    /\ Fine /\ UNCHANGED <<at, env, ev, stale, dir, probe>>

Interrupted ==
    /\ pc \in {"receipts", "phase", "running", "run"}
    /\ Fault /\ Raises
    /\ UNCHANGED <<at, env, ev, stale, dir, probe>>

\* restore() and the proofs asked of it: receipts in order and unchanged, and a
\* helper terminal that says success, or, after an exception, says why not.
HelperClosed(told) == IF error THEN told ELSE ~latched
Restore ==
    /\ pc = "restore"
    /\ \/ Fault /\ End("indeterminate") /\ UNCHANGED <<host, ev>>
       \/ /\ Fine
          /\ host' = "prior"
          /\ ev' = [n \in Names |->
                      IF n[1] \in CampaignNames \ {"prior", "applied"} THEN Handed(n[1], 0) ELSE ev[n]]
          /\ \E told \in BOOLEAN :
                IF ~ControlEvidence(ev') \/ ~HelperClosed(told) THEN End("indeterminate")
                ELSE IF error THEN End("failed")
                ELSE pc' = "create" /\ UNCHANGED outcome
    /\ UNCHANGED <<at, latched, tainted, stale, error, dir, probe>>

-----------------------------------------------------------------------------
\* Publishing.  error here says whether the exception under way already is an
\* indeterminate one.

Goes(step) == pc' = step /\ UNCHANGED <<outcome, error>>
Aside == UNCHANGED <<at, env, ev, stale, probe>>

CreateStaging ==
    /\ pc = "create"
    /\ \/ dir.staging # "none" /\ Fine /\ End("failed") /\ UNCHANGED <<dir, error>>
       \/ dir.staging = "none" /\ dir' = [dir EXCEPT !.staging = "ours"]
          /\ \/ Fine /\ Goes("assemble")
             \/ Fault /\ End("failed") /\ UNCHANGED error
    /\ Aside

Assemble ==
    /\ pc = "assemble"
    /\ \/ Fine /\ Prepare(ev) /\ dir' = [dir EXCEPT !.made = TRUE] /\ Goes("verify")
       \/ Fine /\ ~Prepare(ev) /\ Goes("cleanup") /\ UNCHANGED dir
       \/ Fault /\ Goes("cleanup") /\ UNCHANGED dir
    /\ Aside

VerifyStaging ==
    /\ pc = "verify"
    /\ Goes(IF VerifyArtifact /\ dir.staging = "ours" THEN "seal" ELSE "cleanup")
    /\ Fine /\ UNCHANGED dir /\ Aside

Seal ==
    /\ pc = "seal"
    /\ \/ /\ Fine /\ dir.staging = "ours"
          /\ dir' = [dir EXCEPT !.sealed = TRUE] /\ Goes("check")
       \/ Fine /\ dir.staging # "ours" /\ Goes("cleanup") /\ UNCHANGED dir
       \/ Fault /\ Goes("cleanup") /\ UNCHANGED dir
    /\ Aside

\* Everything before the rename raises straight to the caller's cleanup.
CheckPublication ==
    /\ pc = "check"
    /\ \/ Fine /\ Goes(IF dir.staging = "ours" /\ dir.final = "none" THEN "rename" ELSE "cleanup")
       \/ Fault /\ Goes("cleanup")
    /\ UNCHANGED dir /\ Aside

\* renameat2 with RENAME_NOREPLACE moves whatever has the staging name.
Rename ==
    /\ pc = "rename"
    /\ \/ /\ Fine /\ dir.staging # "none" /\ dir.final = "none"
          /\ dir' = [dir EXCEPT !.final = dir.staging, !.staging = "none"]
          /\ Goes("sync")
       \/ Fine /\ (dir.staging = "none" \/ dir.final # "none") /\ Goes("undo") /\ UNCHANGED dir
       \/ Fault /\ Goes("undo") /\ UNCHANGED dir
    /\ Aside

SyncParent ==
    /\ pc = "sync"
    /\ (Fine /\ Goes("validate1")) \/ (Fault /\ Goes("undo"))
    /\ UNCHANGED dir /\ Aside

\* _location of the held inode.
Location ==
    CASE dir.staging = "ours" /\ dir.final = "none" -> "partial"
      [] dir.final = "ours" /\ dir.staging = "none" -> "final"
      [] dir.staging = "ours" /\ dir.final # "none" -> "collision"
      [] OTHER -> "irreconcilable"

\* The published name is looked up, the detached verifier runs on it, and the
\* name is looked up again; then all of it once more at the return boundary.
Validate(step, next) ==
    /\ pc = step
    /\ \/ /\ Fine
          /\ IF Location # "final" THEN pc' = "undo" /\ error' = TRUE /\ UNCHANGED outcome
             ELSE Goes(IF VerifyArtifact /\ dir.sealed THEN next ELSE "undo")
       \/ Fault /\ Goes("undo")
    /\ UNCHANGED dir /\ Aside
ValidateOnce == Validate("validate1", "validate2")
ValidateAgain == Validate("validate2", "return")

\* Nothing is looked at after the last lookup.
Return ==
    /\ pc = "return"
    /\ IF Location = "final" THEN End("returned") /\ UNCHANGED error
       ELSE pc' = "undo" /\ error' = TRUE /\ UNCHANGED outcome
    /\ Fine /\ UNCHANGED dir /\ Aside

\* The exception handler of publish_artifact_noreplace.
Undo ==
    /\ pc = "undo"
    /\ CASE Location \in {"collision", "partial"} ->
                (IF error THEN End("indeterminate") ELSE Goes("cleanup"))
                    /\ Fine /\ UNCHANGED <<dir, error>>
         [] Location = "final" ->
                \/ /\ Fine /\ UNCHANGED error
                   /\ dir' = [dir EXCEPT !.staging = "ours", !.final = "none"]
                   /\ IF error THEN End("indeterminate") ELSE pc' = "cleanup" /\ UNCHANGED outcome
                \/ \* the rename back or its fsync fails
                   /\ Fault /\ End("indeterminate") /\ UNCHANGED error
                   /\ \/ dir' = [dir EXCEPT !.staging = "ours", !.final = "none"]
                      \/ UNCHANGED dir
         [] OTHER -> End("indeterminate") /\ Fine /\ UNCHANGED <<dir, error>>
    /\ Aside

\* cleanup_unpublished_artifact removes only the caller's own inode.
Cleanup ==
    /\ pc = "cleanup"
    /\ \/ /\ Fine /\ dir.staging = "ours"
          /\ dir' = [dir EXCEPT !.staging = "none"] /\ End("failed")
       \/ Fine /\ dir.staging # "ours" /\ End("indeterminate") /\ UNCHANGED dir
       \/ Fault /\ End("indeterminate") /\ UNCHANGED dir
    /\ UNCHANGED error /\ Aside

InterruptedPublishing ==
    /\ pc \in {"assemble", "verify", "seal", "check", "sync", "return"}
    /\ Fault /\ Goes(IF pc \in {"sync", "return"} THEN "undo" ELSE "cleanup")
    /\ UNCHANGED dir /\ Aside

-----------------------------------------------------------------------------
\* The rest of the host.

\* A control moves away from its applied value and stays there.
Drift ==
    /\ host = "applied" /\ pc \in {"receipts", "phase", "running", "run", "restore"} /\ Fault
    /\ host' = "drifted"
    /\ tainted' = IF pc = "running" /\ PhaseOf(at) = "ros_run" THEN tainted \union {at \div 4} ELSE tainted
    /\ UNCHANGED <<pc, at, latched, ev, stale, error, dir, outcome, probe>>

\* The helper's guardian observes the host at its own pace.
GuardianPolls ==
    /\ host = "drifted" /\ ~latched
    /\ latched' = TRUE
    /\ UNCHANGED <<pc, at, host, tainted, ev, stale, error, dir, outcome, faults, probe>>

\* Another process takes a name, or takes ours away from one.
Others ==
    /\ pc \notin {"done", "decide"} /\ Fault
    /\ \/ dir.final = "none" /\ dir' = [dir EXCEPT !.final = "other"]
       \/ dir.staging = "none" /\ dir' = [dir EXCEPT !.staging = "other"]
       \/ dir.staging = "ours" /\ dir' = [dir EXCEPT !.staging = "other"]
       \/ dir.final = "ours" /\ dir' = [dir EXCEPT !.final = "other"]
    /\ UNCHANGED <<pc, at, env, ev, stale, error, outcome, probe>>

\* A file of the artifact changes before the last verification of it.
Edit ==
    /\ dir.made /\ dir.intact /\ pc \notin {"done", "return"} /\ Fault
    /\ dir' = [dir EXCEPT !.intact = FALSE]
    /\ UNCHANGED <<pc, at, env, ev, stale, error, outcome, probe>>

Kill ==
    /\ pc \notin {"done", "decide"} /\ Fault
    /\ End("killed")
    /\ UNCHANGED <<at, env, ev, stale, error, dir, probe>>

-----------------------------------------------------------------------------
\* The pure parts, on an input of their own.

NoProbe == [of |-> "none"]
Decide ==
    /\ pc = "decide"
    /\ pc' = "done"
    /\ probe' =
         CASE probe.of = "pair" ->
                [of |-> "pair", in |-> probe.in, modes |-> probe.modes,
                 out |-> PairResult(probe.in.left, probe.in.right, probe.modes, probe.in.boundary)]
           [] probe.of = "median" ->
                [of |-> "median", in |-> probe.in, out |-> MedianOfThreeRatios(probe.in)]
           [] probe.of = "plan" ->
                [of |-> "plan", in |-> probe.in, out |-> ProfileLoads(probe.in)]
    /\ UNCHANGED <<at, env, ev, stale, error, dir, outcome, faults>>

Init ==
    /\ at = 0 /\ host = "prior" /\ latched = FALSE /\ tainted = {}
    /\ ev = [n \in Names |-> Absent]
    /\ error = FALSE /\ dir = Empty /\ outcome = "running"
    /\ \/ pc = "apply" /\ faults = 0 /\ stale = Fresh /\ probe = NoProbe
       \/ pc = "apply" /\ faults = 1 /\ stale \in Staleable /\ probe = NoProbe
       \/ /\ pc = "decide" /\ faults = MaxFaults /\ stale = Fresh
          /\ \/ \E p \in Probes, m \in {PairOrder[1], PairOrder[2]} :
                    probe = [of |-> "pair", in |-> p, modes |-> m]
             \/ \E m \in MedianProbes : probe = [of |-> "median", in |-> m]
             \/ \E p \in PlanProbes : probe = [of |-> "plan", in |-> p]

Next ==
    \/ Apply \/ Receipts \/ PhaseStarts \/ PhaseEnds \/ RunEnds \/ Interrupted \/ Restore
    \/ CreateStaging \/ Assemble \/ VerifyStaging \/ Seal \/ CheckPublication \/ Rename \/ SyncParent
    \/ ValidateOnce \/ ValidateAgain \/ Return \/ Undo \/ Cleanup \/ InterruptedPublishing
    \/ Drift \/ GuardianPolls \/ Others \/ Edit \/ Kill \/ Decide

Spec == Init /\ [][Next]_vars

-----------------------------------------------------------------------------
\* Every run's clock, telemetry, process and loader evidence is its own.
OwnEvidence ==
    \A r \in RunIndices :
        /\ \A n \in {"clock_pre", "clock_post", "telemetry_pre", "telemetry_post",
                     "observation", "loader_before", "loader_after"} : ev[<<n, r>>] = Now(r)
        /\ ev[<<"context", r>>].run = r
        /\ PidOf(ev[<<"affinity", r>>]) = PidOf(Now(r))
        /\ ev[<<"updater", r>>] = ev[<<"timing", r>>]
        /\ ModeOf(ev[<<"timing", r>>].run) = ModeOf(r)

\* What carries the destination name is one campaign measured on a held host:
\* sealed, its runs' evidence their own, its control and helper evidence of this
\* campaign, no control off its value while an estimator ran, and the host put
\* back first; and what the caller is told was published still verifies
\* (run_timing_pair.py 1196-1581, cp2_timing_artifact.py 4172-4678).
MeasuredIsHeld ==
    /\ dir.final = "ours" =>
        /\ dir.sealed /\ host = "prior" /\ tainted = {}
        /\ OwnEvidence
        /\ \A n \in CampaignNames \ {"prior"} : ev[<<n, 0>>] = Now(0)
    /\ outcome = "returned" => dir.final = "ours" /\ dir.staging = "none" /\ dir.intact

\* An orchestration that ends with an ordinary exception has put the host back
\* and left no artifact of its own under either name; all else is reported as
\* indeterminate.  A staging directory whose creation itself failed may stay,
\* empty (run_timing_pair.py 1377-1444, 1564-1581).
FailureIsClean ==
    outcome = "failed" =>
        /\ host = "prior"
        /\ dir.final # "ours"
        /\ dir.staging = "ours" => ~dir.made

\* The decision on a pair is the exact one for the samples both modes measured
\* after warm-up, whatever their order, and the reported ratio is the median of
\* three (cp2_timing_math.py 557-943, cp2_timing_artifact.py 4009-4038).
DecisionIsExact ==
    pc = "done" =>
        /\ probe.of = "pair" =>
              ExactPair(probe.in.left, probe.in.right, probe.modes, probe.in.boundary, probe.out)
        /\ probe.of = "median" => IsMedian(probe.out, probe.in)

\* A profile that loads leaves the estimator's physical core to the estimator
\* (cp2_timing_profile.py 578-1001).
PlanIsolates == (pc = "done" /\ probe.of = "plan") => (probe.out => Isolates(probe.in))
=============================================================================
