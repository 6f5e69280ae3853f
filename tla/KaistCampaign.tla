--------------------------- MODULE KaistCampaign ---------------------------
\* One KAIST-VIO campaign (kaist_vio_campaign.py run_campaign) and the report
\* made of it later (kaist_vio_reports.py _validate_campaign).  The campaign
\* binds its inputs, adapts the bag, launches the estimator, validates what it
\* wrote, evaluates it, compares its inputs again and writes one result.
\*
\* A file is "none", "good" (the frozen bytes, or the bytes its producer wrote)
\* or "bad" (other bytes).  The estimator's telemetry log and its trajectory
\* rows are kept by content.
EXTENDS T0Log

CONSTANTS Callbacks,   \* callbacks of the estimator's run
          Jobs,        \* [prepare, provenance, capture, flags, expected]: the arguments;
                       \* expected: the build is of the source the caller names
          LogProbes,   \* [flags, left]: logs, damaged up to left times, and
          RowProbes,   \* [rows, queries]: the inputs of the pure parts
          MaxFaults

VARIABLES pc,       \* the next stage of run_campaign
          job,      \* its arguments
          file,     \* what is on disk
          seen,     \* the identities the manifest records
          after,    \* the adapted bag's identity recorded at the end
          used,     \* what the estimator and the evaluation read
          log,      \* the telemetry log the estimator published
          rows,     \* [state, deviation, timing]: stamps the estimator wrote
          counts,   \* the summaries the estimator printed
          bound,    \* the summaries the manifest records
          result,   \* sequence_result.json: its status
          outcome,  \* how run_campaign ended
          report,   \* what the report says of it
          faults, probe

vars == <<pc, job, file, seen, after, used, log, rows, counts, bound, result, outcome, report, faults, probe>>

Frozen == {"source", "config"}
Bound == {"binary", "library", "cache"}   \* what the build manifest names
Fixed == Frozen \union Bound \union {"tools"}
ReadByEstimator == {"adapted", "config", "binary", "library"}
Files == Fixed \union {"adapted", "reference", "tree", "state", "trajectory", "raw", "archive", "metrics"}

Pairs == 4                 \* exact-header stereo pairs of the adapted bag's audit
NoCounts == [lines |-> 0, pairs |-> 0, queued |-> 0, thinned |-> 0, processed |-> 0, pending |-> 0, decode |-> 0]

Fault == faults < MaxFaults /\ faults' = faults + 1
Fine == UNCHANGED faults

-----------------------------------------------------------------------------
\* What the estimator writes for callback k of run u: two cameras, two attempts,
\* three candidates in two groups, and, when asked, the event extension.
Stamp(k) == 10 * (k + 1)
WrittenInterval(k) ==
    LET knots == IF k = 0 THEN <<>>
                 ELSE <<Stamp(k - 1) + ClockOffset, Stamp(k) - 4, Stamp(k) + ClockOffset>>
        raw == [i \in 1..Len(knots) |-> 5 + i + k]
    IN  [id |-> k, callback |-> k, cameras |-> CameraIds, available |-> k > 0,
         previous |-> Stamp(k - 1), current |-> Stamp(k), start |-> Stamp(k - 1), end |-> Stamp(k),
         startImu |-> Stamp(k - 1) + ClockOffset, endImu |-> Stamp(k) + ClockOffset,
         knots |-> knots, raw |-> raw, corrected |-> [i \in 1..Len(raw) |-> raw[i] - Bias]]
Available(v) == [status |-> "AVAILABLE", reason |-> "NONE", value |-> v]
WrittenLine(u, k) ==
    [of |-> [run |-> u, callback |-> k], torn |-> FALSE, flaws |-> {},
     index |-> k, stamp |-> Stamp(k), key |-> Stamp(k),
     cameras |-> CameraIds, frames |-> [c \in 1..Len(CameraIds) |-> k],
     observations |-> <<[stamp |-> Stamp(k), key |-> Stamp(k)]>>, attempts |-> <<0, 1>>, commit |-> [mean |-> 1, covariance |-> 1, finalized |-> 1],
     candidates |-> <<11, 12, 21>>,
     groups |-> <<[pair |-> 1, members |-> <<11, 12>>], [pair |-> 2, members |-> <<21>>]>>,
     interval |-> WrittenInterval(k), coverage |-> Available(1), motion |-> Available(k),
     assoc |-> [callback |-> k, run |-> u, stamp |-> Stamp(k), accepted |-> Available(1),
                state |-> Stamp(k), deviation |-> Stamp(k), pose |-> Stamp(k)],
     provenance |-> <<[pair |-> 1, keys |-> <<11, 12>>, members |-> <<11, 12>>]>>]
WrittenLog(u, flags) ==
    [header |-> [shaped |-> TRUE, run |-> u, supported |-> TRUE, flags |-> flags],
     lines |-> [k \in 1..Callbacks |-> WrittenLine(u, k - 1)]]
NoLog == [header |-> [shaped |-> FALSE, run |-> "none", supported |-> FALSE, flags |-> {}],
          lines |-> <<>>]

\* What may be wrong with a line: a section flawed or of another callback, an
\* element too few, too many or out of order, a value that does not agree.
Sections == {"forbidden_key", "number", "callback", "frontend", "observations", "stages", "outcome",
             "baseline", "candidates", "groups", "funnel", "summary", "extension", "interval",
             "support", "motion", "association", "rows", "label", "provenance", "calibration", "vectors"}
DamagedLine(r, s) ==
    {[r EXCEPT !.flaws = {x}] : x \in Sections}
    \union {[r EXCEPT !.interval = s.interval], [r EXCEPT !.assoc = s.assoc],
            [r EXCEPT !.frames = s.frames], [r EXCEPT !.key = s.key], [r EXCEPT !.torn = TRUE],
            [r EXCEPT !.cameras = Reverse(r.cameras)], [r EXCEPT !.attempts = <<0, 0>>],
            [r EXCEPT !.commit.mean = 2], [r EXCEPT !.commit.covariance = 0],
            [r EXCEPT !.candidates = <<11, 21, 12>>], [r EXCEPT !.candidates = <<11, 12>>],
            [r EXCEPT !.groups[2].members = <<12>>], [r EXCEPT !.groups = Reverse(r.groups)],
            [r EXCEPT !.observations[1].key = s.stamp],
            [r EXCEPT !.coverage.value = 2], [r EXCEPT !.coverage.value = Absent],
            [r EXCEPT !.motion.status = "NOT_AVAILABLE"], [r EXCEPT !.assoc.accepted.reason = "MISSING"],
            [r EXCEPT !.interval.current = s.stamp], [r EXCEPT !.interval.startImu = s.stamp],
            [r EXCEPT !.interval.previous = r.stamp],
            [r EXCEPT !.interval.available = FALSE],
            [r EXCEPT !.interval.knots = <<>>, !.interval.raw = <<>>, !.interval.corrected = <<>>],
            [r EXCEPT !.interval.knots = Reverse(r.interval.knots)],
            [r EXCEPT !.interval.corrected = r.interval.raw],
            [r EXCEPT !.assoc.pose = r.stamp + 1], [r EXCEPT !.assoc.run = "other"],
            [r EXCEPT !.provenance[1].keys = <<12, 11>>],
            [r EXCEPT !.provenance[1].members = <<11, 21>>]}
DamagedLog(l) ==
    LET n == Len(l.lines)
        lines(f) == [l EXCEPT !.lines = f]
    IN  UNION {{lines([l.lines EXCEPT ![k] = d]) : d \in DamagedLine(l.lines[k], l.lines[(k % n) + 1])} :
                  k \in 1..n}
        \union {lines(RemoveAt(l.lines, k)) : k \in 1..n}
        \union {lines(InsertAt(l.lines, k, l.lines[k])) : k \in 1..n}
        \union {lines([l.lines EXCEPT ![k] = WrittenLine("other", k - 1)]) : k \in 1..n}
        \union {lines(Reverse(l.lines)), WrittenLog("other", l.header.flags),
                [l EXCEPT !.header.supported = FALSE], [l EXCEPT !.header.flags = {}]}

\* The rows of the three numeric outputs; a row may be lost, doubled or moved.
GoodRows == LET t == [k \in 1..Callbacks |-> Stamp(k - 1)]
            IN  [state |-> t, deviation |-> t, timing |-> t]
DamagedRows ==
    {[GoodRows EXCEPT ![n] = t] :
        n \in DOMAIN GoodRows,
        t \in {<<>>, Reverse(GoodRows.state), Tail(GoodRows.state), <<Stamp(0)>> \o GoodRows.state,
               [k \in 1..Callbacks |-> Stamp(k - 1) + 5]}}

\* The summaries: two of the pairs are processed, two thinned; a line may be
\* lost or doubled and a pair may get lost on the way.
GoodCounts == [lines |-> 1, pairs |-> Pairs, queued |-> 2, thinned |-> 2, processed |-> 2, pending |-> 0, decode |-> 0]
DamagedCounts ==
    {[GoodCounts EXCEPT !.lines = n] : n \in {0, 2}}
    \union {[GoodCounts EXCEPT !.pairs = 3, !.queued = 1, !.processed = 1], [GoodCounts EXCEPT !.queued = 1, !.processed = 1],
            [GoodCounts EXCEPT !.processed = 1, !.pending = 1], [GoodCounts EXCEPT !.processed = 1],
            [GoodCounts EXCEPT !.pending = 1], [GoodCounts EXCEPT !.decode = 1]}

-----------------------------------------------------------------------------
\* The campaign's stages.

Stays == UNCHANGED <<job, report, probe>>
Goes(step) == pc' = step /\ UNCHANGED <<outcome, result>>

\* The exception handler: a terminal status is written unless a result is there.
Fails(status) ==
    /\ pc' = "done" /\ outcome' = "raised"
    /\ result' = IF result = "none" THEN status ELSE result

\* run_command, judged by _command_succeeded: it succeeds, or exits otherwise,
\* is signalled, or leaves a process behind.
Command(next) == (Fine /\ Goes(next)) \/ (Fault /\ Fails("FAILED"))

\* Arguments, paths, and the build manifest: a refusal leaves no directory.
Paths == \A f \in {"source", "config", "binary"} : file[f] # "none"
CacheBinding == file["cache"] = "good"
BuildManifest == CacheBinding /\ file["binary"] = "good" /\ file["library"] = "good"
CallerExpectations == job.expected
Arguments ==
    /\ job.flags # {} => job.capture
    /\ job.capture => job.provenance
ValidatePaths ==
    /\ pc = "paths"
    /\ IF Paths /\ Arguments /\ (job.provenance => BuildManifest /\ CallerExpectations) THEN Goes("bind")
       ELSE pc' = "done" /\ outcome' = "refused" /\ UNCHANGED result
    /\ Fine /\ Stays /\ UNCHANGED <<file, seen, after, used, log, rows, counts, bound>>

\* Identities of every fixed input (the libraries and the build cache where
\* provenance is asked for), all of which must be there; the frozen ones must be the frozen bytes.
FixedInputs == IF job.provenance THEN Fixed ELSE Fixed \ {"library", "cache"}
FrozenIdentity(f) == file[f] = "good"
BindInputs ==
    /\ pc = "bind"
    /\ seen' = [f \in Files |-> IF f \in FixedInputs THEN file[f] ELSE seen[f]]
    /\ IF /\ \A f \in FixedInputs : file[f] # "none"
          /\ \A f \in Frozen : FrozenIdentity(f)
          /\ file["adapted"] # "none" => FrozenIdentity("adapted")
       THEN Goes(IF job.provenance THEN "snapshot" ELSE "adapt") ELSE Fails("FAILED")
    /\ Fine /\ Stays /\ UNCHANGED <<file, after, used, log, rows, counts, bound>>

SnapshotBefore ==
    /\ pc = "snapshot"
    /\ IF file["tree"] = "good" THEN Command("adapt") ELSE Fine /\ Fails("FAILED")
    /\ seen' = [seen EXCEPT !["tree"] = file["tree"]]
    /\ Stays /\ UNCHANGED <<file, after, used, log, rows, counts, bound>>

\* adapt_bag writes a temporary file and links it to a name nobody has; a bag
\* that is there already is audited instead.
AdaptBag ==
    /\ pc = "adapt"
    /\ \/ /\ file["adapted"] = "none" /\ Fine
          /\ file' = [file EXCEPT !["adapted"] = file["source"]]
          /\ Goes("adapted")
       \/ file["adapted"] # "none" /\ Fine /\ UNCHANGED file /\ Goes("adapted")
       \/ Fault /\ Fails("FAILED") /\ UNCHANGED file
    /\ Stays /\ UNCHANGED <<seen, after, used, log, rows, counts, bound>>
BindAdapted ==
    /\ pc = "adapted"
    /\ seen' = [seen EXCEPT !["adapted"] = file["adapted"]]
    /\ IF ~FrozenIdentity("adapted") THEN Fine /\ Fails("FAILED")
       ELSE Command(IF job.prepare THEN "source_after" ELSE "preflight")
    /\ Stays /\ UNCHANGED <<file, after, used, log, rows, counts, bound>>

\* The resolved parameters, the binary and its libraries are where they should be.
Preflight ==
    /\ pc = "preflight" /\ Command("launch")
    /\ Stays /\ UNCHANGED <<file, seen, after, used, log, rows, counts, bound>>

Launch ==
    /\ pc = "launch" /\ Goes("running")
    /\ used' = [f \in Files |-> IF f \in ReadByEstimator THEN file[f] ELSE used[f]]
    /\ Fine /\ Stays /\ UNCHANGED <<file, seen, after, log, rows, counts, bound>>

\* roslaunch ends: well, in time but badly, or too late.
EstimatorEnds ==
    /\ pc = "running"
    /\ \/ /\ Goes("summaries")
          /\ file' = [file EXCEPT !["state"] = "good", !["raw"] = IF job.capture THEN "good" ELSE "none"]
          /\ LET good == IF job.capture THEN WrittenLog("this", job.flags) ELSE NoLog
             IN  \/ Fine /\ log' = good /\ rows' = GoodRows /\ counts' = GoodCounts
                 \/ Fault /\ job.capture /\ log' \in DamagedLog(good) /\ rows' = GoodRows /\ counts' = GoodCounts
                 \/ Fault /\ log' = good /\ rows' \in DamagedRows /\ counts' = GoodCounts
                 \/ Fault /\ log' = good /\ rows' = GoodRows /\ counts' \in DamagedCounts
       \/ Fault /\ Fails("FAILED") /\ UNCHANGED <<file, log, rows, counts>>
       \/ Fault /\ Fails("TIMED_OUT") /\ UNCHANGED <<file, log, rows, counts>>
    /\ Stays /\ UNCHANGED <<seen, after, used, bound>>

\* One exact-header and one enqueue line, equal to the adapted bag's audit: no
\* pair is lost between the bag, the queue and the estimator.
ExactHeaderSummary(c) == c.lines = 1 /\ c.pairs = Pairs
EnqueueSummary(c, pairs) ==
    /\ c.lines = 1
    /\ c.queued + c.thinned = pairs
    /\ c.decode = 0 /\ c.processed = c.queued /\ c.pending = 0
BindSummaries ==
    /\ pc = "summaries"
    /\ IF ExactHeaderSummary(counts) /\ EnqueueSummary(counts, counts.pairs)
       THEN bound' = counts /\ Goes("telemetry")
       ELSE UNCHANGED bound /\ Fails("FAILED")
    /\ Fine /\ Stays /\ UNCHANGED <<file, seen, after, used, log, rows, counts>>

ValidateTelemetry ==
    /\ pc = "telemetry"
    /\ IF job.capture => ValidateT0(log, "this", job.flags) THEN Goes("reference") ELSE Fails("FAILED")
    /\ seen' = [seen EXCEPT !["raw"] = file["raw"]]
    /\ Fine /\ Stays /\ UNCHANGED <<file, after, used, log, rows, counts, bound>>

\* Only now the reference is opened; it and the outputs are numeric tables with
\* strictly increasing stamps.
NumericTable(t) == t # <<>> /\ StrictlySorted(t)
BindReference ==
    /\ pc = "reference"
    /\ seen' = [seen EXCEPT !["reference"] = file["reference"], !["state"] = file["state"]]
    /\ IF /\ file["reference"] = "good"
          /\ \A n \in DOMAIN rows : NumericTable(rows[n])
       THEN Goes("convert") ELSE Fails("FAILED")
    /\ Fine /\ Stays /\ UNCHANGED <<file, after, used, log, rows, counts, bound>>

\* The trajectory is made from the state file, and the four files agree.
OutputConsistency ==
    /\ rows.state = rows.deviation
    /\ Len(rows.timing) = Len(rows.state)
    /\ \A k \in 1..Len(rows.state) : rows.timing[k] = rows.state[k]
Convert ==
    /\ pc = "convert"
    /\ file' = [file EXCEPT !["trajectory"] = file["state"]]
    /\ seen' = [seen EXCEPT !["trajectory"] = file["state"]]
    /\ IF OutputConsistency THEN Command(IF job.provenance THEN "digest" ELSE "associate")
       ELSE Fine /\ Fails("FAILED")
    /\ Stays /\ UNCHANGED <<after, used, log, rows, counts, bound>>

StableDigest ==
    /\ pc = "digest" /\ Command("associate")
    /\ Stays /\ UNCHANGED <<file, seen, after, used, log, rows, counts, bound>>

\* The association tool reads the log again; its own checks may refuse it.
AssociateOutputs ==
    /\ pc = "associate"
    /\ IF "associations" \notin job.flags THEN Fine /\ Goes("evaluate")
       ELSE IF ReadCallbacks(log, job.flags) THEN Command("evaluate")
       ELSE Fine /\ Fails("FAILED")
    /\ Stays /\ UNCHANGED <<file, seen, after, used, log, rows, counts, bound>>

Evaluate ==
    /\ pc = "evaluate"
    /\ used' = [used EXCEPT !["trajectory"] = file["trajectory"], !["reference"] = file["reference"]]
    /\ file' = [file EXCEPT !["metrics"] = "good"]
    /\ seen' = [seen EXCEPT !["metrics"] = "good"]
    /\ Command(IF job.flags # {} THEN "compress" ELSE "checks")
    /\ Stays /\ UNCHANGED <<after, log, rows, counts, bound>>

\* The raw log is identified and compressed; it goes only once the archive has
\* been read back with that identity.
Compress ==
    /\ pc = "compress"
    /\ seen' = [seen EXCEPT !["archive"] = file["raw"]]
    /\ \/ Fine /\ Goes("roundtrip") /\ file' = [file EXCEPT !["archive"] = file["raw"]]
       \/ Fault /\ Goes("roundtrip") /\ file' = [file EXCEPT !["archive"] = "bad"]
       \/ Fault /\ Fails("FAILED") /\ UNCHANGED file
    /\ Stays /\ UNCHANGED <<after, used, log, rows, counts, bound>>
RoundTrip ==
    /\ pc = "roundtrip"
    /\ IF file["archive"] = seen["archive"]
       THEN Goes("archived") /\ file' = [file EXCEPT !["raw"] = "none"]
       ELSE Fails("FAILED") /\ UNCHANGED file
    /\ Fine /\ Stays /\ UNCHANGED <<seen, after, used, log, rows, counts, bound>>
CompareArchive ==
    /\ pc = "archived"
    /\ IF seen["archive"] = seen["raw"] THEN Goes("checks") ELSE Fails("FAILED")
    /\ Fine /\ Stays /\ UNCHANGED <<file, seen, after, used, log, rows, counts, bound>>

\* Every check of the manifest: resets, nonfinite values and warnings included.
Checks ==
    /\ pc = "checks" /\ Command("source_after")
    /\ Stays /\ UNCHANGED <<file, seen, after, used, log, rows, counts, bound>>

SnapshotAfter ==
    /\ pc = "source_after"
    /\ IF ~job.provenance THEN Fine /\ Goes("inputs_after")
       ELSE IF file["tree"] = seen["tree"] THEN Command("inputs_after")
       ELSE Fine /\ Fails("FAILED")
    /\ Stays /\ UNCHANGED <<file, seen, after, used, log, rows, counts, bound>>

\* The inputs are compared under the names recorded before; the adapted bag is
\* not one of them, its identity is only recorded.  A preparation compares none.
InputsUnchanged ==
    \A f \in Fixed \union {"reference"} : seen[f] # "none" => seen[f] = file[f]
InputsAfter ==
    /\ pc = "inputs_after"
    /\ after' = file["adapted"]
    /\ IF job.prepare \/ InputsUnchanged THEN Goes("commit") ELSE Fails("FAILED")
    /\ Fine /\ Stays /\ UNCHANGED <<file, seen, used, log, rows, counts, bound>>

\* _atomic_write_new_json: a temporary file renamed over the name.
Commit ==
    /\ pc = "commit"
    /\ \/ /\ Fine /\ UNCHANGED outcome
          /\ result' = IF job.prepare THEN "PREPARED" ELSE "COMPLETED"
          /\ pc' = "return"
       \/ Fault /\ Fails("FAILED")
    /\ Stays /\ UNCHANGED <<file, seen, after, used, log, rows, counts, bound>>
Return ==
    /\ pc = "return" /\ pc' = "done" /\ outcome' = "returned"
    /\ Fine /\ Stays /\ UNCHANGED <<file, seen, after, used, log, rows, counts, bound, result>>

Interrupt ==
    /\ pc \notin {"paths", "done", "decide"}
    /\ Fault /\ Fails("FAILED")
    /\ Stays /\ UNCHANGED <<file, seen, after, used, log, rows, counts, bound>>
Kill ==
    /\ pc \notin {"done", "decide"} /\ Fault
    /\ pc' = "done" /\ outcome' = "killed"
    /\ Stays /\ UNCHANGED <<file, seen, after, used, log, rows, counts, bound, result>>

-----------------------------------------------------------------------------
\* The rest of the host.

\* Bytes change; an estimator that is running may read the new ones.  (What its
\* outputs hold before they are first read is EstimatorEnds' choice.)
Edit(f) ==
    /\ outcome = "running" /\ pc # "decide" /\ file[f] = "good" /\ Fault
    /\ f \in {"state", "raw"} => seen[f] # "none"
    /\ file' = [file EXCEPT ![f] = "bad"]
    /\ used' = IF pc = "running" /\ f \in ReadByEstimator THEN [used EXCEPT ![f] = "bad"] ELSE used
    /\ Stays /\ UNCHANGED <<pc, seen, after, log, rows, counts, bound, result, outcome>>

\* Before the report is made, the adapted bag is adapted again.
AdaptedAgain ==
    /\ pc = "done" /\ outcome # "running" /\ file["adapted"] = "bad" /\ report = "none"
    /\ file' = [file EXCEPT !["adapted"] = "good"]
    /\ Fine /\ Stays /\ UNCHANGED <<pc, seen, after, used, log, rows, counts, bound, result, outcome>>

-----------------------------------------------------------------------------
\* The report.

\* The recorded summaries are checked against the audit once more.
ExactHeaderRuntime(c) == c.pairs = Pairs
EnqueueRuntime(c) ==
    c.queued + c.thinned = Pairs /\ c.processed = c.queued /\ c.pending = 0 /\ c.decode = 0
RuntimeEvidence == ExactHeaderRuntime(bound) /\ EnqueueRuntime(bound)
Verified(f) == file[f] = seen[f]
\* Mutant: the campaign's own fixed-input check is trusted for the adapted bag.
ReportTrustsCheck ==
    /\ result \in {"COMPLETED", "FAILED", "TIMED_OUT"} /\ ~job.prepare
    /\ seen["reference"] # "none" /\ RuntimeEvidence
    /\ \A f \in Frozen \union {"binary", "tools", "reference", "adapted"} : Verified(f)
    /\ seen["binary"] = "good" /\ seen["adapted"] = "good"
    /\ \A f \in {"state", "trajectory", "metrics"} : seen[f] # "none" => Verified(f)
\* _validate_campaign: every recorded file is hashed again; a completed run's
\* adapted bag must be the same before and after.
ReportHolds ==
    /\ result \in {"COMPLETED", "FAILED", "TIMED_OUT"} /\ ~job.prepare
    /\ seen["reference"] # "none" /\ RuntimeEvidence
    /\ \A f \in Frozen \union {"binary", "tools", "reference", "adapted"} : Verified(f)
    /\ seen["binary"] = "good" /\ seen["adapted"] = "good"
    /\ \A f \in {"state", "trajectory", "metrics"} : seen[f] # "none" => Verified(f)
    /\ result = "COMPLETED" => after = seen["adapted"]
Report ==
    /\ pc = "done" /\ report = "none" /\ result # "none"
    /\ report' = IF ReportHolds THEN result ELSE "refused"
    /\ Fine /\ UNCHANGED <<pc, job, file, seen, after, used, log, rows, counts, bound, result, outcome, probe>>

-----------------------------------------------------------------------------
\* The pure parts, on inputs of their own.
Spoil ==
    /\ pc = "decide" /\ probe.of = "log" /\ probe.left > 0
    /\ \E l \in DamagedLog(probe.in) : probe' = [probe EXCEPT !.in = l, !.left = @ - 1]
    /\ UNCHANGED <<pc, job, file, seen, after, used, log, rows, counts, bound, result, outcome, report, faults>>
Decide ==
    /\ pc = "decide" /\ pc' = "done"
    /\ probe' = IF probe.of = "log"
                THEN [of |-> "log", in |-> probe.in, flags |-> probe.flags, left |-> 0,
                      out |-> ValidateT0(probe.in, "this", probe.flags)]
                ELSE [of |-> "rows", in |-> probe.in, queries |-> probe.queries,
                      out |-> Associate(probe.in, probe.queries)]
    /\ UNCHANGED <<job, file, seen, after, used, log, rows, counts, bound, result, outcome, report, faults>>

NoFile == [f \in Files |-> "none"]
Clean == [f \in Files |-> IF f \in Fixed \union {"reference", "tree"} THEN "good" ELSE "none"]
Init ==
    /\ job \in Jobs /\ seen = NoFile /\ after = "none" /\ used = NoFile
    /\ log = NoLog /\ rows = GoodRows /\ counts = NoCounts /\ bound = NoCounts
    /\ result = "none" /\ outcome = "running" /\ report = "none"
    /\ \/ /\ pc = "paths" /\ probe = [of |-> "none"]
          /\ \/ faults = 0 /\ file \in {Clean, [Clean EXCEPT !["adapted"] = "good"]}
             \/ faults = 1 /\ \E f \in Fixed \union {"adapted", "reference", "tree"} :
                                  file \in {[Clean EXCEPT ![f] = "bad"], [Clean EXCEPT ![f] = "none"]}
       \/ /\ pc = "decide" /\ faults = MaxFaults /\ file = NoFile
          /\ job = CHOOSE j \in Jobs : TRUE
          /\ \/ \E p \in LogProbes :
                    probe = [of |-> "log", in |-> WrittenLog("this", p.flags), flags |-> p.flags, left |-> p.left]
             \/ \E p \in RowProbes : probe = [of |-> "rows", in |-> p.rows, queries |-> p.queries]

Next ==
    \/ ValidatePaths \/ BindInputs \/ SnapshotBefore \/ AdaptBag \/ BindAdapted \/ Preflight
    \/ Launch \/ EstimatorEnds \/ BindSummaries \/ ValidateTelemetry \/ BindReference \/ Convert
    \/ StableDigest \/ AssociateOutputs \/ Evaluate \/ Compress \/ RoundTrip \/ CompareArchive \/ Checks
    \/ SnapshotAfter \/ InputsAfter \/ Commit \/ Return \/ Interrupt \/ Kill
    \/ (\E f \in Files : Edit(f)) \/ AdaptedAgain \/ Report \/ Spoil \/ Decide

Spec == Init /\ [][Next]_vars

-----------------------------------------------------------------------------
\* What an accepted log tells: its lines are the first callbacks of one run, in
\* order, none lost or repeated; every candidate is in exactly one group; the
\* mean and the covariance were committed together; and, where they were asked
\* for, the interval is the callback's own (or says that it is not available)
\* and the line was written by this build.
OneRun(l, flags) ==
    /\ l.lines # <<>> /\ l.header.run = "this"
    /\ \A i \in 1..Len(l.lines) :
          LET r == l.lines[i]
              own == WrittenInterval(i - 1)
          IN  /\ r.of.callback = i - 1
              /\ \A c \in Range(r.candidates) :
                    Cardinality({g \in 1..Len(r.groups) : c \in Range(r.groups[g].members)}) = 1
              /\ r.commit.mean = r.commit.covariance
              /\ "intervals" \in flags /\ r.interval.available =>
                    /\ r.interval.knots \in {own.knots, <<>>}
                    /\ \A i2 \in 1..Len(r.interval.corrected) : r.interval.corrected[i2] = own.corrected[i2]
                    /\ r.interval.current = own.current
              /\ "intervals" \in flags => \A c \in Range(r.frames) : c = r.of.callback
              /\ "associations" \in flags =>
                    r.of.run = "this" /\ r.assoc.callback = r.of.callback

\* A telemetry log that the campaign accepts, or that the validator accepts on
\* its own, is one run's (kaist_vio_campaign.py 570-2662).
AcceptedIsOneRun ==
    /\ (result = "COMPLETED" /\ job.capture) => OneRun(log, job.flags)
    /\ (probe.of = "log" /\ pc = "done") => (probe.out => OneRun(probe.in, probe.flags))

\* A callback is matched with a row exactly when that row is the nearest one, near
\* enough, the only one as near, and no other callback's; and no row is given
\* twice (event_ready_association.py 94-123, 387-397).
AssociationIsExact ==
    (probe.of = "rows" /\ pc = "done") =>
        \A k \in 1..Len(probe.queries) :
            /\ probe.out[k].status = "MATCHED" => Owns(probe.in, probe.queries, k, probe.out[k].row)
            /\ \A i \in 1..Len(probe.in) :
                  Owns(probe.in, probe.queries, k, i) => probe.out[k] = [status |-> "MATCHED", row |-> i]

\* A run reported as completed read the frozen bag and configuration with the
\* bound binary from beginning to end, in a source tree and with the libraries
\* that were recorded where provenance was asked for; every stereo pair of the bag
\* was processed or thinned; what was evaluated is what was
\* validated, against the frozen reference; and its telemetry is kept as
\* validated in an archive that was read back (kaist_vio_campaign.py 3713-4608, kaist_vio_reports.py 1374-1702).
ReportedIsFrozen ==
    report = "COMPLETED" =>
        /\ \A f \in {"adapted", "config", "binary", "trajectory", "reference"} : used[f] = "good"
        /\ rows.state = rows.deviation /\ rows.timing = rows.state
        /\ job.provenance => used["library"] = seen["library"] /\ seen["tree"] = "good"
        /\ counts.processed + counts.thinned = Pairs /\ counts.decode = 0
        /\ job.flags # {} => seen["archive"] = "good" /\ file["raw"] = "none"
=============================================================================
