---------------------------- MODULE RuntimeTrace ----------------------------
\* The trace of one serial run and its readers.  The estimator pairs the camera
\* messages of a bag, notes what becomes of each pair (CP2SerialRuntimeTrace) and
\* writes several files that refer to each other; the verifiers of
\* verify_report.py (levels "recorded" and "sequence") and of
\* cp2_timing_artifact.py (level "timing") accept them only if the files, joined,
\* tell one complete story.  A payload is known by the update it belongs to.
EXTENDS Naturals, Sequences, SequencesExt, FiniteSetsExt

CONSTANTS Bags,       \* sequences of messages [kind, t], in order of recording
          Limit,      \* record times of a pair differ by less (20 ms)
          Outcomes,   \* what an update may come to
          Coverage,   \* <<n, d>>: share of the pairs to be processed (995/1000)
          Agreement,  \* <<n, d>>: share of equal gate decisions (999/1000)
          Counted,    \* committed updates to be seen (1000)
          MaxFaults   \* failures of the run, and records lost or disturbed

VARIABLES bag, level,
          pairs,    \* the pairs of the bag
          rows,     \* the notes: one row for each pair
          failed,   \* Reject was called
          next, traj,  \* next invocation and trajectory index
          queue,    \* pairs queued and not processed
          did,      \* what really became of each pair
          files,    \* the files written
          pc, faults, accepted

vars == <<bag, level, pairs, rows, failed, next, traj, queue, did, files, pc, faults, accepted>>

Abs(a, b) == IF a > b THEN a - b ELSE b - a
Cameras == {"cam0", "cam1"}
Other(k) == CHOOSE c \in Cameras : c # k
Increasing(s) == \A i, j \in DOMAIN s : i < j => s[i] < s[j]
Keys(s, Key(_)) == [i \in DOMAIN s |-> Key(s[i])]
Records(s) == {s[i] : i \in DOMAIN s}
\* Strictly increasing tuples of numbers.
Ordered(keys) ==
    \A i, j \in DOMAIN keys : i < j =>
        \E k \in DOMAIN keys[i] : /\ keys[i][k] < keys[j][k]
                                  /\ \A m \in 1..k - 1 : keys[i][m] = keys[j][m]

-----------------------------------------------------------------------------
\* Pairing: the first message of the other camera after an anchor, if it is
\* unused and near enough; the search never goes past it

Candidate(b, a) ==
    LET later == {i \in a + 1..Len(b) : b[i].kind = Other(b[a].kind)}
    IN  IF later = {} THEN 0 ELSE Min(later)

PairOf(b, a, c) ==
    LET c0 == IF b[a].kind = "cam0" THEN a ELSE c
        c1 == IF b[a].kind = "cam0" THEN c ELSE a
    IN  [anchor |-> a, camera |-> b[a].kind, c0 |-> c0, c1 |-> c1, t0 |-> b[c0].t, t1 |-> b[c1].t]

\* _select_pair_evidence, the loop over the anchors.
SelectPairs(b) ==
    LET walk[n \in 0..Len(b)] ==
            IF n = 0 THEN [used |-> {}, pairs |-> <<>>]
            ELSE LET w == walk[n - 1]
                     c == IF b[n].kind \in Cameras THEN Candidate(b, n) ELSE 0
                 IN  IF n \in w.used \/ c = 0 \/ c \in w.used \/ Abs(b[n].t, b[c].t) >= Limit THEN w
                     ELSE [used |-> w.used \cup {n, c}, pairs |-> Append(w.pairs, PairOf(b, n, c))]
    IN  walk[Len(b)].pairs

\* _select_pair_evidence, what it refuses; _read_pair_evidence and _extract leave
\* pairs and witness behind.
Extracted(b) ==
    /\ \A i, j \in DOMAIN b : i < j => b[i].t <= b[j].t
    /\ Len(SelectPairs(b)) >= 2
    /\ Last(SelectPairs(b)).t0 > Head(SelectPairs(b)).t0

\* _actual_validate_pair_index_population.
PairPopulation(ps) ==
    /\ Len(ps) >= 2
    /\ \A i \in DOMAIN ps :
        LET p == ps[i]
            ahead == IF p.camera = "cam0" THEN p.c1 ELSE p.c0
        IN  /\ p.camera \in Cameras /\ p.anchor = IF p.camera = "cam0" THEN p.c0 ELSE p.c1
            /\ p.c0 # p.c1 /\ Abs(p.t0, p.t1) < Limit /\ ahead > p.anchor
            /\ \A j \in DOMAIN ps : j # i => {p.c0, p.c1} \cap {ps[j].c0, ps[j].c1} = {}
    /\ Increasing([i \in DOMAIN ps |-> ps[i].anchor])
    /\ \A i, j \in DOMAIN ps : i < j => ps[i].t0 <= ps[j].t0
    /\ Last(ps).t0 > Head(ps).t0

-----------------------------------------------------------------------------
\* The run.  CP2SerialRuntimeTrace.cpp

NoOut == [terminal |-> "none", feats |-> <<>>, blocks |-> 0, base |-> FALSE, cand |-> FALSE]
NewRow == [enq |-> "not_entered", proc |-> "not_queued", noted |-> FALSE, ids |-> <<>>,
           out |-> NoOut, traj |-> 0]
Untold == [enq |-> "not_entered", end |-> "none", out |-> NoOut, emitted |-> FALSE]
NoFiles == [f \in {"pairs", "witness", "serial", "callbacks", "trajectory", "updater", "timing",
                   "updates", "features", "state", "proposal", "raw", "blocks", "cov"} |-> <<>>]

Init ==
    /\ bag \in Bags /\ level \in {"recorded", "sequence", "timing"} /\ Extracted(bag)
    /\ pairs = SelectPairs(bag) /\ rows = [p \in 1..Len(pairs) |-> NewRow]
    /\ did = [p \in 1..Len(pairs) |-> Untold]
    /\ failed = ~PairPopulation(pairs)
    /\ next = 0 /\ traj = 0 /\ queue = <<>> /\ files = NoFiles /\ pc = "run"
    /\ faults = 0 /\ accepted = FALSE

Fails == faults < MaxFaults /\ faults' = faults + 1
Entered == {p \in DOMAIN rows : did[p].enq # "not_entered"}

\* The callback of the next pair: queued, dropped by the tracking frequency, or
\* an image that cannot be decoded; NoteEnqueue.
Enqueue ==
    /\ pc = "run" /\ ~failed /\ Cardinality(Entered) < Len(pairs)
    /\ \E status \in {"queued", "frequency_dropped", "cam0_decode_failed"} :
        LET p == Cardinality(Entered) + 1 IN
        /\ IF status = "cam0_decode_failed" THEN Fails ELSE UNCHANGED faults
        /\ rows' = [rows EXCEPT ![p].enq = status,
                                ![p].proc = IF status = "queued" THEN "queued_unprocessed" ELSE @]
        /\ did' = [did EXCEPT ![p].enq = status]
        /\ queue' = IF status = "queued" THEN Append(queue, p) ELSE queue
    /\ UNCHANGED <<bag, level, pairs, failed, next, traj, files, pc, accepted>>

\* A queued pair is processed: the updater may be invoked once (NoteUpdate) and a
\* pose emitted; an exception ends it early (NoteProcessing).
Process ==
    /\ pc = "run" /\ ~failed /\ queue # <<>> /\ queue' = Tail(queue)
    /\ \E out \in Outcomes \cup {NoOut}, emitted, returned \in BOOLEAN :
        LET p == Head(queue)
            updated == out # NoOut
        IN  /\ emitted => returned
            /\ IF returned THEN UNCHANGED faults ELSE Fails
            /\ rows' = [rows EXCEPT ![p] =
                   [@ EXCEPT !.noted = TRUE, !.proc = IF returned THEN "processed" ELSE "process_terminated",
                             !.ids = IF updated THEN <<next>> ELSE <<>>, !.out = out,
                             !.traj = IF emitted THEN traj + 1 ELSE 0]]
            /\ did' = [did EXCEPT ![p].end = IF returned THEN "processed" ELSE "process_terminated",
                                  ![p].out = out, ![p].emitted = emitted]
            /\ next' = IF updated THEN next + 1 ELSE next
            /\ traj' = IF emitted THEN traj + 1 ELSE traj
    /\ UNCHANGED <<bag, level, pairs, failed, files, pc, accepted>>

\* Finalize refuses a pair that never reached the callback, and rows that
\* contradict themselves.
Finalizes ==
    \A p \in DOMAIN rows :
        /\ rows[p].enq # "not_entered"
        /\ (rows[p].enq = "queued") = (rows[p].proc # "not_queued")
        /\ rows[p].proc = "processed" => rows[p].noted

Queued == {p \in DOMAIN rows : rows[p].ids # <<>>}
UpdateOrder == SetToSortSeq(Queued, LAMBDA p, q : rows[p].ids[1] < rows[q].ids[1])
Flat(ss) == FlattenSeq(ss)
OfUpdates(F(_)) == LET order == UpdateOrder IN Flat([i \in DOMAIN order |-> F(order[i])])
Inv(p) == rows[p].ids[1]
Id(p, o) == 10 * p + o

\* SerializeSerial, SerializeCallbacks, SerializeTrajectory.
Row(p) == [pair |-> p, at |-> pairs[p], enq |-> rows[p].enq, proc |-> rows[p].proc,
           entered |-> rows[p].noted, returned |-> rows[p].proc = "processed", ids |-> rows[p].ids,
           traj |-> rows[p].traj]
RowsFile == [p \in DOMAIN rows |-> Row(p)]
TrajectoryFile ==
    LET emitted == SetToSortSeq({p \in DOMAIN rows : rows[p].traj # 0},
                                LAMBDA p, q : rows[p].traj < rows[q].traj)
    IN  [i \in DOMAIN emitted |-> [index |-> i, pair |-> emitted[i], t |-> pairs[emitted[i]].t0]]

\* SerializeUpdater; SerializeTiming repeats it with the owner's identity.
UpdaterFile == OfUpdates(LAMBDA p : <<[pair |-> p, inv |-> Inv(p), t |-> pairs[p].t0, out |-> rows[p].out]>>)

\* The files of the recorded assembler: one row for each update and feature, one
\* frame for each snapshot, proposal and raw system, one row for each block.
Decided(p, k) ==
    LET o == SelectSeq([i \in DOMAIN rows[p].out.feats |-> i],
                       LAMBDA i : rows[p].out.feats[i][k] = "yes")
    IN  [i \in DOMAIN o |-> Id(p, o[i])]
Committed(out) == out.terminal = "committed_counted"
Phases(out) == (IF out.feats = <<>> THEN <<>> ELSE <<0, 1>>) \o (IF Committed(out) THEN <<2, 3>> ELSE <<>>)
Roles(out) == (IF out.base THEN <<0>> ELSE <<>>) \o (IF out.cand THEN <<1>> ELSE <<>>)
Content(p, phase) == <<Inv(p), IF phase < 2 THEN "prior" ELSE "post">>
UpdateRow(p) ==
    LET out == rows[p].out IN
    [pair |-> p, inv |-> Inv(p), t |-> pairs[p].t0, terminal |-> out.terminal, raw |-> Len(out.feats),
     base |-> out.base, cand |-> out.cand, bids |-> Decided(p, 1), cids |-> Decided(p, 2),
     blocks |-> out.blocks, cov |-> out.blocks * out.blocks, commits |-> IF Committed(out) THEN 1 ELSE 0]
FeatureRow(p, o) ==
    LET f == rows[p].out.feats[o] IN
    [pair |-> p, inv |-> Inv(p), ord |-> o - 1, id |-> Id(p, o), null |-> f[1], schur |-> f[2]]
Assembled ==
    [NoFiles EXCEPT
        !.serial = RowsFile, !.pairs = pairs, !.witness = bag,
        !.updates = OfUpdates(LAMBDA p : <<UpdateRow(p)>>),
        !.features = OfUpdates(LAMBDA p : [o \in DOMAIN rows[p].out.feats |-> FeatureRow(p, o)]),
        !.raw = OfUpdates(LAMBDA p : [o \in DOMAIN rows[p].out.feats |-> <<p, Inv(p), o - 1, Id(p, o)>>]),
        !.state = OfUpdates(LAMBDA p : LET ph == Phases(rows[p].out) IN
            [i \in DOMAIN ph |-> [key |-> <<p, Inv(p), ph[i]>>, content |-> Content(p, ph[i])]]),
        !.proposal = OfUpdates(LAMBDA p : LET ro == Roles(rows[p].out) IN
            [i \in DOMAIN ro |-> <<p, Inv(p), ro[i]>>]),
        !.blocks = OfUpdates(LAMBDA p : [i \in 1..rows[p].out.blocks |-> <<p, Inv(p), i - 1>>]),
        !.cov = OfUpdates(LAMBDA p : LET n == rows[p].out.blocks IN
            [i \in 1..n * n |-> <<p, Inv(p), (i - 1) \div n, (i - 1) % n>>])]

Written ==
    CASE level = "recorded" -> Assembled
      [] level = "sequence" ->
           [NoFiles EXCEPT !.pairs = pairs, !.witness = bag, !.callbacks = RowsFile,
                           !.trajectory = TrajectoryFile]
      [] OTHER -> [NoFiles EXCEPT !.serial = RowsFile, !.callbacks = RowsFile, !.updater = UpdaterFile,
                                  !.timing = UpdaterFile]

\* Finalize writes one file after the other; killed in between, the later ones
\* stay empty.
Finalize ==
    /\ pc = "run" /\ ~failed /\ Finalizes /\ pc' = "written"
    /\ LET all == Written IN
       \/ files' = all /\ UNCHANGED faults
       \/ /\ Fails /\ \E kept \in SUBSET {"serial", "callbacks", "updater", "updates", "pairs", "witness"} :
              files' = [f \in DOMAIN NoFiles |-> IF f \in kept THEN all[f] ELSE <<>>]
    /\ UNCHANGED <<bag, level, pairs, rows, failed, next, traj, queue, did, accepted>>

SwapNext(s, i) == [s EXCEPT ![i] = s[i + 1], ![i + 1] = s[i]]

\* A record of a file is lost, doubled or changes places with the next one, or the
\* file is emptied.
Disturb ==
    /\ pc = "written" /\ Fails
    /\ \E f \in DOMAIN NoFiles : \E i \in DOMAIN files[f] :
        \/ files' = [files EXCEPT ![f] = RemoveAt(@, i)]
        \/ files' = [files EXCEPT ![f] = InsertAt(@, i, @[i])]
        \/ /\ i + 1 \in DOMAIN files[f]
           /\ files' = [files EXCEPT ![f] = SwapNext(@, i)]
        \/ i = 1 /\ files' = [files EXCEPT ![f] = <<>>]
    /\ UNCHANGED <<bag, level, pairs, rows, failed, next, traj, queue, did, pc, accepted>>

-----------------------------------------------------------------------------
\* The recorded verifier; f stands for the files

\* _actual_parse_state_payloads, _actual_parse_proposal_payloads,
\* _actual_parse_raw_payloads: frames in strict order of their keys.
StateFrames(f) == Ordered(Keys(f.state, LAMBDA s : s.key))
ProposalFrames(f) == Ordered(f.proposal)
RawFrames(f) == Ordered(f.raw)
\* _actual_ranges_equal.
RangesEqual(f, a, b) ==
    \A s, r \in Records(f.state) : s.key = a /\ r.key = b => s.content = r.content
\* _actual_terminal_mapping.
TerminalMapping(terminal) ==
    terminal \in {"empty_input", "all_rejected", "empty_after_compression", "preflight_rejected",
                  "committed_counted", "internal_failure"}

\* Status and flags of a row that passes.
Transition(r) ==
    \/ r.enq = "queued" /\ r.proc = "processed" /\ r.entered /\ r.returned
    \/ r.enq = "frequency_dropped" /\ r.proc = "not_queued" /\ ~r.entered /\ ~r.returned

\* The serial rows: in order, contiguous, and each invocation owned once.
SerialRows(f) ==
    /\ \A i \in DOMAIN f.serial :
        LET r == f.serial[i] IN
        /\ r.pair = i /\ Abs(r.at.t0, r.at.t1) < Limit /\ Transition(r)
        /\ r.proc # "processed" => r.ids = <<>>
    /\ \A r, s \in Records(f.serial) : r # s => Records(r.ids) \cap Records(s.ids) = {}

Owner(f, inv) == {r \in Records(f.serial) : inv \in Records(r.ids)}

\* The snapshots of an update: two of the prior state if there was a raw system,
\* two of the state after a commit, each two byte for byte the same.
Snapshots(f, u) ==
    LET frames == {s.key[3] : s \in {s \in Records(f.state) : s.key[1] = u.pair /\ s.key[2] = u.inv}}
    IN  /\ {0, 1} \cap frames = IF u.raw > 0 THEN {0, 1} ELSE {}
        /\ {2, 3} \cap frames = IF u.terminal = "committed_counted" THEN {2, 3} ELSE {}
        /\ RangesEqual(f, <<u.pair, u.inv, 0>>, <<u.pair, u.inv, 1>>)
        /\ RangesEqual(f, <<u.pair, u.inv, 2>>, <<u.pair, u.inv, 3>>)

\* Its proposals, and the number of commits.
Proposals(f, u) ==
    LET has(role) == <<u.pair, u.inv, role>> \in Records(f.proposal) IN
    /\ has(0) = u.base /\ has(1) = u.cand
    /\ u.terminal = "committed_counted" => has(0) /\ u.commits = 1
    /\ u.terminal # "committed_counted" => u.commits = 0

\* The update rows join the serial rows one to one.
UpdateRows(f) ==
    /\ Ordered(Keys(f.updates, LAMBDA u : <<u.pair, u.t, u.inv>>))
    /\ \A i \in DOMAIN f.updates :
        LET u == f.updates[i] IN
        /\ \E r \in Owner(f, u.inv) : r.pair = u.pair /\ r.at.t0 = u.t
        /\ u.inv = i - 1 /\ TerminalMapping(u.terminal) /\ u.terminal # "internal_failure"
        /\ Snapshots(f, u) /\ Proposals(f, u)
    /\ UNION {Records(r.ids) : r \in Records(f.serial)} = {u.inv : u \in Records(f.updates)}

FeaturesOf(f, u) == SelectSeq(f.features, LAMBDA r : r.pair = u.pair /\ r.inv = u.inv)
Matches(r) == r.null # "none" /\ r.null = r.schur
Attempted(r) == r.null # "none" \/ r.schur # "none"

\* The feature rows: ordinals without a gap, each with its raw system.
FeatureRows(f) ==
    /\ Ordered(Keys(f.features, LAMBDA r : <<r.pair, r.inv, r.ord>>))
    /\ \A r \in Records(f.features) :
        /\ \E u \in Records(f.updates) : u.pair = r.pair /\ u.inv = r.inv
        /\ <<r.pair, r.inv, r.ord, r.id>> \in Records(f.raw)
    /\ \A u \in Records(f.updates) :
        Keys(FeaturesOf(f, u), LAMBDA r : r.ord) = [i \in DOMAIN FeaturesOf(f, u) |-> i - 1]

\* Decisions and populations: rows, raw systems, snapshots and proposals are
\* exactly those the updates call for.
Populations(f) ==
    /\ \A u \in Records(f.updates) :
        LET g == FeaturesOf(f, u)
            ids(which(_)) == Keys(SelectSeq(g, which), LAMBDA r : r.id)
        IN  /\ Len(g) = u.raw
            /\ ids(LAMBDA r : r.null = "yes") = u.bids /\ ids(LAMBDA r : r.schur = "yes") = u.cids
    /\ Records(f.raw) = {<<r.pair, r.inv, r.ord, r.id>> : r \in Records(f.features)}
    /\ {s.key[2] : s \in Records(f.state)} \cup {p[2] : p \in Records(f.proposal)}
           \subseteq {u.inv : u \in Records(f.updates)}

\* State blocks: contiguous, of committed updates only; covariance blocks: their
\* ordered square.
StateBlocks(f) ==
    /\ Ordered(f.blocks)
    /\ \A b \in Records(f.blocks) :
        \E u \in Records(f.updates) :
            u.pair = b[1] /\ u.inv = b[2] /\ u.terminal = "committed_counted"
BlocksOf(s, u) == SelectSeq(s, LAMBDA b : b[1] = u.pair /\ b[2] = u.inv)
CovarianceBlocks(f) ==
    /\ Ordered(f.cov)
    /\ \A b \in Records(f.cov) :
        \E u \in Records(f.updates) :
            u.pair = b[1] /\ u.inv = b[2] /\ u.terminal = "committed_counted"
BlockPopulations(f) ==
    \A u \in Records(f.updates) :
        LET n == Len(BlocksOf(f.blocks, u)) IN
        /\ u.blocks = n /\ u.cov = n * n
        /\ Keys(BlocksOf(f.blocks, u), LAMBDA b : b[3]) = [i \in 1..n |-> i - 1]
        /\ Keys(BlocksOf(f.cov, u), LAMBDA b : <<b[3], b[4]>>)
               = [i \in 1..n * n |-> <<(i - 1) \div n, (i - 1) % n>>]

\* The gates of the campaign.
Gates(f) ==
    LET union == Cardinality({i \in DOMAIN f.features : Attempted(f.features[i])})
        match == Cardinality({i \in DOMAIN f.features : Matches(f.features[i])})
        counted == {u \in Records(f.updates) : u.terminal = "committed_counted"}
    IN  /\ Cardinality(counted) >= Counted /\ union > 0
        /\ Agreement[2] * match >= Agreement[1] * union
        /\ \A u \in counted : u.cand

\* _actual_validate_recorded_pair_index_commands: the extractor, run on its own,
\* printed the very pairs of the serial rows.
PairIndexCommands(f) ==
    /\ PairPopulation(f.pairs)
    /\ f.pairs = Keys(f.serial, LAMBDA r : r.at)

\* _actual_validate_recorded_statistics.
RecordedHolds(f) ==
    /\ StateFrames(f) /\ ProposalFrames(f) /\ RawFrames(f) /\ SerialRows(f)
    /\ UpdateRows(f) /\ FeatureRows(f) /\ Populations(f) /\ StateBlocks(f) /\ CovarianceBlocks(f)
    /\ BlockPopulations(f) /\ Gates(f) /\ f.pairs # <<>> /\ PairIndexCommands(f)

-----------------------------------------------------------------------------
\* The sequence verifier

\* _actual_validate_sequence_traces, the pair index,
PairRows(f) == f.pairs # <<>> /\ PairPopulation(f.pairs)
\* _actual_replay_pair_selection_witness: selected once more from the messages.
Witness(f) == f.witness # <<>> /\ f.pairs = SelectPairs(f.witness)
\* the callbacks, one for each pair and in the same order,
Callbacks(f) ==
    /\ Len(f.callbacks) = Len(f.pairs)
    /\ \A i \in DOMAIN f.callbacks :
        LET c == f.callbacks[i] IN
        /\ c.pair = i /\ c.at = f.pairs[i] /\ Transition(c)
        /\ c.proc # "processed" => c.traj = 0
    /\ \E c \in Records(f.callbacks) : c.proc = "processed"
\* Mutant: the poses are joined one way only.
TrajectoriesOneWay(f) ==
    /\ \A i \in DOMAIN f.trajectory :
        LET p == f.trajectory[i] IN
        /\ p.index = i /\ p.pair \in DOMAIN f.callbacks
        /\ f.callbacks[p.pair].proc = "processed" /\ f.callbacks[p.pair].traj = i
    /\ Increasing(Keys(f.trajectory, LAMBDA p : p.t))

\* the poses, joined both ways,
Trajectories(f) ==
    /\ \A i \in DOMAIN f.trajectory :
        LET p == f.trajectory[i] IN
        /\ p.index = i /\ p.pair \in DOMAIN f.callbacks
        /\ f.callbacks[p.pair].proc = "processed" /\ f.callbacks[p.pair].traj = i
    /\ Increasing(Keys(f.trajectory, LAMBDA p : p.t))
    /\ {p.pair : p \in Records(f.trajectory)} = {c.pair : c \in {c \in Records(f.callbacks) : c.traj # 0}}
\* and the share of pairs and of time that was processed.
Covered(f) ==
    LET processed == SelectSeq(f.callbacks, LAMBDA c : c.proc = "processed")
        span(s) == Last(s).at.t0 - Head(s).at.t0
    IN  /\ span(processed) > 0
        /\ Coverage[2] * Len(processed) >= Coverage[1] * Len(f.pairs)
        /\ Coverage[2] * span(processed) >= Coverage[1] * span(f.callbacks)

SequenceHolds(f) == PairRows(f) /\ Witness(f) /\ Callbacks(f) /\ Trajectories(f) /\ Covered(f)

-----------------------------------------------------------------------------
\* The timing verifier

\* _serial_callback_transition: pairs that were not processed stay in the
\* population.
TimingTransition(r) ==
    /\ \/ r.enq = "queued" /\ r.proc = "processed" /\ r.entered /\ r.returned
       \/ r.enq = "queued" /\ r.proc = "queued_unprocessed" /\ ~r.entered /\ ~r.returned
       \/ r.enq = "queued" /\ r.proc \in {"process_terminated", "trace_failure"} /\ r.entered /\ ~r.returned
       \/ r.enq # "queued" /\ r.proc = "not_queued" /\ ~r.entered /\ ~r.returned
    /\ Len(r.ids) <= 1 /\ (r.proc # "processed" => r.ids = <<>>)

\* _derive_run_samples: serial rows and callbacks side by side,
SerialJoin(f) ==
    /\ Len(f.serial) = Len(f.callbacks)
    /\ \A i \in DOMAIN f.serial :
        LET s == f.serial[i].at
            c == f.callbacks[i]
        IN  /\ f.serial[i].pair = i /\ c.pair = i /\ c.at = s /\ TimingTransition(c)
            /\ s.anchor = (IF s.camera = "cam0" THEN s.c0 ELSE s.c1) /\ s.c0 # s.c1
            /\ Abs(s.t0, s.t1) < Limit
            /\ \A j \in DOMAIN f.serial : j < i =>
                   f.serial[j].at.anchor < s.anchor
                   /\ {s.c0, s.c1} \cap {f.serial[j].at.c0, f.serial[j].at.c1} = {}
            /\ c.traj # 0 => c.traj = 1 + Cardinality({j \in 1..i - 1 : f.callbacks[j].traj # 0})
CallbackIds(f) == Flat(Keys(f.callbacks, LAMBDA c : c.ids))
\* one updater row and one timing row for each invocation,
Samples(f) ==
    /\ Len(f.updater) = Len(f.timing) /\ f.updater # <<>>
    /\ CallbackIds(f) = [i \in DOMAIN f.updater |-> i - 1]
    /\ \A i \in DOMAIN f.updater :
        LET u == f.updater[i] IN
        /\ u.inv = CallbackIds(f)[i] /\ u.pair \in DOMAIN f.serial /\ u.t = f.serial[u.pair].at.t0
        /\ u.inv \in Records(f.callbacks[u.pair].ids)
\* whose lifecycle is consistent and whose endpoints the timing row repeats.
SampleLifecycle(f) ==
    \A i \in DOMAIN f.updater :
        LET u == f.updater[i] IN
        /\ TerminalMapping(u.out.terminal) /\ f.timing[i] = u
        /\ Committed(u.out) => u.out.feats # <<>> /\ u.out.base

TimingHolds(f) == SerialJoin(f) /\ Samples(f) /\ SampleLifecycle(f)

Holds(f) ==
    CASE level = "recorded" -> RecordedHolds(f)
      [] level = "sequence" -> SequenceHolds(f)
      [] OTHER -> TimingHolds(f)

Verify ==
    /\ pc = "written" /\ pc' = "verified" /\ accepted' = Holds(files)
    /\ UNCHANGED <<bag, level, pairs, rows, failed, next, traj, queue, did, files, faults>>

Next == Enqueue \/ Process \/ Finalize \/ Disturb \/ Verify

Spec == Init /\ [][Next]_vars

-----------------------------------------------------------------------------
\* What a reader learns of pair p from the files by following its keys.

UpdateOf(p) ==
    LET us == {u \in Records(files.updates) : u.pair = p}
        decisions(u) == Keys(FeaturesOf(files, u), LAMBDA r : <<r.null, r.schur>>)
    IN  IF us = {} THEN NoOut
        ELSE LET u == CHOOSE u \in us : TRUE
             IN  [terminal |-> u.terminal, feats |-> decisions(u),
                  blocks |-> Len(BlocksOf(files.blocks, u)),
                  base |-> \E k \in Records(files.proposal) : k[1] = p /\ k[3] = 0,
                  cand |-> \E k \in Records(files.proposal) : k[1] = p /\ k[3] = 1]
SampleOf(p) ==
    LET us == {u \in Records(files.timing) : u.pair = p}
    IN  IF us = {} THEN NoOut ELSE (CHOOSE u \in us : TRUE).out
Posed(p) == \E r \in Records(files.trajectory) : r.pair = p

Told(p) ==
    CASE level = "recorded" -> <<files.serial[p].enq, files.serial[p].proc, UpdateOf(p)>>
      [] level = "sequence" -> <<files.callbacks[p].enq, files.callbacks[p].proc, Posed(p)>>
      [] OTHER -> <<files.callbacks[p].enq, files.callbacks[p].proc, SampleOf(p)>>
Truth(p) ==
    <<did[p].enq,
      IF did[p].enq # "queued" THEN "not_queued"
      ELSE IF did[p].end = "none" THEN "queued_unprocessed" ELSE did[p].end,
      IF level = "sequence" THEN did[p].emitted ELSE did[p].out>>

\* An accepted trace tells, of every pair of the bag, exactly what became of it:
\* whether it was dropped or processed, and the update, its features, proposals
\* and blocks, or the pose, it led to; no record can be lost, doubled or moved
\* unnoticed (_actual_validate_recorded_statistics, _actual_validate_sequence_traces,
\* _derive_run_samples).  A run without failure that processed every pair and
\* committed an update for each is accepted on every level.
AcceptedIsTheStory ==
    /\ accepted =>
        /\ Len(IF level = "sequence" THEN files.callbacks ELSE files.serial) = Len(pairs)
        /\ \A p \in DOMAIN did : Told(p) = Truth(p)
    /\ (/\ pc = "verified" /\ faults = 0
        /\ \A p \in DOMAIN did : did[p].end = "processed" /\ Committed(did[p].out)) => accepted

=============================================================================
