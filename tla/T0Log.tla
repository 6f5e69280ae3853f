------------------------------- MODULE T0Log -------------------------------
\* The TurnSafe T0 telemetry log of one KAIST run, the checks
\* kaist_vio_campaign.py makes on it (_validate_t0_jsonl), and the offline join
\* of its callbacks with the trajectory rows (event_ready_association.py).
\*
\* A line is one callback record.  Its fields are the ones the checks relate to
\* each other; "flaws" are the sections with a field that is missing, of the
\* wrong type or not finite.  "of" says which callback of which run wrote the
\* line; no check reads it.
EXTENDS Integers, Sequences, SequencesExt, FiniteSetsExt

CONSTANTS Tolerance   \* how far a matched row may be from its query

Flags == {"intervals", "associations", "provenance"}
CameraIds == <<0, 1>>
ClockOffset == 1      \* dt_CAMtoIMU
Bias == 1             \* the gyroscope bias snapshot

StrictlySorted(s) == \A i \in 1..Len(s) - 1 : s[i] < s[i + 1]
Sorted(s) == SortSeq(s, LAMBDA a, b : a < b)
PairOf(c) == c \div 10

-----------------------------------------------------------------------------
\* The checks, in the order the validator makes them.

Shaped(r, section) == section \notin r.flaws

\* A typed value is there exactly when its status says so, and only an
\* unavailable one has a reason.
Absent == -1
Typed(v) ==
    /\ (v.status = "AVAILABLE") <=> (v.reason = "NONE")
    /\ (v.status = "AVAILABLE") <=> (v.value # Absent)
\* A key binds the bits of its timestamp.
TimestampKey(key, stamp) == key = stamp
ObservationEvidence(o) == TimestampKey(o.key, o.stamp)
\* A gyroscope summary: unavailable ones show nothing, a rotation angle is in range.
HalfTurn == 3
GyroSummary(v) == IF v.status = "AVAILABLE" THEN v.value \in 0..HalfTurn ELSE v.value = Absent

\* The run header: schema, every identity the campaign expects, a supported
\* configuration and canonical capture flags.
Header(h, run, flags) ==
    /\ h.shaped
    /\ h.run = run
    /\ h.supported
    /\ h.flags = flags

\* No key that would tell the run which sequence or ground truth it has.
Inspect(r) == Shaped(r, "forbidden_key") /\ Shaped(r, "number")

\* Mutant: the index only has to be one that the log can have.
CallbackOrderInRange(r, count) ==
    /\ ~r.torn
    /\ Shaped(r, "callback")
    /\ r.index >= count
    /\ TimestampKey(r.key, r.stamp)
CallbackOrder(r, count) ==
    /\ ~r.torn
    /\ Shaped(r, "callback")
    /\ r.index = count
    /\ TimestampKey(r.key, r.stamp)

FrontendCameras(r) == Shaped(r, "frontend") /\ StrictlySorted(r.cameras)

AttemptObservations(r) ==
    Shaped(r, "observations") /\ \A i \in 1..Len(r.observations) : ObservationEvidence(r.observations[i])
AttemptStages(r) == Shaped(r, "stages")
AttemptOutcome(r) == Shaped(r, "outcome")
FullTrackAttempts(r) ==
    /\ AttemptObservations(r) /\ AttemptStages(r) /\ AttemptOutcome(r)
    /\ StrictlySorted(r.attempts)

\* The baseline commits its mean and its covariance together, at most once.
BaselineDecision(r) ==
    /\ Shaped(r, "baseline")
    /\ {r.commit.mean, r.commit.covariance, r.commit.finalized} \subseteq {0, 1}
    /\ r.commit.mean = r.commit.covariance

ShadowCandidates(r) == Shaped(r, "candidates") /\ StrictlySorted(r.candidates)

\* Groups are in order, so are their members, and together they are exactly the
\* candidates.
ShadowGroups(r) ==
    /\ Shaped(r, "groups")
    /\ StrictlySorted([g \in 1..Len(r.groups) |-> r.groups[g].pair])
    /\ \A g \in 1..Len(r.groups) : StrictlySorted(r.groups[g].members)
GroupedCandidates(r) ==
    Sorted(FlattenSeq([g \in 1..Len(r.groups) |-> r.groups[g].members])) = r.candidates

Summaries(r) == Shaped(r, "funnel") /\ Shaped(r, "summary")

\* The event extension.
ExtensionVersion(r) == Shaped(r, "extension")

\* The interval names its callback; every camera frame names the interval.
IntervalIdentity(r) ==
    LET v == r.interval
    IN  /\ Shaped(r, "interval")
        /\ v.id = r.index /\ v.callback = r.index
        /\ StrictlySorted(v.cameras) /\ v.cameras = r.cameras
        /\ \A c \in 1..Len(r.frames) : r.frames[c] = v.id
IntervalSupport(r) ==
    /\ Shaped(r, "support") /\ Typed(r.coverage)
    /\ r.coverage.status = "AVAILABLE" => r.coverage.value \in 0..1

\* The exact interval: available knots span it in order, and the corrected
\* rates are the raw ones less the bias; an unavailable one shows no knots.
IntervalKnots(r) ==
    LET v == r.interval
        n == Len(v.knots)
    IN  IF v.knots = <<>> THEN v.raw = <<>> /\ v.corrected = <<>>
        ELSE /\ Len(v.raw) = n /\ Len(v.corrected) = n
             /\ StrictlySorted(v.knots)
             /\ v.available
             /\ n >= 2 /\ v.knots[1] = v.startImu /\ v.knots[n] = v.endImu
             /\ \A i \in 1..n : v.corrected[i] = v.raw[i] - Bias
IntervalClock(r) ==
    LET v == r.interval
    IN  /\ Shaped(r, "motion") /\ GyroSummary(r.motion)
        /\ v.available =>
              /\ v.current = r.stamp /\ v.start = v.previous /\ v.end = v.current
              /\ v.startImu = v.previous + ClockOffset
              /\ v.endImu = v.current + ClockOffset

\* The keys an outcome is joined by later: callback, run identity, output rows.
RowKeys(r) == Shaped(r, "rows")
AssociationKeys(r) ==
    /\ Shaped(r, "association")
    /\ r.assoc.callback = r.index
    /\ TimestampKey(r.assoc.stamp, r.stamp)
\* The identity of the run, typed outcome values, and no scientific label.
AssociationIdentity(r, run) == r.assoc.run = run /\ Typed(r.assoc.accepted) /\ Shaped(r, "label")

\* Group provenance: its groups are in order, each with at least two members
\* whose keys are in order and of the group, and whose observations are theirs.
ProvenanceGroups(r) ==
    /\ Shaped(r, "provenance")
    /\ StrictlySorted([g \in 1..Len(r.provenance) |-> r.provenance[g].pair])
    /\ \A g \in 1..Len(r.provenance) :
          /\ Len(r.provenance[g].keys) >= 2
          /\ Len(r.provenance[g].members) = Len(r.provenance[g].keys)
ProvenanceCameras(r) == Shaped(r, "calibration")
ProvenanceKeys(r) ==
    \A g \in 1..Len(r.provenance) :
        /\ StrictlySorted(r.provenance[g].keys)
        /\ \A m \in Range(r.provenance[g].keys) : PairOf(m) = r.provenance[g].pair
ProvenanceMembers(r) ==
    \A g \in 1..Len(r.provenance) : r.provenance[g].members = r.provenance[g].keys
ProvenanceVectors(r) == Shaped(r, "vectors")

CallbackRecord(r, count, run, flags) ==
    /\ Inspect(r) /\ CallbackOrder(r, count)
    /\ FrontendCameras(r) /\ FullTrackAttempts(r) /\ BaselineDecision(r)
    /\ ShadowCandidates(r) /\ ShadowGroups(r) /\ GroupedCandidates(r) /\ Summaries(r)
    /\ flags # {} => ExtensionVersion(r)
    /\ "intervals" \in flags =>
          IntervalIdentity(r) /\ IntervalSupport(r) /\ IntervalKnots(r) /\ IntervalClock(r)
    /\ "associations" \in flags => AssociationKeys(r) /\ RowKeys(r) /\ AssociationIdentity(r, run)
    /\ "provenance" \in flags =>
          /\ ProvenanceGroups(r) /\ ProvenanceCameras(r)
          /\ ProvenanceKeys(r) /\ ProvenanceMembers(r) /\ ProvenanceVectors(r)

ValidateT0(log, run, flags) ==
    /\ Header(log.header, run, flags)
    /\ Len(log.lines) > 0
    /\ \A i \in 1..Len(log.lines) : CallbackRecord(log.lines[i], i - 1, run, flags)

-----------------------------------------------------------------------------
\* event_ready_association.py: rows is a nondecreasing sequence of stamps, a
\* query a stamp or -1.

\* _read_callbacks makes its own checks; it needs the keys.
ReadCallbacks(log, flags) ==
    /\ "associations" \in flags
    /\ \A i \in 1..Len(log.lines) :
          LET r == log.lines[i]
          IN  /\ r.index = i - 1 /\ r.key = r.stamp
              /\ Shaped(r, "association") /\ r.assoc.callback = r.index /\ r.assoc.stamp = r.stamp
              /\ RowKeys(r)
              /\ r.assoc.deviation = r.assoc.state /\ r.assoc.pose = r.assoc.state
Queries(log) == [i \in 1..Len(log.lines) |-> log.lines[i].assoc.state]

BisectLeft(rows, q) == Cardinality({i \in 1..Len(rows) : rows[i] < q})
Distance(a, b) == IF a < b THEN b - a ELSE a - b

\* _unique_nearest: [status, row].  Only the two rows around the query are
\* looked at, then every row with a stamp as near as theirs.
UniqueNearest(rows, q) ==
    LET at == BisectLeft(rows, q)
        around == {i \in {at, at + 1} : i \in 1..Len(rows)}
        least == Min({Distance(rows[i], q) : i \in around})
        stamps == {rows[i] : i \in {j \in around : Distance(rows[j], q) = least}}
        nearest == {i \in 1..Len(rows) : rows[i] \in stamps}
    IN  IF q = -1 \/ around = {} THEN [status |-> "MISSING", row |-> 0]
        ELSE IF least > Tolerance THEN [status |-> "MISSING", row |-> 0]
        ELSE IF Cardinality(nearest) # 1 THEN [status |-> "AMBIGUOUS", row |-> 0]
        ELSE [status |-> "MATCHED", row |-> CHOOSE i \in nearest : TRUE]

\* Mutant: the first callback keeps a row that several callbacks matched.
EnforceFirst(matches) ==
    [k \in 1..Len(matches) |->
        IF matches[k].status = "MATCHED" /\ \E j \in 1..k - 1 : matches[j] = matches[k]
        THEN [status |-> "AMBIGUOUS", row |-> 0] ELSE matches[k]]
\* _enforce_one_to_one: a row matched twice is nobody's.
EnforceOneToOne(matches) ==
    [k \in 1..Len(matches) |->
        IF matches[k].status = "MATCHED" /\ \E j \in 1..Len(matches) : j # k /\ matches[j] = matches[k]
        THEN [status |-> "AMBIGUOUS", row |-> 0] ELSE matches[k]]

Associate(rows, queries) ==
    EnforceOneToOne([k \in 1..Len(queries) |-> UniqueNearest(rows, queries[k])])

-----------------------------------------------------------------------------
\* Reference definitions, used by the properties only.

\* The row a query has to itself: nearer than any other row, close enough, and
\* no other query's.
Nearest(rows, q) ==
    {i \in 1..Len(rows) : /\ Distance(rows[i], q) =< Tolerance
                          /\ \A j \in 1..Len(rows) : Distance(rows[i], q) =< Distance(rows[j], q)}
Owns(rows, queries, k, i) ==
    /\ queries[k] # -1 /\ Nearest(rows, queries[k]) = {i}
    /\ \A j \in 1..Len(queries) : (j # k /\ queries[j] # -1) => Nearest(rows, queries[j]) # {i}
=============================================================================
