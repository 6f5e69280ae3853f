---------------------------- MODULE SequenceMath ----------------------------
\* The populations a CP2-D sequence comparison is made over: which camera
\* messages of a bag form stereo pairs, which poses two trajectories share, and
\* which ground-truth row belongs to each of them.  All times are integers of
\* nanoseconds in the code; here they are small naturals.
EXTENDS Naturals, Sequences, SequencesExt, FiniteSetsExt

CONSTANTS Delta,       \* STRICT_PAIR_DELTA_NS, exclusive
          Difference,  \* GROUND_TRUTH_MAX_DIFFERENCE_NS, inclusive
          Fewest       \* poses an alignment needs (three)

Gap(a, b) == IF a < b THEN b - a ELSE a - b
Increasing(s) == \A i \in 1..Len(s) - 1 : s[i] < s[i + 1]
Chronological(s) == \A i \in 1..Len(s) - 1 : s[i] =< s[i + 1]

-----------------------------------------------------------------------------
\* Stereo pairs.  A bag is a sequence of messages [kind, time]; a row names the
\* anchor, the two messages and their record times.

Opposite(kind) == IF kind = "cam0" THEN "cam1" ELSE "cam0"

\* The first later message of the other camera, 0 when there is none.
Candidate(ms, i) ==
    LET later == {j \in i + 1..Len(ms) : ms[j].kind = Opposite(ms[i].kind)}
    IN  IF later = {} THEN 0 ELSE Min(later)

Row(ms, i, j) ==
    LET c0 == IF ms[i].kind = "cam0" THEN i ELSE j
        c1 == IF ms[i].kind = "cam0" THEN j ELSE i
    IN  [anchor |-> i, cam0 |-> c0, cam1 |-> c1, t0 |-> ms[c0].time, t1 |-> ms[c1].time]

Used(rows) == UNION {{rows[k].cam0, rows[k].cam1} : k \in 1..Len(rows)}

\* Mutant: a message an earlier anchor took is taken again.
WalkReuses(ms) ==
    LET walk[i \in 0..Len(ms)] ==
            IF i = 0 THEN <<>>
            ELSE LET rows == walk[i - 1]
                     j == Candidate(ms, i)
                 IN  IF ms[i].kind = "imu" \/ i \in Used(rows) \/ j = 0
                        \/ Gap(ms[i].time, ms[j].time) >= Delta
                     THEN rows ELSE Append(rows, Row(ms, i, j))
    IN  walk[Len(ms)]
\* The anchor walk of select_pair_evidence: an unused camera message pairs with
\* the first later message of the other camera, or with nothing.
Walk(ms) ==
    LET walk[i \in 0..Len(ms)] ==
            IF i = 0 THEN <<>>
            ELSE LET rows == walk[i - 1]
                     j == Candidate(ms, i)
                 IN  IF ms[i].kind = "imu" \/ i \in Used(rows) \/ j = 0 \/ j \in Used(rows)
                        \/ Gap(ms[i].time, ms[j].time) >= Delta
                     THEN rows ELSE Append(rows, Row(ms, i, j))
    IN  walk[Len(ms)]

Messages(ms) == Chronological([i \in 1..Len(ms) |-> ms[i].time])

\* _select_pair_evidence of the extractor: too few pairs, or pairs that span no
\* time, are no evidence.
Selects(ms) ==
    LET rows == Walk(ms)
    IN  Messages(ms) /\ Len(rows) >= 2 /\ rows[Len(rows)].t0 > rows[1].t0

\* validate_pair_selection_witness, and the verifier's own replay of it: the
\* retained messages reproduce the retained pairs.
WitnessReplays(ms, rows) == ms # <<>> /\ Messages(ms) /\ rows = Walk(ms)
DetachedReplays(ms, rows) == ms # <<>> /\ Messages(ms) /\ Walk(ms) = rows

\* _validate_pairs: what the rows alone must satisfy.
PairRows(rows) ==
    /\ Len(rows) >= 2 /\ rows[Len(rows)].t0 > rows[1].t0
    /\ Increasing([k \in 1..Len(rows) |-> rows[k].anchor])
    /\ Chronological([k \in 1..Len(rows) |-> rows[k].t0])
    /\ \A k \in 1..Len(rows) :
          LET r == rows[k]
              other == IF r.anchor = r.cam0 THEN r.cam1 ELSE r.cam0
          IN  /\ r.anchor \in {r.cam0, r.cam1} /\ other > r.anchor
              /\ Gap(r.t0, r.t1) < Delta
              /\ \A l \in 1..k - 1 :
                    {r.cam0, r.cam1} \cap {rows[l].cam0, rows[l].cam1} = {}

\* The pair-index part of _actual_validate_sequence_traces.
DetachedPairRows(rows) ==
    /\ rows # <<>> /\ Increasing([k \in 1..Len(rows) |-> rows[k].anchor])
    /\ Chronological([k \in 1..Len(rows) |-> rows[k].t0])
    /\ \A k \in 1..Len(rows) :
          LET r == rows[k]
              other == IF r.anchor = r.cam0 THEN r.cam1 ELSE r.cam0
          IN  /\ other > r.anchor /\ r.cam0 # r.cam1 /\ Gap(r.t0, r.t1) < Delta
              /\ {r.cam0, r.cam1} \cap Used(SubSeq(rows, 1, k - 1)) = {}

-----------------------------------------------------------------------------
\* Shared poses and their ground truth

\* shared_timestamp_intersection, and its copies in the codec and the verifier: a
\* merge of two increasing sequences.
Merge(left, right) ==
    LET merge[i \in 1..Len(left) + 1, j \in 1..Len(right) + 1] ==
            IF i > Len(left) \/ j > Len(right) THEN <<>>
            ELSE IF left[i] = right[j] THEN <<left[i]>> \o merge[i + 1, j + 1]
            ELSE IF left[i] < right[j] THEN merge[i + 1, j]
            ELSE merge[i, j + 1]
    IN  merge[1, 1]

\* bisect_left of Python's library: the first position whose value is not smaller.
BisectLeft(s, v) == 1 + Cardinality({i \in 1..Len(s) : s[i] < v})

Association(i, t, g, truth) ==
    [estimator |-> i, time |-> t, row |-> g, gap |-> Gap(t, truth[g])]

\* associate_nearest_ground_truth: the candidates are the first row of the value
\* below and the first row not below; a later candidate must be strictly nearer.
Associate(stamps, truth) ==
    LET nearest(t) ==
            LET at == BisectLeft(truth, t)
                below == IF at > 1 THEN BisectLeft(truth, truth[at - 1]) ELSE at
            IN  IF at > Len(truth) THEN below
                ELSE IF Gap(t, truth[at]) < Gap(t, truth[below]) THEN at ELSE below
        all == [i \in 1..Len(stamps) |-> Association(i, stamps[i], nearest(stamps[i]), truth)]
    IN  SelectSeq(all, LAMBDA a : a.gap =< Difference)

\* _nearest_associations of the codec: its own binary search, and the least pair
\* of distance and row.
LowerBound(s, high, v) ==
    LET search[lo \in 0..high, hi \in 0..high] ==
            IF lo >= hi THEN lo
            ELSE LET middle == (lo + hi) \div 2
                 IN  IF s[middle + 1] < v THEN search[middle + 1, hi] ELSE search[lo, middle]
    IN  search[0, high]

Nearest(stamps, truth) ==
    LET candidates(t) ==
            LET low == LowerBound(truth, Len(truth), t)
            IN  (IF low > 0 THEN {1 + LowerBound(truth, low, truth[low])} ELSE {})
                  \union (IF low < Len(truth) THEN {1 + low} ELSE {})
        least(t) == CHOOSE g \in candidates(t) : \A h \in candidates(t) :
                        \/ Gap(t, truth[g]) < Gap(t, truth[h])
                        \/ Gap(t, truth[g]) = Gap(t, truth[h]) /\ g =< h
        all == [i \in 1..Len(stamps) |-> Association(i, stamps[i], least(stamps[i]), truth)]
    IN  SelectSeq(all, LAMBDA a : a.gap =< Difference)

-----------------------------------------------------------------------------
\* What the populations are

\* The anchor walk pairs exactly by its rule: a row joins an anchor to the first
\* later message of the other camera, strictly closer than the bound; no message
\* is in two rows; and a camera message stays alone only if there is no such
\* message, it is too far, or an earlier anchor has it.  Every selection passes
\* the row validators of the assembler and of the verifier.
SelectionIsTheRule(ms) ==
    LET rows == Walk(ms)
        alone == {i \in 1..Len(ms) : ms[i].kind # "imu"} \ Used(rows)
    IN  /\ \A k \in 1..Len(rows) :
              /\ {rows[k].cam0, rows[k].cam1} = {rows[k].anchor, Candidate(ms, rows[k].anchor)}
              /\ Gap(rows[k].t0, rows[k].t1) < Delta
        /\ Cardinality(Used(rows)) = 2 * Len(rows)
        /\ \A i \in alone :
              LET j == Candidate(ms, i)
              IN  \/ j = 0 \/ Gap(ms[i].time, ms[j].time) >= Delta
                  \/ \E k \in 1..Len(rows) : j \in {rows[k].cam0, rows[k].cam1} /\ rows[k].anchor < i
        /\ Selects(ms) => PairRows(rows) /\ DetachedPairRows(rows)

\* Both association algorithms choose, for every pose within the inclusive bound
\* of some ground-truth row, the first of its nearest rows, repeated rows and ties
\* included.
AssociationIsNearest(stamps, truth) ==
    LET least(t) == Min({Gap(t, truth[h]) : h \in 1..Len(truth)})
        first(t) == Min({g \in 1..Len(truth) : Gap(t, truth[g]) = least(t)})
        close == SelectSeq(stamps, LAMBDA t : least(t) =< Difference)
        found == Associate(stamps, truth)
    IN  /\ found = Nearest(stamps, truth)
        /\ [k \in 1..Len(found) |-> <<found[k].time, found[k].row>>] =
              [k \in 1..Len(close) |-> <<close[k], first(close[k])>>]

\* The merge of two trajectories' times is their intersection, in order.
MergeIsIntersection(left, right) ==
    Merge(left, right) = SelectSeq(left, LAMBDA t : Contains(right, t))
=============================================================================
