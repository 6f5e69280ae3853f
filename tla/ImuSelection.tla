---------------------------- MODULE ImuSelection ----------------------------
(***************************************************************************)
(* Propagator::select_imu_readings, one step per loop iteration: which     *)
(* inertial readings are integrated to move the state from time0 to time1. *)
(* A reading is its timestamp; interpolating two readings at a time gives  *)
(* a reading at that time.  Times that differ by less than 1e-12 s are     *)
(* equal ticks.                                                            *)
(***************************************************************************)
EXTENDS Integers, Sequences

CONSTANTS
    Ticks,      \* the timestamps considered
    MaxReadings \* bound: length of the history

VARIABLES
    imu_data,     \* the readings the propagator holds, oldest first
    time0, time1, \* the interval asked for
    i,            \* loop index (of the readings, then of prop_data)
    prop_data,    \* the readings selected so far
    degenerate,   \* a reading was interpolated between two equal times
    pc            \* "loop", "stretch", "dedup", "done"

input == <<imu_data, time0, time1>>
vars == <<input, i, prop_data, degenerate, pc>>

Nondecreasing(s) == \A a, b \in DOMAIN s : a < b => s[a] <= s[b]
Increasing(s) == \A a, b \in DOMAIN s : a < b => s[a] < s[b]
Last(s) == s[Len(s)]

\* The history is in arrival order (drivers may repeat a timestamp), and every
\* caller but a late zero-velocity test asks for a proper interval.
Init ==
    /\ \E n \in 0..MaxReadings : imu_data \in [1..n -> Ticks]
    /\ Nondecreasing(imu_data)
    /\ time0 \in Ticks /\ time1 \in Ticks /\ time0 < time1
    /\ i = 1 /\ prop_data = <<>> /\ degenerate = FALSE
    /\ pc = IF imu_data = <<>> THEN "done" ELSE "loop"

InLoop == pc = "loop" /\ i < Len(imu_data)
Continue == i' = i + 1 /\ UNCHANGED <<input, degenerate, pc>>
Break == pc' = "stretch" /\ UNCHANGED <<input, degenerate, i>>

\* CASE 1: the reading interval contains time0; cut it there.
Starts == imu_data[i + 1] > time0 /\ imu_data[i] < time0

\* Mutant: the comparison with time0 is strict.
InsideStrict == imu_data[i] > time0 /\ imu_data[i + 1] <= time1

\* CASE 2: the whole reading interval is inside.
Inside == imu_data[i] >= time0 /\ imu_data[i + 1] <= time1

CutStart ==
    /\ InLoop /\ Starts
    /\ prop_data' = Append(prop_data, time0)
    /\ Continue

TakeWhole ==
    /\ InLoop /\ ~Starts /\ Inside
    /\ prop_data' = Append(prop_data, imu_data[i])
    /\ Continue

\* CASE 3: the reading interval passes time1; add what is missing and stop.
EndCut ==
    IF imu_data[i] > time1
      THEN Append(prop_data, time1)
      ELSE Append(prop_data, imu_data[i])

CutEnd ==
    /\ InLoop /\ ~Starts /\ ~Inside /\ imu_data[i + 1] > time1
    /\ prop_data' = IF imu_data[i] > time1 /\ i = 1 THEN prop_data
                    ELSE IF Last(EndCut) # time1 THEN Append(EndCut, time1)
                    ELSE EndCut
    /\ Break

\* The reading interval is before time0.
Before ==
    /\ InLoop /\ ~Starts /\ ~Inside /\ imu_data[i + 1] <= time1
    /\ UNCHANGED prop_data
    /\ Continue

LoopEnds ==
    /\ pc = "loop" /\ i >= Len(imu_data)
    /\ UNCHANGED prop_data
    /\ Break

\* Nothing selected: return.  Readings that end before time1: the last two
\* are extrapolated to it, a division by zero if they have one timestamp.
Short == prop_data # <<>> /\ Last(prop_data) # time1

Stretch ==
    /\ pc = "stretch"
    /\ prop_data' = IF Short THEN Append(prop_data, time1) ELSE prop_data
    /\ degenerate' = (Short /\ imu_data[Len(imu_data) - 1] = Last(imu_data))
    /\ pc' = IF prop_data = <<>> THEN "done" ELSE "dedup"
    /\ i' = 1
    /\ UNCHANGED input

\* Erase the first of two readings at one time; the index stays.
DropZeroDt ==
    /\ pc = "dedup" /\ i < Len(prop_data) /\ prop_data[i + 1] = prop_data[i]
    /\ prop_data' = SubSeq(prop_data, 1, i - 1) \o SubSeq(prop_data, i + 1, Len(prop_data))
    /\ UNCHANGED <<input, degenerate, i, pc>>

KeepDt ==
    /\ pc = "dedup" /\ i < Len(prop_data) /\ prop_data[i + 1] # prop_data[i]
    /\ i' = i + 1 /\ UNCHANGED <<input, prop_data, degenerate, pc>>

Return ==
    /\ pc = "dedup" /\ i >= Len(prop_data)
    /\ pc' = "done" /\ UNCHANGED <<input, i, degenerate, prop_data>>

Next == CutStart \/ TakeWhole \/ CutEnd \/ Before \/ LoopEnds
        \/ Stretch \/ DropZeroDt \/ KeepDt \/ Return

Spec == Init /\ [][Next]_vars

---------------------------------------------------------------------------
\* Properties.

\* The readings are enough for the interval: one at or before its start and
\* one after it (LongGapRecovery's Covers).
Covers ==
    /\ \E a \in DOMAIN imu_data : imu_data[a] <= time0
    /\ \E a \in DOMAIN imu_data : imu_data[a] > time0

\* The result integrates over exactly [time0, time1].
Spans ==
    Len(prop_data) >= 2 /\ prop_data[1] = time0 /\ Last(prop_data) = time1

\* It uses every reading strictly in between and no other.
UsesAll ==
    {prop_data[a] : a \in DOMAIN prop_data}
      = {time0, time1} \cup
        {imu_data[a] : a \in {b \in DOMAIN imu_data :
                                time0 < imu_data[b] /\ imu_data[b] < time1}}

\* propagate_and_clone's assertion on the summed time holds whenever the
\* history covers the start of the interval and fails whenever it begins only
\* after it; once a reading at or past time1 has arrived, as callback_inertial
\* waits for, no reading in between is skipped and none is interpolated over a
\* zero interval.  Whatever the history, no step of the integration has a zero or
\* negative length ("This would cause the noise covariance to be Infinity").
SelectsExactly ==
    pc = "done" =>
        /\ Covers => Spans
        /\ Spans => \E a \in DOMAIN imu_data : imu_data[a] <= time0
        /\ Covers /\ Last(imu_data) >= time1 => UsesAll
        /\ degenerate => time1 > Last(imu_data)
        /\ Increasing(prop_data)
=============================================================================
