--------------------------- MODULE TimingDecision ---------------------------
\* What a CP2-E timing campaign decides without touching the host: whether a
\* frozen profile isolates the estimator's processor, and whether the measured
\* durations of the two modes pass the ratio gates.  Durations are integers of
\* nanoseconds and every quantile and ratio is an exact rational [num, den].
EXTENDS Integers, Sequences, SequencesExt, FiniteSetsExt

CONSTANTS U64Max,     \* the largest unsigned 64-bit instant
          P50, P95,   \* the quantiles, <<num, den>>
          Limit50, Limit95,  \* the largest candidate/baseline ratios, <<num, den>>
          LogicalCpus, ThreadsPerCore

Gcd(a, b) == Max({d \in 1..Max({a, b, 1}) : a % d = 0 /\ b % d = 0})
Reduced(n, d) == [num |-> n \div Gcd(n, d), den |-> d \div Gcd(n, d)]
Refused == [num |-> 0, den |-> 0]

-----------------------------------------------------------------------------
\* Populations.  A run is a sequence of samples [primary, record, stamp,
\* duration] in invocation order.

\* The warm-up boundary; -1 when it overflows.
CheckedBoundary(begin, offset, warmup) ==
    IF begin + offset + warmup > U64Max THEN -1 ELSE begin + offset + warmup

Eligible(run, boundary) ==
    {i \in 1..Len(run) : run[i].primary /\ run[i].record >= boundary}

\* _eligible_by_timestamp: a stamp that comes twice among the eligible samples,
\* or no eligible sample at all, refuses the run.
EligibleByTimestamp(run, boundary) ==
    LET e == Eligible(run, boundary)
    IN  /\ e # {}
        /\ \A i, j \in e : run[i].stamp = run[j].stamp => i = j

\* The stamps both modes measured, in order, and the durations at them.
Common(l, r, boundary) ==
    SetToSortSeq({l[i].stamp : i \in Eligible(l, boundary)}
                    \intersect {r[i].stamp : i \in Eligible(r, boundary)}, <)
DurationsAt(run, boundary, stamps) ==
    [k \in 1..Len(stamps) |->
        run[CHOOSE i \in Eligible(run, boundary) : run[i].stamp = stamps[k]].duration]

\* linear_rank, zero-based.
LinearRank(count, q) ==
    LET scaled == (count - 1) * q[1]
        rest == scaled % q[2]
        low == scaled \div q[2]
    IN  [low |-> low,
         high |-> IF rest = 0 THEN low ELSE low + 1,
         weight |-> IF rest = 0 THEN [num |-> 0, den |-> 1] ELSE Reduced(rest, q[2])]

SortedSamples(samples) == SortSeq(samples, LAMBDA a, b : a < b)

QuantileFromSorted(ordered, q) ==
    LET r == LinearRank(Len(ordered), q)
        w == r.weight
    IN  Reduced((w.den - w.num) * ordered[r.low + 1] + w.num * ordered[r.high + 1], w.den)

Quantile(samples, q) == QuantileFromSorted(SortedSamples(samples), q)

\* exact_candidate_baseline_ratio: a zero baseline has no ratio.
CandidateBaselineRatio(candidate, baseline) ==
    IF baseline.num = 0 THEN Refused
    ELSE Reduced(candidate.num * baseline.den, candidate.den * baseline.num)

RatioGate(baseline, candidate, limit) ==
    candidate.num * baseline.den * limit[2] =< baseline.num * candidate.den * limit[1]

\* timing_pair_result, Refused in place of an exception.
PairResult(l, r, modes, boundary) ==
    LET stamps == Common(l, r, boundary)
        base == DurationsAt(IF modes[1] = "nullspace" THEN l ELSE r, boundary, stamps)
        cand == DurationsAt(IF modes[1] = "nullspace" THEN r ELSE l, boundary, stamps)
        ok == /\ boundary # -1
              /\ EligibleByTimestamp(l, boundary) /\ EligibleByTimestamp(r, boundary)
              /\ stamps # <<>>
    IN  IF ~ok \/ Quantile(base, P50).num = 0 \/ Quantile(base, P95).num = 0
        THEN [ok |-> FALSE, passed |-> FALSE, p50 |-> Refused, p95 |-> Refused]
        ELSE [ok |-> TRUE,
              passed |-> /\ RatioGate(Quantile(base, P50), Quantile(cand, P50), Limit50)
                         /\ RatioGate(Quantile(base, P95), Quantile(cand, P95), Limit95),
              p50 |-> CandidateBaselineRatio(Quantile(cand, P50), Quantile(base, P50)),
              p95 |-> CandidateBaselineRatio(Quantile(cand, P95), Quantile(base, P95))]

CompareExactRatios(a, b) == a.num * b.den - b.num * a.den
Swapped(s, i) ==
    IF CompareExactRatios(s[i], s[i + 1]) > 0
    THEN [s EXCEPT ![i] = s[i + 1], ![i + 1] = s[i]] ELSE s
\* Mutant: the last of the three exchanges is left out.
MedianOfTwoExchanges(s) == Swapped(Swapped(s, 1), 1)[2]
\* median_of_three_ratios: three exchanges, then the middle one.
MedianOfThreeRatios(s) == Swapped(Swapped(Swapped(s, 1), 2), 1)[2]

\* timing_campaign_result: every pair must pass; the medians only report.
CampaignResult(pairs) ==
    [passed |-> \A k \in 1..Len(pairs) : pairs[k].passed,
     p50 |-> MedianOfThreeRatios([k \in 1..Len(pairs) |-> pairs[k].p50]),
     p95 |-> MedianOfThreeRatios([k \in 1..Len(pairs) |-> pairs[k].p95])]

-----------------------------------------------------------------------------
\* The processor plan of a profile: four role sets, the physical cores as sets
\* of siblings with their own online and offline sets, one record per CPU, and
\* the CPUs each interrupt may reach.

Cpus == 0..LogicalCpus - 1

RuntimeHolds(p) ==
    /\ \A g \in p.groups : Cardinality(g) = ThreadsPerCore
    /\ UNION p.groups = Cpus
    /\ \A g, h \in p.groups : g # h => g \intersect h = {}

RolesHold(p) ==
    LET roles == <<p.estimator, p.helper, p.housekeeping, p.offline>>
    IN  /\ Cardinality(p.estimator) = 1 /\ p.helper # {} /\ p.housekeeping # {}
        /\ \A i, j \in 1..4 : i # j => roles[i] \intersect roles[j] = {}
        /\ UNION {roles[i] : i \in 1..4} = Cpus
        /\ p.online = p.estimator \union p.helper \union p.housekeeping

\* Mutant: a core's own online list is taken as it stands.
CoreHoldsAlone(p, c) ==
    /\ Cardinality(c.siblings) = ThreadsPerCore
    /\ c.online \intersect c.offline = {} /\ c.online \union c.offline = c.siblings
    /\ c.siblings \intersect p.estimator # {} => c.siblings \intersect p.estimator = c.online
\* One SMT core: its lists partition it, agree with the global plan, and on the
\* estimator's core only the estimator is online.
CoreHolds(p, c) ==
    /\ Cardinality(c.siblings) = ThreadsPerCore
    /\ c.online \intersect c.offline = {} /\ c.online \union c.offline = c.siblings
    /\ c.online = c.siblings \intersect p.online
    /\ c.offline = c.siblings \intersect p.offline
    /\ c.siblings \intersect p.estimator # {} => c.siblings \intersect p.estimator = c.online

CoresHold(p) ==
    /\ \A c \in p.cores : CoreHolds(p, c)
    /\ UNION {c.siblings : c \in p.cores} = Cpus
    /\ \A c, d \in p.cores : c.siblings \intersect d.siblings # {} => c = d
    /\ {c.siblings : c \in p.cores} = p.groups

\* cpuset and the typed per-CPU controls follow the plan.
CpusetHolds(p) == p.cpuset = p.estimator
CpuControlsHold(p) == \A c \in Cpus : p.expectedOnline[c] = (c \notin p.offline)

\* No interrupt, and no interrupt that appears later, may reach a CPU that is
\* not for housekeeping.
InterruptsHold(p) ==
    /\ p.defaultIrq # {} /\ p.defaultIrq \subseteq p.housekeeping
    /\ p.irqs # {} /\ \A a \in p.irqs : a # {} /\ a \subseteq p.housekeeping

ProfileLoads(p) ==
    /\ RuntimeHolds(p) /\ RolesHold(p) /\ CoresHold(p)
    /\ CpusetHolds(p) /\ CpuControlsHold(p) /\ InterruptsHold(p)

-----------------------------------------------------------------------------
\* Reference definitions, used by the properties only.

\* The k-th smallest duration (from zero), found by counting.
OrderStatistic(f, k) ==
    CHOOSE v \in Range(f) : /\ Cardinality({t \in DOMAIN f : f[t] < v}) =< k
                            /\ k < Cardinality({t \in DOMAIN f : f[t] =< v})

\* den times the linear quantile of the durations f.
ScaledQuantile(f, q) ==
    LET h == (Cardinality(DOMAIN f) - 1) * q[1]
        lo == h \div q[2]
    IN  IF h % q[2] = 0 THEN q[2] * OrderStatistic(f, lo)
        ELSE (q[2] - (h % q[2])) * OrderStatistic(f, lo) + (h % q[2]) * OrderStatistic(f, lo + 1)

\* A pair decision is exact when it is the decision on the stamps measured after
\* warm-up by both modes, by the two quantiles of the unsorted durations.
ExactPair(l, r, modes, boundary, result) ==
    LET ll == Eligible(l, boundary)
        rr == Eligible(r, boundary)
        stamps == {l[i].stamp : i \in ll} \intersect {r[i].stamp : i \in rr}
        dur(run, e) == [t \in stamps |-> run[CHOOSE i \in e : run[i].stamp = t].duration]
        base == IF modes[1] = "nullspace" THEN dur(l, ll) ELSE dur(r, rr)
        cand == IF modes[1] = "nullspace" THEN dur(r, rr) ELSE dur(l, ll)
        within(q, limit) == limit[2] * ScaledQuantile(cand, q) =< limit[1] * ScaledQuantile(base, q)
    IN  result.ok =>
            /\ result.passed = (within(P50, Limit50) /\ within(P95, Limit95))
            /\ result.p50.num * ScaledQuantile(base, P50) = result.p50.den * ScaledQuantile(cand, P50)
            /\ result.p95.num * ScaledQuantile(base, P95) = result.p95.den * ScaledQuantile(cand, P95)

\* The median has two of the three ratios on each side, itself included.
IsMedian(m, s) ==
    /\ Cardinality({k \in 1..3 : CompareExactRatios(s[k], m) =< 0}) >= 2
    /\ Cardinality({k \in 1..3 : CompareExactRatios(s[k], m) >= 0}) >= 2
    /\ \E k \in 1..3 : s[k] = m

\* An accepted plan leaves the estimator alone: nothing else is online on its
\* physical core, and no interrupt and no other role reaches that core.
Isolates(p) ==
    \A e \in p.estimator, c \in p.cores : e \in c.siblings =>
        /\ \A s \in c.siblings \ {e} : s \in p.offline /\ ~p.expectedOnline[s]
        /\ (p.helper \union p.housekeeping \union p.defaultIrq \union UNION p.irqs)
                \intersect c.siblings = {}
=============================================================================
