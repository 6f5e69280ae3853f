------------------------------- MODULE MCHost -------------------------------
(* The transaction, the helper, the placement and the timing pairs, each on   *)
(* its own: a behaviour is one of one part, the others keep an initial state. *)
(* Two controls of the helper are persistent; two sessions take one run pair  *)
(* each.                                                                      *)
EXTENDS Host

VARIABLE part

suite == <<part, vars, helper, placement, timing>>

\* Small quantiles and limits, four CPUs in two cores.
MCP50 == <<1, 2>>
MCP95 == <<19, 20>>
MCLimit50 == <<11, 10>>
MCLimit95 == <<23, 20>>
Decision == INSTANCE TimingDecision
Sample(p, r, s, d) == [primary |-> p, record |-> r, stamp |-> s, duration |-> d]
\* Runs of three samples: one may be before the boundary, not primary or a repeat.
MCRuns == {<<Sample(p, r, 1, d1), Sample(TRUE, 2, s, d2), Sample(TRUE, 3, 3, d3)>> :
              p \in BOOLEAN, r \in {0, 2}, s \in {1, 2}, d1 \in {0, 2}, d2 \in {1, 3}, d3 \in {0, 2}}
MCProbes == {[left |-> l, right |-> r, boundary |-> b] : l \in MCRuns, r \in MCRuns,
                b \in {Decision!CheckedBoundary(0, 1, 0), Decision!CheckedBoundary(U64Max, 1, 0)}}
MCMedians == [1..3 -> {Decision!Reduced(n, d) : n \in 1..3, d \in {2, 3}}]
MCGroups == {{{0, 1}, {2, 3}}, {{0, 2}, {1, 3}}}
MCPlans ==
    {[estimator |-> {e}, helper |-> {a}, housekeeping |-> k, offline |-> o, online |-> {e, a} \union k,
      groups |-> g, cores |-> {[siblings |-> s, online |-> IF e \in s THEN {e} ELSE s \ o2,
                                offline |-> IF e \in s THEN s \ {e} ELSE s \intersect o2] : s \in g},
      cpuset |-> {e}, expectedOnline |-> [c \in 0..3 |-> c \notin o],
      defaultIrq |-> i, irqs |-> {i}] :
        e \in 0..3, a \in 0..3, k \in SUBSET (0..3), o \in SUBSET (0..3), o2 \in {{}, {3}},
        g \in MCGroups, i \in {{0}, {0, 1}}}

SuiteInit ==
    /\ part \in {"transaction", "helper", "placement", "timing"}
    /\ Init /\ Helper!Init /\ Placement!Init
    /\ part # "timing" => now = "apply" /\ timingFaults = 0
    /\ Timing!Init
InTransaction(step) == part = "transaction" /\ step /\ UNCHANGED <<part, helper, placement, timing>>
InHelper(step) == part = "helper" /\ step /\ UNCHANGED <<part, vars, placement, timing>>
SuiteNext ==
    \/ InTransaction(Next)
    \/ InHelper(Helper!Next)
    \/ part = "placement" /\ Placement!Next /\ UNCHANGED <<part, vars, helper, timing>>
    \/ part = "timing" /\ Timing!Next /\ UNCHANGED <<part, vars, helper, placement>>

\* The fairness of the two LiveSpecs.
SuiteSpec ==
    /\ SuiteInit /\ [][SuiteNext]_suite
    /\ WF_suite(InTransaction(GuardianWakes \/ GuardianRestores \/ GuardianReports))
    /\ WF_suite(InTransaction(EndMutation \/ RestoreControl \/ VerifyRestored \/ CancelGuardian
                              \/ RemoveJournal \/ AskGuardian \/ HearGuardian \/ Unwind))
    /\ WF_suite(InHelper(Helper!Recovery))
=============================================================================
