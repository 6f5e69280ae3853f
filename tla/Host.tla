-------------------------------- MODULE Host --------------------------------
(***************************************************************************)
(* The timing pairs and what keeps their host's controls: the transaction  *)
(* (extended) and, beside it, the privileged helper, the placement of the  *)
(* estimator's threads by its backend, and the campaign that measures.     *)
(***************************************************************************)
EXTENDS HostControls

CONSTANTS
    Steps, Runs, MaxSamples, MaxSessions,   \* PrivilegedHelper
    HelperFaults, HelperKills,              \* bounds: what goes wrong in it
    MaxThreads, Attempts,                   \* CpusetPlacement
    TimingPairs, TimingFaults,              \* TimingCampaign
    U64Max, P50, P95, Limit50, Limit95, LogicalCpus, ThreadsPerCore,
    Probes, MedianProbes, PlanProbes

\* A profile has finitely many persistent controls; the estimator has a leader.
ASSUME HelperAssumption == Steps \in Nat /\ Runs \in Nat \ {0}
ASSUME PlacementAssumption == MaxThreads \in Nat \ {0}
\* At least one pair is measured; a machine has finitely many processors; the
\* ratios of three pairs are exact and have a positive denominator.
ASSUME TimingAssumption ==
    /\ TimingPairs \in Nat \ {0} /\ LogicalCpus \in Nat
    /\ MedianProbes \subseteq [1..3 -> [num : Nat, den : Nat \ {0}]]

VARIABLES moved, pendingJournal, h, guard, script, gev, cev, archive, hfaults, hkills, sessions,
          live, born, home, place, goal, shot, first, rows, prior, batch, todo, tries, attempt,
          now, at, controls, latched, tainted, ev, stale, error, dir, outcome, timingFaults, probe

helper == <<moved, pendingJournal, h, guard, script, gev, cev, archive, hfaults, hkills, sessions>>
placement == <<live, born, home, place, goal, shot, first, rows, prior, batch, todo, tries, attempt>>
timing == <<now, at, controls, latched, tainted, ev, stale, error, dir, outcome, timingFaults, probe>>

Helper == INSTANCE PrivilegedHelper WITH
    MaxFaults <- HelperFaults, MaxKills <- HelperKills,
    changed <- moved, journal <- pendingJournal, faults <- hfaults, kills <- hkills
Placement == INSTANCE CpusetPlacement WITH pc <- place
Timing == INSTANCE TimingCampaign WITH
    Pairs <- TimingPairs, MaxFaults <- TimingFaults, pc <- now, host <- controls, faults <- timingFaults

\* PrivilegedHelper: the pending journal covers every changed control, and a
\* receipt tells the truth (cp2_timing_privileged_helper.py).
JournalHolds == Helper!PendingCoversHost /\ Helper!ReceiptIsTrue
\* PrivilegedHelper: the detached verifier accepts exactly the evidence of one
\* session (cp2_timing_privileged_helper.py).
VerifierIsExact == Helper!VerifierIsExact
\* PrivilegedHelper: a recovery in which nothing fails restores the host
\* (recover_pending).
RecoveryRestores == Helper!RecoveryRestores
\* CpusetPlacement: an accepted placement holds every thread of the estimator, a
\* validated restoration none (_create_cpuset, remove_cpuset).
PartitionHolds == Placement!PartitionHolds
\* TimingCampaign: what carries the destination name was measured on a held host
\* (run_timing_pair.py 1196-1581).
MeasuredIsHeld == Timing!MeasuredIsHeld
\* TimingCampaign: an ordinary failure leaves the host restored and no artifact
\* (run_timing_pair.py 1377-1444).
FailureIsClean == Timing!FailureIsClean
\* TimingCampaign: the decision on a pair is the exact one for the samples that
\* were measured, the reported ratio is the median of three, and a profile that
\* loads leaves the estimator's core to the estimator (cp2_timing_math.py
\* 557-943, cp2_timing_artifact.py 4009-4038, cp2_timing_profile.py 578-1001).
DecisionsAreExact == Timing!DecisionIsExact /\ Timing!PlanIsolates
=============================================================================
