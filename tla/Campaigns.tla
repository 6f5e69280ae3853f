----------------------------- MODULE Campaigns -----------------------------
(***************************************************************************)
(* The campaigns: the cross-dataset campaign (extended) and, beside it,    *)
(* one trial of it and the KAIST campaign.  They share no state.           *)
(***************************************************************************)
EXTENDS CrossDataset, Integers

CONSTANTS
    Requests, TrialFaults, MaxChanges,            \* TrialRunner
    Tolerance, Callbacks, Jobs, KaistFaults,      \* KaistCampaign
    LogProbes, RowProbes

\* A trial is of one of the three adapters and of one of the two systems.
ASSUME TrialAssumption ==
    Requests \subseteq [adapter : {"generic", "kaist", "rotation"}, system : {"U0", "S1"},
                        mode : {"scored", "capture"}]
\* A run has callbacks; the rows of a trajectory are stamps in order, a query is
\* a stamp or -1.
ASSUME KaistAssumption ==
    /\ Callbacks \in Nat \ {0} /\ Tolerance \in Nat
    /\ \A p \in RowProbes :
          /\ p.rows \in Seq(Int) /\ p.queries \in Seq(Int)
          /\ \A i, j \in 1..Len(p.rows) : i < j => p.rows[i] =< p.rows[j]

VARIABLES
    req, stage, run, inputs, scored, truth, alive, result, sums, verdict, trialFaults, changes,
    step, arguments, file, seen, after, used, telemetry, written, counts, bound, published, ended,
    report, kaistFaults, asked

trial == <<req, stage, run, inputs, scored, truth, alive, result, sums, verdict, trialFaults, changes>>
kaist == <<step, arguments, file, seen, after, used, telemetry, written, counts, bound, published, ended,
           report, kaistFaults, asked>>

Trial == INSTANCE TrialRunner WITH MaxFaults <- TrialFaults, pc <- stage, faults <- trialFaults
Kaist == INSTANCE KaistCampaign WITH
    MaxFaults <- KaistFaults, pc <- step, job <- arguments, log <- telemetry, rows <- written,
    result <- published, outcome <- ended, faults <- kaistFaults, probe <- asked

-----------------------------------------------------------------------------
\* TrialRunner: a retained result is about an estimator that ran on the pinned
\* inputs and had no defect its status does not name, and a capture retained as a
\* mismatch differs from a scored run nobody touched (cross_dataset_trial.py
\* run_trial, cross_dataset_campaign.py validate_sequence_result).
RetainedIsTrue == Trial!RetainedIsTrue /\ Trial!MismatchIsProven
\* KaistCampaign: an accepted telemetry log is the log of one run
\* (kaist_vio_campaign.py 570-2662).
AcceptedIsOneRun == Kaist!AcceptedIsOneRun
\* KaistCampaign: rows are given to callbacks exactly where that is unambiguous
\* (event_ready_association.py 94-123, 387-397).
AssociationIsExact == Kaist!AssociationIsExact
\* KaistCampaign: a run reported as completed used the frozen inputs throughout
\* (kaist_vio_campaign.py 3713-4608, kaist_vio_reports.py 1374-1702).
ReportedIsFrozen == Kaist!ReportedIsFrozen
=============================================================================
