----------------------------- MODULE MCEvidence -----------------------------
(* Evidence and its readers: the unit report (extended) and the trace of a    *)
(* serial run, each on its own: a behaviour is one of one part, the other is  *)
(* off or keeps its initial state.                                            *)
EXTENDS UnitReport

VARIABLES part, bag, level, pairs, rows, failed, next, traj, queue, did, files, pc, mishaps, accepted

trace == <<bag, level, pairs, rows, failed, next, traj, queue, did, files, pc, mishaps, accepted>>
suite == <<part, vars, trace>>

-----------------------------------------------------------------------------
\* Two pairs, the second in the other order; three, one of them out of a message
\* no pair can use; and a message too late for its anchor.
MCMsg(k, t) == [kind |-> k, t |-> t]
MCBags == {<<MCMsg("cam0", 0), MCMsg("cam1", 1), MCMsg("imu", 3), MCMsg("cam1", 4), MCMsg("cam0", 5)>>,
           <<MCMsg("cam0", 0), MCMsg("cam1", 1), MCMsg("cam0", 2), MCMsg("cam0", 5), MCMsg("cam1", 5),
             MCMsg("cam1", 8), MCMsg("cam0", 9)>>}
MCOutcomes ==
    {[terminal |-> "committed_counted", feats |-> <<<<"yes", "yes">>, <<"no", "no">>>>, blocks |-> 2,
      base |-> TRUE, cand |-> TRUE],
     [terminal |-> "all_rejected", feats |-> <<<<"no", "none">>>>, blocks |-> 0, base |-> FALSE, cand |-> FALSE],
     [terminal |-> "empty_input", feats |-> <<>>, blocks |-> 0, base |-> FALSE, cand |-> FALSE]}
Trace == INSTANCE RuntimeTrace WITH
    Bags <- MCBags, Limit <- 2, Outcomes <- MCOutcomes, Coverage <- <<2, 3>>, Agreement <- <<2, 3>>,
    Counted <- 1, MaxFaults <- 1, faults <- mishaps

\* A build that keeps the two products apart, and one that links both libraries.
MCArgvs == {<<"strict", "define">>, <<"define", "strict", "undefine", "relaxed">>}
MCLink(out, refs) == [out |-> {out}, refs |-> refs, opaque |-> FALSE]
MCIsolated == [production_library |-> MCLink("production_library", {}),
               fault_library |-> MCLink("fault_library", {}),
               production_test |-> MCLink("production_test", {"production_library"}),
               fault_test |-> MCLink("fault_test", {"fault_library"})]
MCLinks == {MCIsolated,
            [MCIsolated EXCEPT !.production_test.refs = {"production_library", "fault_library"}]}

-----------------------------------------------------------------------------
TraceOff ==
    /\ bag = "off" /\ level = "off" /\ pairs = "off" /\ rows = "off" /\ failed = "off" /\ next = "off" /\ traj = "off"
    /\ queue = "off" /\ did = "off" /\ files = "off" /\ pc = "off" /\ mishaps = "off" /\ accepted = "off"
SuiteInit ==
    \/ part = "trace" /\ Trace!Init /\ Init
    \/ part = "report" /\ TraceOff /\ Init
SuiteNext ==
    \/ part = "trace" /\ Trace!Next /\ UNCHANGED <<part, vars>>
    \/ part = "report" /\ Next /\ UNCHANGED <<part, trace>>
SuiteSpec == SuiteInit /\ [][SuiteNext]_suite

-----------------------------------------------------------------------------
\* RuntimeTrace: an accepted trace tells of every pair what became of it, and
\* the trace of a faultless run is accepted (verify_report.py
\* _actual_validate_recorded_statistics, _actual_validate_sequence_traces,
\* cp2_timing_artifact.py _derive_run_samples).
TraceIsTheStory == part = "trace" => Trace!AcceptedIsTheStory
=============================================================================
