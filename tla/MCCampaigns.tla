---------------------------- MODULE MCCampaigns ----------------------------
(* The campaigns, each on its own: a behaviour is one of one part, the others *)
(* keep an initial state.                                                     *)
EXTENDS Campaigns

VARIABLE part

suite == <<part, vars, trial, kaist>>

-----------------------------------------------------------------------------
\* One row with everything a row can have.
MCMatrix == <<[full |-> TRUE, rotation |-> TRUE, tum |-> TRUE]>>

\* Every adapter with both systems, scored and captured.
Request(a, s, m) == [adapter |-> a, system |-> s, mode |-> m]
MCRequests == {Request("generic", "S1", "scored"), Request("generic", "U0", "capture"),
               Request("kaist", "U0", "scored"), Request("kaist", "S1", "capture"),
               Request("rotation", "S1", "scored"), Request("rotation", "U0", "capture")}

\* The KAIST campaign: eight ways to call it.
Job(p, v, c, f) == [prepare |-> p, provenance |-> v, capture |-> c, flags |-> f, expected |-> TRUE]
MCFlags == {"intervals", "associations", "provenance"}
MCJobs == {Job(TRUE, TRUE, FALSE, {}), Job(FALSE, FALSE, FALSE, {}), Job(FALSE, TRUE, FALSE, {}),
           Job(FALSE, TRUE, TRUE, {}), Job(FALSE, TRUE, TRUE, {"associations"}), Job(FALSE, TRUE, TRUE, MCFlags),
           Job(FALSE, TRUE, FALSE, {"intervals"}),
           [Job(FALSE, TRUE, TRUE, MCFlags) EXCEPT !.expected = FALSE]}
\* Every log damaged once, the one with every flag twice.
MCLogProbes == {[flags |-> f, left |-> IF f = MCFlags THEN 2 ELSE 1] : f \in SUBSET MCFlags}
MCRows == {s \in UNION {[1..n -> 0..4] : n \in 0..3} : \A i \in 1..Len(s) - 1 : s[i] =< s[i + 1]}
MCRowProbes == [rows : MCRows, queries : [1..2 -> -1..5]]

-----------------------------------------------------------------------------
TrialWaits == req = Request("generic", "S1", "scored") /\ Trial!Init
KaistWaits == step = "paths" /\ arguments = Job(FALSE, FALSE, FALSE, {}) /\ kaistFaults = 0
              /\ file = Kaist!Clean /\ Kaist!Init
SuiteInit ==
    /\ Init
    /\ \/ part = "cross" /\ TrialWaits /\ KaistWaits
       \/ part = "trial" /\ Trial!Init /\ KaistWaits
       \/ part = "kaist" /\ TrialWaits /\ Kaist!Init
SuiteNext ==
    \/ part = "cross" /\ Next /\ UNCHANGED <<part, trial, kaist>>
    \/ part = "trial" /\ Trial!Next /\ UNCHANGED <<part, vars, kaist>>
    \/ part = "kaist" /\ Kaist!Next /\ UNCHANGED <<part, vars, trial>>
SuiteSpec == SuiteInit /\ [][SuiteNext]_suite
=============================================================================
