--------------------------- MODULE MCSequencePair ---------------------------
EXTENDS SequencePair
Msg(k, t) == [kind |-> k, time |-> t]
MCFrozen == <<Msg("cam0", 0), Msg("cam1", 1), Msg("cam1", 3), Msg("imu", 3), Msg("cam0", 4)>>
\* Every bag of up to four messages at times that do not decrease, and the frozen one.
Kinds == {"imu", "cam0", "cam1"}
MCMessages == {MCFrozen} \union
    {[i \in 1..4 |-> Msg(k[i], t[i])] : k \in [1..4 -> Kinds],
        t \in {u \in [1..4 -> 0..4] : u[1] = 0 /\ \A i \in 1..3 : u[i] =< u[i + 1]}}
MCTruth == <<1, 1, 3, 6>>
MCTruths == {t \in [1..4 -> 0..6] : \A i \in 1..3 : t[i] =< t[i + 1]} \union {MCTruth}
MCStamps == {<<1, 2, 4>>, <<0, 1, 2, 4, 5>>, <<3, 6>>}
MCPoseTimes == [m \in Modes |-> IF m = "nullspace" THEN <<0, 1, 2, 4, 5>> ELSE <<1, 2, 4>>]
=============================================================================
