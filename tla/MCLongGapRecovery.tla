------------------------- MODULE MCLongGapRecovery -------------------------
(* Instances of LongGapRecovery for TLC: three points, two of them within  *)
(* the radius of each other, the third far away.                           *)
EXTENDS LongGapRecovery

MCPositions == {<<0, 0, 0>>, <<1, 0, 1>>, <<0, 5, 0>>}

(* The camera clock runs one tick ahead of the IMU clock. *)
MCNegativeDt == -1
=============================================================================
