-------------------------- MODULE RecoveryContract --------------------------
(***************************************************************************)
(* What the long-gap recovery boundary promises to whoever consumes the    *)
(* pose stream: while an outage is being recovered from the live estimate  *)
(* is frozen; it is replaced only by a relocalisation that is newer and    *)
(* opens a new epoch with an empty map; and once recovery has been given   *)
(* up the estimate never changes again.                                    *)
(***************************************************************************)
EXTENDS Integers

VARIABLES mode, ts, map, epoch

cvars == <<mode, ts, map, epoch>>

Init == mode = "live" /\ ts = -1 /\ map = 0 /\ epoch = 0

\* Ordinary estimation.
Estimate == mode = "live" /\ mode' = "live" /\ ts' \in Int /\ map' \in Nat
            /\ epoch' = epoch

\* An outage is noticed: the estimate is held.
Hold == mode = "live" /\ mode' = "held" /\ UNCHANGED <<ts, map, epoch>>

\* A verified relocalisation replaces the held estimate.
Relocate == /\ mode = "held" /\ mode' = "live"
            /\ ts' \in Int /\ ts' > ts /\ map' = 0 /\ epoch' = epoch + 1

\* Recovery is given up for good.
GiveUp == mode = "held" /\ mode' = "lost" /\ UNCHANGED <<ts, map, epoch>>

Next == Estimate \/ Hold \/ Relocate \/ GiveUp

Spec == Init /\ [][Next]_cvars
=============================================================================
