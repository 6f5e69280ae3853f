---------------------------- MODULE StateWindow ----------------------------
(***************************************************************************)
(* The filter's state vector and covariance through one camera update      *)
(* after another: StateHelper's clone, initialize and marginalize, the     *)
(* order do_feature_propagate_update calls them in, and UpdaterSLAM's      *)
(* anchor changes in between.                                              *)
(*                                                                         *)
(* The numbers are abstracted: a covariance row is the variable it is      *)
(* about, so a block copied from or to the wrong rows is visible.  A clone *)
(* is named by its time, a landmark by its feature id.                     *)
(***************************************************************************)
EXTENDS Integers, Sequences, FiniteSets

CONSTANTS
    Feats,        \* feature ids
    Aruco,        \* those of them that are ARUCO corners
    Relative,     \* landmarks are anchored in a clone
    ImuSize,      \* rows of the IMU and the calibration that stay for good
    PoseSize,     \* rows of a clone
    LandmarkSize, \* rows of a landmark
    MaxCloneSize, \* StateOptions::max_clone_size
    MaxSlam,      \* StateOptions::max_slam_features
    MaxTime       \* bound: the last camera time explored

ASSUME FeatAssumption == Aruco \subseteq Feats /\ Relative \in BOOLEAN
ASSUME SizeAssumption ==
    /\ ImuSize \in Nat \ {0} /\ PoseSize \in Nat \ {0} /\ LandmarkSize \in Nat \ {0}
    /\ MaxCloneSize \in Nat \ {0} /\ MaxSlam \in Nat \ {0} /\ MaxTime \in Nat

VARIABLES
    variables, \* _variables: the top-level variables, with id and size
    cov,       \* _Cov: what each row is about
    ts,        \* _timestamp
    clones,    \* keys of _clones_IMU
    anchor,    \* _features_SLAM: feature -> _anchor_clone_timestamp
    lost,      \* landmarks flagged should_marg, still in the state
    again,     \* of those, the ones whose track is alive: they are tried again
    quota,     \* new landmarks this frame may still add
    pc         \* where do_feature_propagate_update is

vars == <<variables, cov, ts, clones, anchor, lost, again, quota, pc>>

Slam == DOMAIN anchor
ImuVar == <<"imu", 0>>
CloneVar(t) == <<"clone", t>>
LandmarkVar(f) == <<"landmark", f>>

Rows(name, n) == [k \in 1..n |-> name]
EnoughClones == IF MaxCloneSize < 5 THEN MaxCloneSize ELSE 5
MargTimestep == CHOOSE m \in clones : \A x \in clones : m <= x

---------------------------------------------------------------------------
\* StateHelper.

\* clone() and initialize_invertible(): resize the covariance, give the new
\* variable the rows at its old end, and push it back.
Insert(name, size) ==
    /\ variables' = Append(variables, [name |-> name, id |-> Len(cov), size |-> size])
    /\ cov' = cov \o Rows(name, size)

\* Mutant: variables behind the removed one keep their place.
MarginalizeNoShift(name) ==
    \E k \in DOMAIN variables :
        /\ variables[k].name = name
        /\ LET m == variables[k]
           IN  /\ cov' = SubSeq(cov, 1, m.id) \o SubSeq(cov, m.id + m.size + 1, Len(cov))
               /\ variables' = [j \in 1..(Len(variables) - 1) |->
                                  IF j < k THEN variables[j] ELSE variables[j + 1]]

\* marginalize(): cut the variable's rows out and move the ids behind it.
\* It exits when the variable is not in the state.
Marginalize(name) ==
    \E k \in DOMAIN variables :
        /\ variables[k].name = name
        /\ LET m == variables[k]
               Moved(v) == IF v.id > m.id THEN [v EXCEPT !.id = v.id - m.size] ELSE v
           IN  /\ cov' = SubSeq(cov, 1, m.id) \o SubSeq(cov, m.id + m.size + 1, Len(cov))
               /\ variables' = [j \in 1..(Len(variables) - 1) |->
                                  IF j < k THEN Moved(variables[j])
                                           ELSE Moved(variables[j + 1])]

Fresh(t) ==
    /\ variables = <<[name |-> ImuVar, id |-> 0, size |-> ImuSize]>>
    /\ cov = Rows(ImuVar, ImuSize)
    /\ ts = t /\ clones = {} /\ anchor = [f \in {} |-> 0]
    /\ lost = {} /\ again = {} /\ quota = 0 /\ pc = "idle"

Init == Fresh(0)

---------------------------------------------------------------------------
\* One camera frame.

\* A zero-velocity update moves the state time and leaves the window alone.
ZeroVelocity(t) ==
    /\ pc = "idle" /\ t > ts /\ ts' = t
    /\ UNCHANGED <<variables, cov, clones, anchor, lost, again, quota, pc>>

\* commit_long_gap_recovery puts a fresh State at t in place.
CommitRecovery(t) ==
    /\ pc = "idle" /\ t > ts
    /\ variables' = <<[name |-> ImuVar, id |-> 0, size |-> ImuSize]>>
    /\ cov' = Rows(ImuVar, ImuSize)
    /\ ts' = t /\ clones' = {} /\ anchor' = [f \in {} |-> 0]
    /\ lost' = {} /\ again' = {} /\ quota' = 0 /\ pc' = "idle"

\* propagate_and_clone, then augment_clone; the frame ends here while there
\* are too few clones for an update.
PropagateAndClone(t) ==
    /\ pc = "idle" /\ t > ts
    /\ Insert(CloneVar(t), PoseSize)
    /\ ts' = t /\ clones' = clones \cup {t}
    /\ pc' = IF Cardinality(clones') < EnoughClones THEN "idle" ELSE "select"
    /\ UNCHANGED <<anchor, lost, again, quota>>

\* A second camera's frame at the time the state was propagated to (one at
\* the time of a zero-velocity update is absorbed by that update).
SameTimeFrame ==
    /\ pc = "idle" /\ ts \in clones /\ Cardinality(clones) >= EnoughClones
    /\ pc' = "select"
    /\ UNCHANGED <<variables, cov, ts, clones, anchor, lost, again, quota>>

\* Landmarks there is still room for: ARUCO ones do not count.
RoomFor(s) == MaxSlam + Cardinality(s \cap Aruco) - Cardinality(s)

\* New landmarks are picked, within the budget and only once the window is
\* full; landmarks that lost their track or failed their updates are flagged.
\* A failed one whose track is alive ends up among the new ones, on top of
\* the budget.
SelectFeatures(l, failed) ==
    /\ pc = "select"
    /\ l \subseteq Slam \ Aruco /\ failed \subseteq l
    /\ lost' = l /\ again' = failed
    /\ quota' = IF Cardinality(clones) > MaxCloneSize \/ Cardinality(clones) > 5
                THEN RoomFor(Slam) ELSE 0
    /\ pc' = "marg_slam"
    /\ UNCHANGED <<variables, cov, ts, clones, anchor>>

\* marginalize_slam, one landmark of its loop.
MarginalizeLandmark(f) ==
    /\ pc = "marg_slam" /\ f \in lost
    /\ Marginalize(LandmarkVar(f))
    /\ anchor' = [g \in Slam \ {f} |-> anchor[g]]
    /\ lost' = lost \ {f}
    /\ UNCHANGED <<ts, clones, again, quota, pc>>

\* The MSCKF and SLAM updates change numbers only.
EkfUpdate ==
    /\ pc = "marg_slam" /\ lost = {}
    /\ pc' = "delayed"
    /\ UNCHANGED <<variables, cov, ts, clones, anchor, lost, again, quota>>

\* delayed_init of a track: its anchor is the clone of its last measurement.
\* ARUCO corners come on top of the budget.
DelayedInit(f, a) ==
    /\ pc = "delayed" /\ f \notin Slam /\ a \in clones
    /\ f \in Aruco \cup again \/ quota > 0
    /\ Insert(LandmarkVar(f), LandmarkSize)
    /\ anchor' = [g \in Slam \cup {f} |-> IF g = f THEN a ELSE anchor[g]]
    /\ quota' = IF f \in Aruco \cup again THEN quota ELSE quota - 1
    /\ again' = again \ {f}
    /\ UNCHANGED <<ts, clones, lost, pc>>

\* Mutant: landmarks keep the anchor that is about to go.
ChangeAnchorsNot ==
    /\ pc = "delayed" /\ pc' = "marg_clone"
    /\ UNCHANGED <<variables, cov, ts, clones, anchor, lost, again, quota>>

\* change_anchors: landmarks anchored in the clone about to be dropped move
\* to the newest one.  (Global representations have no anchor.)
ChangeAnchors ==
    /\ pc = "delayed" /\ pc' = "marg_clone"
    /\ anchor' = IF Relative /\ Cardinality(clones) > MaxCloneSize
                 THEN [f \in Slam |-> IF anchor[f] = MargTimestep THEN ts ELSE anchor[f]]
                 ELSE anchor
    /\ UNCHANGED <<variables, cov, ts, clones, lost, again, quota>>

\* marginalize_old_clone.
MarginalizeOldClone ==
    /\ pc = "marg_clone" /\ pc' = "idle"
    /\ IF Cardinality(clones) > MaxCloneSize
         THEN /\ Marginalize(CloneVar(MargTimestep))
              /\ clones' = clones \ {MargTimestep}
         ELSE UNCHANGED <<variables, cov, clones>>
    /\ quota' = 0 /\ again' = {}
    /\ UNCHANGED <<ts, anchor, lost>>

Times == 1..MaxTime

Next ==
    \/ \E t \in Times : ZeroVelocity(t) \/ CommitRecovery(t) \/ PropagateAndClone(t)
    \/ SameTimeFrame
    \/ \E l \in SUBSET Feats : \E failed \in SUBSET l : SelectFeatures(l, failed)
    \/ \E f \in Feats : MarginalizeLandmark(f)
    \/ EkfUpdate
    \/ \E f \in Feats, a \in Times : DelayedInit(f, a)
    \/ ChangeAnchors
    \/ MarginalizeOldClone

Spec == Init /\ [][Next]_vars

---------------------------------------------------------------------------
\* Properties.

\* The variables tile the covariance in order: each starts where the one
\* before it ends and the last one ends with the matrix.
Tiled ==
    /\ variables # <<>> /\ variables[1].id = 0
    /\ \A k \in 1..(Len(variables) - 1) :
         variables[k + 1].id = variables[k].id + variables[k].size
    /\ Len(cov) = variables[Len(variables)].id + variables[Len(variables)].size

\* Every row a variable's id and size point at is a row about that variable:
\* no insertion or marginalisation leaves an id behind.
CovarianceAligned ==
    /\ Tiled
    /\ \A k \in DOMAIN variables : \A r \in 1..variables[k].size :
         cov[variables[k].id + r] = variables[k].name

\* _variables and the two maps into it name the same clones and landmarks,
\* each once.
MapsAgree ==
    /\ \A j, k \in DOMAIN variables : variables[j].name = variables[k].name => j = k
    /\ {variables[k].name : k \in DOMAIN variables}
         = {ImuVar} \cup {CloneVar(t) : t \in clones} \cup {LandmarkVar(f) : f \in Slam}

\* No landmark is expressed in the frame of a clone that has left the window
\* (change_anchors runs before marginalize_old_clone; its own assertion and
\* every _clones_IMU.at(anchor) rest on this).
AnchorsAlive == Relative => \A f \in Slam : anchor[f] \in clones

=============================================================================
