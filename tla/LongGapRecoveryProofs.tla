----------------------- MODULE LongGapRecoveryProofs -----------------------
EXTENDS LongGapRecovery, WellFoundedInduction, FiniteSetTheorems, TLAPS

\* State::margtimestep returns a clone time, and none is older.
LEMMA MargTimestepIsOldest ==
    ASSUME NEW c \in SUBSET Nat, c # {}
    PROVE  MargTimestep(c) \in c /\ \A x \in c : MargTimestep(c) <= x
<1> DEFINE below == {0..x : x \in c}
<1>1. below \subseteq FiniteSubsetsOf(Nat) /\ below # {}
  <2>1. ASSUME NEW x \in c PROVE 0..x \in FiniteSubsetsOf(Nat)
    <3>1. IsFiniteSet(0..x) /\ 0..x \in SUBSET Nat
      BY FS_Interval
    <3> QED BY <3>1 DEF FiniteSubsetsOf
  <2> QED BY <2>1
<1>2. PICK b \in below : \A a \in below : <<a, b>> \notin StrictSubsetOrdering(Nat)
  BY <1>1, FS_StrictSubsetOrderingWellFounded, WFMin
<1>3. PICK m \in c : b = 0..m
  OBVIOUS
<1>4. \A y \in c : m <= y
  <2> SUFFICES ASSUME NEW y \in c, ~(m <= y) PROVE FALSE
    OBVIOUS
  <2>1. 0..y \subseteq 0..m /\ 0..y # 0..m /\ 0..m \subseteq Nat
    <3>1. m \in 0..m /\ m \notin 0..y
      OBVIOUS
    <3> QED BY <3>1
  <2>2. <<0..y, 0..m>> \in (SUBSET Nat) \X (SUBSET Nat)
    BY <2>1
  <2>3. <<0..y, 0..m>> \in StrictSubsetOrdering(Nat)
    BY <2>1, <2>2 DEF StrictSubsetOrdering
  <2> QED  BY <1>2, <1>3, <2>3
<1> HIDE DEF below
<1> QED  BY <1>4 DEF MargTimestep

---------------------------------------------------------------------------
\* Type correctness.

USE ModeAssumption, ContractAssumption, WindowAssumption, ClockAssumption

\* A reacquisition under way has attempts left.
AttemptsLeft == phase = "REACQUIRING" => attempts < MaxAttempts

\* What Unresolved does to the recovery variables, for a typed state.
LEMMA UnresolvedTyped ==
    ASSUME TypeOK, AttemptsLeft, NEW t \in Times, Attempting(t),
           NEW rest \in Seq(Positions), Len(rest) < ConsensusFrames,
           NEW outcome \in Positions \cup {Rejected},
           Unresolved(t, rest, outcome)
    PROVE  /\ phase' \in {"REACQUIRING", "FAILED"}
           /\ attempts' \in 1..MaxAttempts
           /\ consensus' \in Seq(Positions) /\ Len(consensus') < ConsensusFrames
           /\ activations' \in Nat /\ commits' \in Nat /\ failures' \in Nat
           /\ trail' \in Seq(Positions \cup {Rejected})
           /\ AttemptsLeft'
<1>1. AttemptNumber(t) \in 1..MaxAttempts
  BY DEF TypeOK, TypeRecovery, AttemptsLeft, Attempting, AttemptNumber
<1>2. Trail(t, outcome) \in Seq(Positions \cup {Rejected})
  BY DEF TypeOK, TypeRecovery, Trail
<1>3. phase' \in {"REACQUIRING", "FAILED"} /\ attempts' \in 1..MaxAttempts /\ AttemptsLeft'
  BY <1>1 DEF Unresolved, AttemptsLeft
<1>4. consensus' \in Seq(Positions) /\ Len(consensus') < ConsensusFrames
  <2>1. <<>> \in Seq(Positions) /\ Len(<<>>) < ConsensusFrames
    OBVIOUS
  <2>2. consensus' = <<>> \/ consensus' = rest
    BY DEF Unresolved
  <2> QED  BY <2>1, <2>2
<1>5. activations' \in Nat /\ commits' \in Nat /\ failures' \in Nat
  BY DEF Unresolved, TypeOK, TypeRecovery, Activations
<1> QED  BY <1>2, <1>3, <1>4, <1>5 DEF Unresolved

\* The samples a frame starts from, and those with its pose added, are poses.
LEMMA SamplesTyped ==
    ASSUME TypeOK, NEW t, NEW p \in Positions
    PROVE  /\ Samples(t) \in Seq(Positions) /\ Len(Samples(t)) < ConsensusFrames
           /\ Append(Samples(t), p) \in Seq(Positions)
           /\ Len(Append(Samples(t), p)) = Len(Samples(t)) + 1
BY DEF TypeOK, TypeRecovery, Samples

\* Pruning the IMU history adds no reading.
LEMMA CleanOldImuSubset ==
    ASSUME NEW b, NEW o PROVE CleanOldImu(b, o) \subseteq b
BY DEF CleanOldImu

\* Marginalising the oldest clone adds no clone.
LEMMA MarginalizeSubset ==
    ASSUME NEW c PROVE MarginalizeOldClone(c) \subseteq c
BY Zenon DEF MarginalizeOldClone

\* Every step keeps the types and leaves a reacquisition an attempt.
LEMMA TypeStep ==
    ASSUME TypeOK, AttemptsLeft, [Next]_vars
    PROVE  TypeOK' /\ AttemptsLeft'
<1> USE DEF recovery, live, flags, boot, Times
<1>t. TypeRecovery /\ TypeLive /\ TypeFlags /\ TypeClock
  BY DEF TypeOK
<1> DEFINE Goal == TypeRecovery' /\ TypeLive' /\ TypeFlags' /\ TypeClock' /\ AttemptsLeft'
<1>f. ASSUME NEW t \in Times, FrameArrives(t), imu' \subseteq imu PROVE TypeClock'
  BY <1>t, <1>f DEF FrameArrives, TypeClock
<1>u. ASSUME UNCHANGED recovery, UNCHANGED trail PROVE TypeRecovery' /\ AttemptsLeft'
  BY <1>t, <1>u DEF TypeRecovery, AttemptsLeft
<1>l. ASSUME UNCHANGED live, UNCHANGED lastUpdate PROVE TypeLive'
  BY <1>t, <1>l DEF TypeLive
<1>b. ASSUME UNCHANGED flags, UNCHANGED boot PROVE TypeFlags'
  BY <1>t, <1>b DEF TypeFlags
<1>a. ASSUME NEW t \in Times, NEW rest \in Seq(Positions), Len(rest) < ConsensusFrames,
             NEW outcome \in Positions \cup {Rejected},
             FrameArrives(t), Attempting(t), Unresolved(t, rest, outcome)
      PROVE  Goal
  <2>1. TypeRecovery' /\ AttemptsLeft'
    <3>1. epoch' = epoch
      BY <1>a DEF Unresolved
    <3>2. /\ phase' \in {"REACQUIRING", "FAILED"}
          /\ attempts' \in 1..MaxAttempts
          /\ consensus' \in Seq(Positions) /\ Len(consensus') < ConsensusFrames
          /\ activations' \in Nat /\ commits' \in Nat /\ failures' \in Nat
          /\ trail' \in Seq(Positions \cup {Rejected})
          /\ AttemptsLeft'
      BY <1>a, UnresolvedTyped
    <3> QED  BY <3>1, <3>2, <1>t DEF TypeRecovery, Phases
  <2>2. UNCHANGED live /\ UNCHANGED flags /\ UNCHANGED boot /\ imu' = imu
    BY <1>a DEF Unresolved
  <2> QED  BY <1>a, <2>1, <2>2, <1>f, <1>l, <1>b
<1>e. <<>> \in Seq(Positions) /\ Len(<<>>) < ConsensusFrames
  OBVIOUS
<1>1. ASSUME UNCHANGED vars PROVE Goal
  <2>1. UNCHANGED <<imu, imuLast, lastFrame>> /\ UNCHANGED recovery /\ UNCHANGED live
        /\ UNCHANGED flags /\ UNCHANGED boot /\ UNCHANGED trail
    BY <1>1 DEF vars
  <2>2. TypeClock'
    BY <2>1, <1>t DEF TypeClock
  <2> QED  BY <2>1, <2>2, <1>u, <1>l, <1>b
<1>2. ASSUME NEW r \in Times, FeedImu(r) PROVE Goal
  <2>1. TypeClock'
    <3>1. imu' \subseteq imu \cup {r}
      BY <1>2, CleanOldImuSubset DEF FeedImu
    <3>2. r \in Nat /\ imuLast' = r /\ lastFrame' = lastFrame
      BY <1>2 DEF FeedImu
    <3>3. imu' \in SUBSET Nat
      BY <1>t, <3>1, <3>2 DEF TypeClock
    <3> QED  BY <1>t, <3>2, <3>3 DEF TypeClock
  <2> QED  BY <1>2, <2>1, <1>u, <1>l, <1>b DEF FeedImu
<1>3. ASSUME NEW t0 \in Times, InitializeWithGt(t0) PROVE Goal
  <2>1. TypeClock'
    BY <1>3, <1>t DEF InitializeWithGt, TypeClock
  <2>2. TypeLive'
    BY <1>3, <1>t DEF InitializeWithGt, TypeLive
  <2>3. TypeFlags'
    BY <1>3, <1>t DEF InitializeWithGt, TypeFlags
  <2> QED  BY <1>3, <2>1, <2>2, <2>3, <1>u DEF InitializeWithGt
<1>4. ASSUME NEW t \in Times, RejectPose(t) PROVE Goal
  BY <1>4, <1>e, <1>a DEF RejectPose
<1>5. ASSUME NEW t \in Times, NEW p \in Positions, AcceptPose(t, p) PROVE Goal
  BY <1>5, SamplesTyped, <1>a DEF AcceptPose
<1>6. ASSUME NEW t \in Times, NEW p \in Positions, RejectConsensus(t, p) PROVE Goal
  BY <1>6, <1>e, <1>a DEF RejectConsensus
<1>7. ASSUME NEW t \in Times, NEW p \in Positions, Commit(t, p) PROVE Goal
  <2>1. AttemptNumber(t) \in 0..MaxAttempts
    BY <1>7, <1>t DEF Commit, CommitBookkeeping, TypeRecovery, AttemptsLeft, Attempting, AttemptNumber
  <2>2. Trail(t, p) \in Seq(Positions \cup {Rejected})
    BY <1>t DEF TypeRecovery, Trail
  <2>3. TypeRecovery' /\ AttemptsLeft'
    BY <1>7, <1>e, <1>t, <2>1, <2>2 DEF Commit, CommitBookkeeping, Activations, TypeRecovery, Phases, AttemptsLeft
  <2>4. TypeLive'
    BY <1>7 DEF Commit, CommitBookkeeping, TypeLive
  <2>5. TypeFlags'
    BY <1>7, <1>t DEF Commit, CommitBookkeeping, TypeFlags
  <2> QED  BY <1>7, <2>3, <2>4, <2>5, <1>f, CleanOldImuSubset DEF Commit, CommitBookkeeping
<1>8. ASSUME NEW t \in Times, DegradedFrame(t) PROVE Goal
  BY <1>8, <1>u, <1>l, <1>b, <1>f DEF DegradedFrame
<1>9. ASSUME NEW t \in Times, ZuptUpdate(t) PROVE Goal
  <2>1. TypeLive'
    BY <1>9, <1>t DEF ZuptUpdate, TypeLive
  <2>2. TypeFlags'
    BY <1>9, <1>t DEF ZuptUpdate, TypeFlags
  <2> QED  BY <1>9, <2>1, <2>2, <1>u, <1>f, CleanOldImuSubset DEF ZuptUpdate, Ordinary
<1>p. ASSUME NEW t, PastZupt(t) PROVE didZupt' \in BOOLEAN
  BY <1>p, <1>t, Zenon DEF PastZupt, TypeFlags
<1>10. ASSUME NEW t \in Times, OutOfOrderFrame(t) PROVE Goal
  <2>2. TypeFlags'
    BY <1>10, <1>p, <1>t DEF OutOfOrderFrame, TypeFlags
  <2> QED  BY <1>10, <2>2, <1>u, <1>l, <1>f DEF OutOfOrderFrame, Ordinary
<1>11. ASSUME NEW t \in Times, PropagateOnly(t) PROVE Goal
  <2>1. TypeLive'
    BY <1>11, <1>t DEF PropagateOnly, PropagatedClones, TypeLive
  <2>2. TypeFlags'
    BY <1>11, <1>p, <1>t DEF PropagateOnly, TypeFlags
  <2> QED  BY <1>11, <2>1, <2>2, <1>u, <1>f DEF PropagateOnly, Ordinary
<1>12. ASSUME NEW t \in Times, NEW n \in 0..MaxSlam, VisualUpdate(t, n) PROVE Goal
  <2>0. MarginalizeOldClone(PropagatedClones(t)) \in SUBSET Nat
    <3>1. PropagatedClones(t) \in SUBSET Nat
      BY <1>t DEF PropagatedClones, TypeLive
    <3> QED  BY <3>1, MarginalizeSubset
  <2>1. TypeLive'
    BY <1>12, <1>t, <2>0 DEF VisualUpdate, TypeLive
  <2>2. TypeFlags'
    BY <1>12, <1>p, <1>t DEF VisualUpdate, TypeFlags
  <2>3. TypeRecovery' /\ AttemptsLeft'
    BY <1>12, <1>t DEF VisualUpdate, TypeRecovery, AttemptsLeft, Phases
  <2> QED  BY <1>12, <2>1, <2>2, <2>3, <1>f DEF VisualUpdate, Ordinary
<1>13. ASSUME NEW t \in Times, InitializeFails(t) PROVE Goal
  BY <1>13, <1>u, <1>l, <1>b, <1>f DEF InitializeFails, Ordinary
<1>14. ASSUME NEW t \in Times, NEW t0 \in Times, InitializeSucceeds(t, t0) PROVE Goal
  <2>1. TypeLive'
    BY <1>14, <1>t DEF InitializeSucceeds, TypeLive
  <2>2. TypeFlags'
    BY <1>14, <1>t DEF InitializeSucceeds, TypeFlags
  <2> QED  BY <1>14, <2>1, <2>2, <1>u, <1>f DEF InitializeSucceeds, Ordinary
<1>15. Goal
  <2> HIDE DEF Goal
  <2> QED
    BY <1>1, <1>2, <1>3, <1>4, <1>5, <1>6, <1>7, <1>8, <1>9, <1>10, <1>11, <1>12, <1>13, <1>14
       DEF Next, CameraFrame
<1> QED  BY <1>15 DEF TypeOK

\* The initial state is well typed.
LEMMA TypeInit == Init => TypeOK /\ AttemptsLeft
<1> SUFFICES ASSUME Init PROVE TypeOK /\ AttemptsLeft
  OBVIOUS
<1>1. TypeRecovery /\ AttemptsLeft
  BY DEF Init, TypeRecovery, AttemptsLeft, Phases
<1>2. TypeLive /\ TypeClock
  BY DEF Init, TypeLive, TypeClock
<1>3. TypeFlags
  BY DEF Init, TypeFlags
<1> QED  BY <1>1, <1>2, <1>3 DEF TypeOK

\* Every reachable state is well typed, for any contract the constructor
\* accepts: attempts, consensus and landmarks stay within their limits.
THEOREM TypeCorrect == Spec => []TypeOK
<1>1. Spec => [](TypeOK /\ AttemptsLeft)
  BY TypeInit, TypeStep, PTL DEF Spec
<1> QED  BY <1>1, PTL
---------------------------------------------------------------------------
\* What a step can do to the recovery variables.

\* A step leaves the recovery variables alone, or is an attempt without a
\* commit (rejected, accepted, not stationary), a commit or a visual update.
LEMMA StepKinds ==
    ASSUME [Next]_vars
    PROVE  \/ UNCHANGED recovery /\ UNCHANGED trail
           \/ \E t \in Times : Attempting(t) /\ Unresolved(t, <<>>, Rejected)
           \/ \E t \in Times, p \in Positions :
                 /\ Attempting(t) /\ Len(Samples(t)) + 1 < ConsensusFrames
                 /\ Unresolved(t, Append(Samples(t), p), p)
           \/ \E t \in Times, p \in Positions :
                 Attempting(t) /\ Unresolved(t, <<>>, p)
           \/ \E t \in Times, p \in Positions : Commit(t, p)
           \/ \E t \in Times, n \in 0..MaxSlam : VisualUpdate(t, n)
<1> DEFINE Quiet == UNCHANGED recovery /\ UNCHANGED trail
<1>1. UNCHANGED vars => Quiet
  BY DEF vars, recovery
<1>2. \A r \in Times : FeedImu(r) => Quiet
  BY DEF FeedImu
<1>3. \A t0 \in Times : InitializeWithGt(t0) => Quiet
  BY DEF InitializeWithGt
<1>4. \A t \in Times : (\/ DegradedFrame(t) \/ ZuptUpdate(t) \/ OutOfOrderFrame(t)
                        \/ PropagateOnly(t) \/ InitializeFails(t)
                        \/ (\E t0 \in Times : InitializeSucceeds(t, t0))) => Quiet
  BY DEF DegradedFrame, ZuptUpdate, OutOfOrderFrame, PropagateOnly, InitializeFails,
         InitializeSucceeds
<1> HIDE DEF Quiet
<1>5. Quiet \/ \E t \in Times :
          \/ RejectPose(t)
          \/ \E p \in Positions : AcceptPose(t, p)
          \/ \E p \in Positions : RejectConsensus(t, p)
          \/ \E p \in Positions : Commit(t, p)
          \/ \E n \in 0..MaxSlam : VisualUpdate(t, n)
  BY <1>1, <1>2, <1>3, <1>4 DEF Next, CameraFrame
<1> QED  BY <1>5 DEF Quiet, RejectPose, AcceptPose, RejectConsensus

---------------------------------------------------------------------------
\* Every outage is accounted for.

\* Every step keeps the account of outages.
LEMMA AccountedStep ==
    ASSUME TypeOK, AttemptsLeft, OutagesAccounted, [Next]_vars
    PROVE  OutagesAccounted'
<1> USE DEF TypeOK, TypeRecovery, OutagesAccounted
<1>1. CASE UNCHANGED recovery /\ UNCHANGED trail
  BY <1>1 DEF recovery
<1>2. ASSUME NEW t \in Times, NEW rest, NEW outcome, Attempting(t), Unresolved(t, rest, outcome)
      PROVE  OutagesAccounted'
  BY <1>2 DEF Attempting, GapDetected, Unresolved, Activations
<1>3. ASSUME NEW t \in Times, NEW p \in Positions, Commit(t, p)
      PROVE  OutagesAccounted'
  BY <1>3 DEF Commit, CommitBookkeeping, Attempting, GapDetected, Activations, recovery
<1>4. ASSUME NEW t \in Times, NEW n \in 0..MaxSlam, VisualUpdate(t, n)
      PROVE  OutagesAccounted'
  BY <1>4 DEF VisualUpdate, Ordinary, Attempting
<1> QED  BY <1>1, <1>2, <1>3, <1>4, StepKinds

\* The recovery counters account for every outage, whatever the contract's
\* limits: a run that reports 1 activation, 1 commit, 0 failures and epoch 1
\* had exactly one outage and it was recovered.
THEOREM OutagesAccountedAlways == Spec => []OutagesAccounted
<1>1. Init => OutagesAccounted
  BY DEF Init, OutagesAccounted
<1>2. Spec => [](TypeOK /\ AttemptsLeft /\ OutagesAccounted)
  BY <1>1, TypeInit, TypeStep, AccountedStep, PTL DEF Spec
<1> QED  BY <1>2, PTL

---------------------------------------------------------------------------
\* Consecutive acceptances.

\* Appending the same outcome to the samples and to the history keeps the
\* samples the newest part of the history.
LEMMA NewestAppend ==
    ASSUME NEW A, NEW S \in Seq(A), NEW T \in Seq(A), NEW p \in A, Newest(S, T)
    PROVE  Newest(Append(S, p), Append(T, p))
<1>1. Len(S) \in Nat /\ Len(T) \in Nat /\ Len(S) <= Len(T)
  BY DEF Newest
<1>2. Len(Append(S, p)) = Len(S) + 1 /\ Len(Append(T, p)) = Len(T) + 1
  OBVIOUS
<1>3. Append(S, p)[Len(S) + 1] = p /\ Append(T, p)[Len(T) + 1] = p
  OBVIOUS
<1>4. ASSUME NEW i \in 1..Len(S) + 1
      PROVE  Append(S, p)[i] = Append(T, p)[(Len(T) + 1) - (Len(S) + 1) + i]
  <2>1. (Len(T) + 1) - (Len(S) + 1) + i = Len(T) - Len(S) + i
    BY <1>1
  <2>2. CASE i \in 1..Len(S)
    <3>1. Len(T) - Len(S) + i \in 1..Len(T)
      BY <1>1, <2>2
    <3>2. S[i] = T[Len(T) - Len(S) + i]
      BY <2>2 DEF Newest
    <3> QED  BY <2>1, <2>2, <3>1, <3>2
  <2>3. CASE i = Len(S) + 1
    <3>1. Len(T) - Len(S) + i = Len(T) + 1
      BY <1>1, <2>3
    <3> QED  BY <2>1, <2>3, <3>1, <1>3
  <2> QED  BY <1>1, <2>2, <2>3
<1> DEFINE S1 == Append(S, p)
           T1 == Append(T, p)
<1>5. Len(S1) = Len(S) + 1 /\ Len(T1) = Len(T) + 1
  BY <1>2
<1>6. \A i \in 1..Len(S) + 1 : S1[i] = T1[(Len(T) + 1) - (Len(S) + 1) + i]
  BY <1>4
<1> HIDE DEF S1, T1
<1>7. Newest(S1, T1)
  BY <1>1, <1>5, <1>6 DEF Newest
<1> QED  BY <1>7 DEF S1, T1

\* The newest part of a history, as a subsequence.
LEMMA NewestIsSubSeq ==
    ASSUME NEW A, NEW S \in Seq(A), NEW T \in Seq(A), Len(S) > 0, Newest(S, T)
    PROVE  SubSeq(T, Len(T) - Len(S) + 1, Len(T)) = S
BY DEF Newest

\* Every step keeps the samples the newest outcomes of the outage.
LEMMA RecentStep ==
    ASSUME TypeOK, AttemptsLeft, ConsensusIsRecent, [Next]_vars
    PROVE  ConsensusIsRecent'
<1> DEFINE A == Positions \cup {Rejected}
           Goal == /\ Len(trail') = attempts' /\ attempts' < MaxAttempts
                   /\ Newest(consensus', trail')
<1> SUFFICES ASSUME phase' = "REACQUIRING" PROVE Goal
  BY DEF ConsensusIsRecent, Newest
<1>t. /\ consensus \in Seq(A) /\ trail \in Seq(A) /\ attempts \in Nat
  BY DEF TypeOK, TypeRecovery
<1>e. \A T \in Seq(A) : Newest(<<>>, T)
  BY DEF Newest
<1>1. ASSUME phase = "REACQUIRING", UNCHANGED <<attempts, consensus, trail>> PROVE Goal
  BY <1>1 DEF ConsensusIsRecent
<1>2. ASSUME NEW t \in Times, NEW outcome \in A, Attempting(t), Unresolved(t, <<>>, outcome)
      PROVE  Goal
  <2>1. attempts' < MaxAttempts /\ consensus' = <<>>
        /\ attempts' = AttemptNumber(t) /\ trail' = Trail(t, outcome)
    BY <1>2, <1>t DEF Unresolved, AttemptNumber
  <2>2. Trail(t, outcome) \in Seq(A)
    BY <1>t DEF Trail
  <2>3. Len(trail') = attempts'
    BY <1>2, <1>t, <2>1 DEF AttemptNumber, Trail, Attempting, GapDetected, ConsensusIsRecent
  <2> QED  BY <2>1, <2>2, <2>3, <1>e
<1>3. ASSUME NEW t \in Times, NEW p \in Positions, Attempting(t),
             Unresolved(t, Append(Samples(t), p), p)
      PROVE  Goal
  <2> DEFINE S == Samples(t)
             T == IF GapDetected(t) THEN <<>> ELSE trail
  <2>1. /\ attempts' < MaxAttempts /\ consensus' = Append(S, p)
        /\ attempts' = AttemptNumber(t) /\ trail' = Append(T, p)
    BY <1>3, <1>t DEF Unresolved, AttemptNumber, Trail
  <2>2. S \in Seq(A) /\ T \in Seq(A) /\ Newest(S, T) /\ AttemptNumber(t) = Len(T) + 1
    <3>1. CASE GapDetected(t)
      <4>1. S = <<>> /\ T = <<>> /\ AttemptNumber(t) = 1
        BY <3>1 DEF Samples, AttemptNumber
      <4>2. <<>> \in Seq(A) /\ Len(<<>>) = 0
        OBVIOUS
      <4>3. Newest(<<>>, <<>>)
        BY DEF Newest
      <4>4. AttemptNumber(t) = Len(T) + 1
        BY <4>1, <4>2
      <4>5. S \in Seq(A) /\ T \in Seq(A) /\ Newest(S, T)
        <5> HIDE DEF S, T, A
        <5> QED  BY <4>1, <4>2, <4>3
      <4> QED  BY <4>4, <4>5
    <3>2. CASE ~GapDetected(t)
      <4>1. S = consensus /\ T = trail /\ AttemptNumber(t) = attempts + 1
        BY <3>2 DEF Samples, AttemptNumber
      <4>2. Len(trail) = attempts /\ Newest(consensus, trail)
        BY <3>2, <1>3 DEF Attempting, ConsensusIsRecent
      <4> QED  BY <4>1, <4>2, <1>t
    <3> QED  BY <3>1, <3>2
  <2>3. p \in A
    OBVIOUS
  <2> HIDE DEF S, T, A
  <2>4. Newest(Append(S, p), Append(T, p))
    BY <2>2, <2>3, NewestAppend
  <2>5. Len(Append(T, p)) = Len(T) + 1
    BY <2>2, <2>3
  <2> QED  BY <2>1, <2>2, <2>4, <2>5
<1>4. ASSUME NEW t \in Times, NEW p \in Positions, Commit(t, p) PROVE FALSE
  BY <1>4 DEF Commit, CommitBookkeeping
<1>5. ASSUME NEW t \in Times, NEW n \in 0..MaxSlam, VisualUpdate(t, n)
      PROVE  phase = "REACQUIRING" /\ UNCHANGED <<attempts, consensus, trail>>
  BY <1>5 DEF VisualUpdate
<1>6. (UNCHANGED recovery /\ UNCHANGED trail) =>
         phase = "REACQUIRING" /\ UNCHANGED <<attempts, consensus, trail>>
  BY DEF recovery
<1> HIDE DEF Goal
<1> QED  BY <1>1, <1>2, <1>3, <1>4, <1>5, <1>6, StepKinds

\* A step that opens an epoch rests on a full consensus.
LEMMA CommitStep ==
    ASSUME TypeOK, ConsensusIsRecent, [Next]_vars, epoch' # epoch
    PROVE  LET n == Len(trail')
               last == SubSeq(trail', n - ConsensusFrames + 1, n)
           IN  /\ n >= ConsensusFrames /\ n <= MaxAttempts
               /\ Rejected \notin {last[i] : i \in DOMAIN last}
               /\ WithinRadius(last)
               /\ stateTs' > stateTs
<1> DEFINE A == Positions \cup {Rejected}
<1>1. PICK t \in Times, p \in Positions : Commit(t, p)
  BY StepKinds DEF Unresolved, VisualUpdate, recovery
<1>2. /\ consensus \in Seq(A) /\ trail \in Seq(A) /\ attempts \in Nat
      /\ consensus \in Seq(Positions) /\ Len(consensus) < ConsensusFrames
  BY DEF TypeOK, TypeRecovery
<1>3. phase = "REACQUIRING" /\ Samples(t) = consensus /\ trail' = Append(trail, p)
  BY <1>1 DEF Commit, CommitBookkeeping, Samples, Attempting, Trail
<1>4. /\ Len(trail) = attempts /\ attempts < MaxAttempts
      /\ Newest(consensus, trail) /\ Len(consensus) + 1 = ConsensusFrames
  BY <1>1, <1>2, <1>3 DEF Commit, CommitBookkeeping, ConsensusIsRecent
<1> DEFINE Sp == Append(consensus, p)
           Tp == Append(trail, p)
<1>5. /\ Sp \in Seq(A) /\ Tp \in Seq(A) /\ Sp \in Seq(Positions)
      /\ Len(Sp) = ConsensusFrames /\ Len(Tp) = Len(trail) + 1
  BY <1>2, <1>4
<1>6. Newest(Sp, Tp)
  <2>1. p \in A
    OBVIOUS
  <2> HIDE DEF A
  <2> QED  BY <2>1, <1>2, <1>4, NewestAppend
<1>9. WithinRadius(Sp)
  BY <1>1, <1>3 DEF Commit, CommitBookkeeping
<1> HIDE DEF A, Sp, Tp
<1>7. SubSeq(Tp, Len(Tp) - ConsensusFrames + 1, Len(Tp)) = Sp
  <2>1. Len(Sp) > 0
    BY <1>5
  <2>2. SubSeq(Tp, Len(Tp) - Len(Sp) + 1, Len(Tp)) = Sp
    BY <2>1, <1>5, <1>6, NewestIsSubSeq, Zenon
  <2> QED  BY <2>2, <1>5
<1>8. Rejected \notin {Sp[i] : i \in DOMAIN Sp}
  <2>1. \A i \in DOMAIN Sp : Sp[i] \in Positions
    BY <1>5
  <2>2. Rejected \notin Positions
    <3>1. DOMAIN Rejected = {}
      BY DEF Rejected
    <3>2. \A q \in Positions : DOMAIN q = 1..3
      OBVIOUS
    <3>3. 1 \in 1..3
      OBVIOUS
    <3> QED  BY <3>1, <3>2, <3>3
  <2> QED  BY <2>1, <2>2
<1>10. stateTs' > stateTs
  BY <1>1 DEF Commit, CommitBookkeeping, Acceptable, PredictOrientation, TypeOK, TypeLive, Times
<1>11. Len(Tp) >= ConsensusFrames /\ Len(Tp) <= MaxAttempts
  BY <1>2, <1>4, <1>5 DEF Newest
<1>12. trail' = Tp
  BY <1>3 DEF Tp
<1> QED  BY <1>7, <1>8, <1>9, <1>10, <1>11, <1>12

\* The samples held for the consensus are always the newest outcomes of this
\* outage, with no rejected frame between them.
THEOREM ConsensusIsRecentAlways == Spec => []ConsensusIsRecent
<1>1. Init => ConsensusIsRecent
  BY DEF Init, ConsensusIsRecent
<1>2. Spec => [](TypeOK /\ AttemptsLeft /\ ConsensusIsRecent)
  BY <1>1, TypeInit, TypeStep, RecentStep, PTL DEF Spec
<1> QED  BY <1>2, PTL

\* A commit needs ConsensusFrames consecutive accepted, stationary poses of
\* this outage, for every number of consensus frames and attempts.
THEOREM CommitNeedsConsensusAlways == Spec => CommitNeedsConsensus
<1>3. TypeOK /\ ConsensusIsRecent /\ [Next]_vars =>
         [epoch' # epoch =>
            LET n == Len(trail')
                last == SubSeq(trail', n - ConsensusFrames + 1, n)
            IN  /\ n >= ConsensusFrames /\ n <= MaxAttempts
                /\ Rejected \notin {last[i] : i \in DOMAIN last}
                /\ WithinRadius(last)
                /\ stateTs' > stateTs]_vars
  BY CommitStep
<1> QED
  BY <1>3, TypeCorrect, ConsensusIsRecentAlways, PTL DEF Spec, CommitNeedsConsensus

---------------------------------------------------------------------------
\* The refinement of RecoveryContract.

\* An outage is never noticed and resolved on one frame, because a consensus
\* takes more than one: a commit replaces a held estimate by a newer one.
LEMMA CommitRelocates ==
    ASSUME TypeOK, NEW t \in Times, NEW p \in Positions, Commit(t, p)
    PROVE  Contract!Relocate
<1>1. phase = "REACQUIRING"
  BY DEF Commit, CommitBookkeeping, Attempting, Samples
<1>2. stateTs \in Int /\ t \in Int /\ stateTs' = t /\ t > stateTs
  BY DEF Commit, CommitBookkeeping, Acceptable, PredictOrientation, TypeOK, TypeLive, Times
<1>3. phase' = "WARMUP" /\ slam' = 0 /\ epoch' = epoch + 1
  BY DEF Commit, CommitBookkeeping
<1> QED  BY <1>1, <1>2, <1>3 DEF Contract!Relocate

\* A frame that does not end the outage by a commit holds the estimate.
LEMMA UnresolvedHolds ==
    ASSUME NEW t \in Times, NEW rest, NEW outcome, Attempting(t), Unresolved(t, rest, outcome)
    PROVE  Contract!Hold \/ Contract!GiveUp \/ UNCHANGED Contract!cvars
<1>1. UNCHANGED <<stateTs, slam, epoch>>
  BY DEF Unresolved, live
<1>2. phase \in {"TRACKING", "REACQUIRING"}
  BY DEF Attempting, GapDetected
<1>3. AttemptNumber(t) >= MaxAttempts => phase = "REACQUIRING"
  BY DEF Attempting, AttemptNumber
<1>4. phase' \in {"REACQUIRING", "FAILED"} /\ (phase' = "FAILED" => phase = "REACQUIRING")
  BY <1>3 DEF Unresolved
<1> QED  BY <1>1, <1>2, <1>4 DEF Contract!Hold, Contract!GiveUp, Contract!cvars

\* Ordinary estimation moves the estimate, within its epoch.
LEMMA LiveEstimates ==
    ASSUME TypeOK', phase \in {"TRACKING", "WARMUP"}, phase' \in {"TRACKING", "WARMUP"},
           epoch' = epoch
    PROVE  Contract!Estimate
<1>1. stateTs' \in Int /\ slam' \in Nat
  BY DEF TypeOK, TypeLive
<1> QED  BY <1>1 DEF Contract!Estimate

\* Recovery starts only in an estimator that runs and has it enabled, so no
\* start-up step can move an estimate that is held.
RecoveringRuns == phase # "TRACKING" => initialized /\ RecoveryEnabled

\* Every step keeps that: is_initialized_vio is never cleared.
LEMMA RecoveringRunsStep ==
    ASSUME TypeOK, RecoveringRuns, [Next]_vars
    PROVE  RecoveringRuns'
<1>1. initialized => initialized'
  BY DEF Next, CameraFrame, FeedImu, InitializeWithGt, RejectPose, AcceptPose, RejectConsensus,
         Unresolved, Commit, CommitBookkeeping, DegradedFrame, ZuptUpdate, OutOfOrderFrame,
         PropagateOnly, VisualUpdate, InitializeFails, InitializeSucceeds, boot, vars
<1>2. CASE UNCHANGED recovery /\ UNCHANGED trail
  BY <1>1, <1>2 DEF recovery, RecoveringRuns
<1>3. ASSUME NEW t \in Times, NEW rest, NEW outcome, Attempting(t), Unresolved(t, rest, outcome)
      PROVE  RecoveringRuns'
  BY <1>1, <1>3 DEF RecoveringRuns, Attempting, GapDetected
<1>4. ASSUME NEW t \in Times, NEW p \in Positions, Commit(t, p)
      PROVE  RecoveringRuns'
  BY <1>1, <1>4 DEF RecoveringRuns, Commit, CommitBookkeeping, Attempting, GapDetected
<1>5. ASSUME NEW t \in Times, NEW n \in 0..MaxSlam, VisualUpdate(t, n)
      PROVE  RecoveringRuns'
  BY <1>1, <1>5 DEF RecoveringRuns, VisualUpdate
<1> QED  BY <1>2, <1>3, <1>4, <1>5, StepKinds

\* While an outage is being recovered from, and after recovery has failed,
\* no step but a commit moves the estimate.
LEMMA HeldIsFrozen ==
    ASSUME TypeOK, RecoveringRuns, [Next]_vars, phase \in {"REACQUIRING", "FAILED"},
           UNCHANGED recovery
    PROVE  UNCHANGED <<stateTs, slam, epoch>>
<1> DEFINE Frozen == UNCHANGED <<stateTs, slam>>
<1>1. UNCHANGED vars => Frozen
  BY DEF vars, live
<1>2. \A r \in Times : FeedImu(r) => Frozen
  BY DEF FeedImu, live
<1>3. Started /\ \A t \in Times : ~Ordinary(t)
  BY DEF Started, RecoveringRuns, Ordinary, Attempting
<1>4. \A t0 \in Times : ~InitializeWithGt(t0)
  BY <1>3 DEF InitializeWithGt
<1>5. ASSUME NEW t \in Times, CameraFrame(t) PROVE Frozen
  <2>1. ~ZuptUpdate(t) /\ ~OutOfOrderFrame(t) /\ ~PropagateOnly(t) /\ ~InitializeFails(t)
    BY <1>3 DEF ZuptUpdate, OutOfOrderFrame, PropagateOnly, InitializeFails
  <2>2. (\A n \in 0..MaxSlam : ~VisualUpdate(t, n)) /\ (\A t0 \in Times : ~InitializeSucceeds(t, t0))
    BY <1>3 DEF VisualUpdate, InitializeSucceeds
  <2>3. \A p \in Positions : ~Commit(t, p)
    BY DEF Commit, CommitBookkeeping, recovery, TypeOK, TypeRecovery
  <2>4. RejectPose(t) \/ DegradedFrame(t) => Frozen
    BY DEF RejectPose, DegradedFrame, Unresolved, live
  <2>5. \A p \in Positions : AcceptPose(t, p) \/ RejectConsensus(t, p) => Frozen
    BY DEF AcceptPose, RejectConsensus, Unresolved, live
  <2> HIDE DEF Frozen
  <2> QED  BY <1>5, <2>1, <2>2, <2>3, <2>4, <2>5 DEF CameraFrame
<1>6. Frozen
  <2> HIDE DEF Frozen
  <2> QED  BY <1>1, <1>2, <1>4, <1>5 DEF Next
<1> QED  BY <1>6 DEF recovery

\* Every step is a step of the contract or leaves its variables alone.
LEMMA ContractStep ==
    ASSUME TypeOK, TypeOK', RecoveringRuns, [Next]_vars
    PROVE  [Contract!Next]_(Contract!cvars)
<1>1. CASE UNCHANGED recovery /\ UNCHANGED trail
  <2>1. phase \in Phases /\ UNCHANGED <<phase, epoch>>
    BY <1>1 DEF recovery, TypeOK, TypeRecovery
  <2>2. CASE phase \in {"TRACKING", "WARMUP"}
    BY <2>1, <2>2, LiveEstimates DEF Contract!Next
  <2>3. CASE phase \in {"REACQUIRING", "FAILED"}
    <3>1. UNCHANGED <<stateTs, slam, epoch>>
      BY <1>1, <2>3, HeldIsFrozen
    <3> QED  BY <3>1, <2>1 DEF Contract!cvars
  <2> QED  BY <2>1, <2>2, <2>3 DEF Phases
<1>2. ASSUME NEW t \in Times, NEW rest, NEW outcome, Attempting(t), Unresolved(t, rest, outcome)
      PROVE  [Contract!Next]_(Contract!cvars)
  BY <1>2, UnresolvedHolds DEF Contract!Next
<1>3. ASSUME NEW t \in Times, NEW p \in Positions, Commit(t, p)
      PROVE  [Contract!Next]_(Contract!cvars)
  BY <1>3, CommitRelocates DEF Contract!Next
<1>4. ASSUME NEW t \in Times, NEW n \in 0..MaxSlam, VisualUpdate(t, n)
      PROVE  [Contract!Next]_(Contract!cvars)
  <2>1. phase \in {"TRACKING", "WARMUP"}
    BY <1>4 DEF VisualUpdate, Ordinary, Attempting, RecoveringRuns, TypeOK, TypeRecovery, Phases
  <2>2. phase' \in {"TRACKING", "WARMUP"} /\ epoch' = epoch
    BY <1>4, <2>1 DEF VisualUpdate
  <2> QED  BY <2>1, <2>2, LiveEstimates DEF Contract!Next
<1> QED  BY <1>1, <1>2, <1>3, <1>4, StepKinds

\* The recovery machine implements RecoveryContract, for every contract the
\* constructor accepts and whatever order frames come in: a consumer of the
\* pose never sees a held estimate move, an old map in a new epoch, or an
\* estimate after recovery has been given up.
THEOREM RecoveryImplementsContract == Spec => ImplementsContract
<1>1. Init => Contract!Init
  BY DEF Init, Contract!Init
<1>2. Init => RecoveringRuns
  BY DEF Init, RecoveringRuns
<1>3. Spec => [](TypeOK /\ AttemptsLeft /\ RecoveringRuns)
  BY <1>2, TypeInit, TypeStep, RecoveringRunsStep, PTL DEF Spec
<1> QED  BY <1>1, <1>3, ContractStep, PTL DEF Spec, ImplementsContract, Contract!Spec

---------------------------------------------------------------------------
\* State time.

\* Before start-up there is no state, and frames that come in order are never
\* older than it: start-up puts it at a frame at most one tick ahead.
Clocked ==
    /\ ~Started => stateTs = -1
    /\ InOrder => stateTs <= lastFrame + 1

\* What each step does to the two clocks.
LEMMA ClockStep ==
    ASSUME TypeOK, Clocked, [Next]_vars
    PROVE  /\ Clocked'
           /\ ~TryZupt \/ InOrder => stateTs' >= stateTs
<1> DEFINE Goal == Clocked' /\ (~TryZupt \/ InOrder => stateTs' >= stateTs)
<1>t. stateTs \in Int /\ lastFrame \in Int /\ CamImuDt \in Int /\ imuLast \in Int
  BY DEF TypeOK, TypeLive, TypeClock
<1>1. UNCHANGED vars => Goal
  BY <1>t DEF vars, live, boot, Clocked, Started
<1>2. ASSUME NEW r \in Times, FeedImu(r) PROVE Goal
  BY <1>t, <1>2 DEF FeedImu, live, boot, Clocked, Started
<1>3. ASSUME NEW t0 \in Times, InitializeWithGt(t0) PROVE Goal
  BY <1>t, <1>3 DEF InitializeWithGt, Clocked, Started, Times
<1>4. ASSUME NEW t \in Times, FrameArrives(t), UNCHANGED stateTs, Started' = Started PROVE Goal
  BY <1>t, <1>4 DEF FrameArrives, Clocked, Times
<1>5. ASSUME NEW t \in Times, FrameArrives(t), stateTs' = t, Started',
             ~TryZupt \/ InOrder => t >= stateTs
      PROVE  Goal
  BY <1>t, <1>5 DEF FrameArrives, Clocked, Times
<1>6. ASSUME NEW t \in Times, CameraFrame(t) PROVE Goal
  <2> HIDE DEF Goal
  <2>1. ASSUME NEW rest, NEW outcome, Unresolved(t, rest, outcome)
        PROVE  UNCHANGED stateTs /\ Started' = Started
    BY <2>1 DEF Unresolved, live, boot, Started
  <2>2. CASE RejectPose(t)
    BY <2>1, <2>2, <1>4 DEF RejectPose
  <2>3. ASSUME NEW p \in Positions, AcceptPose(t, p) \/ RejectConsensus(t, p) PROVE Goal
    BY <2>1, <2>3, <1>4 DEF AcceptPose, RejectConsensus
  <2>4. ASSUME NEW p \in Positions, Commit(t, p) PROVE Goal
    <3>1. FrameArrives(t) /\ stateTs' = t /\ t > stateTs /\ Started'
      BY <2>4 DEF Commit, CommitBookkeeping, Acceptable, PredictOrientation, Started
    <3> QED  BY <3>1, <1>5, <1>t DEF Times
  <2>5. CASE DegradedFrame(t)
    BY <2>5, <1>4 DEF DegradedFrame, live, boot, Started
  <2>6. CASE ZuptUpdate(t)
    <3>1. FrameArrives(t) /\ stateTs' = t /\ Started' /\ TryZupt
      BY <2>6 DEF ZuptUpdate, Ordinary, ZuptArmed, boot, Started
    <3>2. InOrder => t >= stateTs
      BY <3>1, <1>t DEF FrameArrives, Clocked, Times
    <3> QED  BY <3>1, <3>2, <1>5
  <2>7. CASE OutOfOrderFrame(t)
    BY <2>7, <1>4 DEF OutOfOrderFrame, Ordinary, live, Started
  <2>8. ASSUME PropagateOnly(t) \/ \E n \in 0..MaxSlam : VisualUpdate(t, n) PROVE Goal
    <3>1. FrameArrives(t) /\ stateTs' = t /\ stateTs <= t /\ Started'
      BY <2>8 DEF PropagateOnly, VisualUpdate, Ordinary, Started
    <3> QED  BY <3>1, <1>5, <1>t DEF Times
  <2>9. CASE InitializeFails(t)
    BY <2>9, <1>4 DEF InitializeFails, Ordinary, live, boot, Started
  <2>10. ASSUME NEW t0 \in Times, InitializeSucceeds(t, t0) PROVE Goal
    <3>1. stateTs = -1 /\ stateTs' = t0 /\ t0 <= t /\ lastFrame' = t /\ Started'
      BY <2>10 DEF InitializeSucceeds, Ordinary, FrameArrives, Clocked, Started
    <3> QED  BY <3>1 DEF Goal, Clocked, Times
  <2> QED  BY <1>6, <2>2, <2>3, <2>4, <2>5, <2>6, <2>7, <2>8, <2>9, <2>10 DEF CameraFrame
<1>7. Goal
  <2> HIDE DEF Goal
  <2> QED  BY <1>1, <1>2, <1>3, <1>6 DEF Next
<1> QED  BY <1>7

\* The state's time never runs backwards, provided that zero-velocity updates
\* are off or that frames come in order: try_update alone compares nothing.
THEOREM StateTimeMonotoneAlways ==
    ASSUME ~TryZupt \/ InOrder
    PROVE  Spec => StateTimeMonotone
<1>1. Init => Clocked
  BY DEF Init, Clocked
<1>2. Spec => [](TypeOK /\ AttemptsLeft /\ Clocked)
  BY <1>1, TypeInit, TypeStep, ClockStep, PTL DEF Spec
<1>3. TypeOK /\ Clocked /\ [Next]_vars => [stateTs' >= stateTs]_vars
  BY ClockStep
<1> QED  BY <1>2, <1>3, PTL DEF Spec, StateTimeMonotone

---------------------------------------------------------------------------
\* A new map.

\* Before start-up the map is empty, and a warming-up state is never older than
\* the commit that made it.
MapAge ==
    /\ ~Started => clones = {} /\ slam = 0
    /\ phase = "WARMUP" => stateTs >= startup

\* What a step can do to the map: leave it and its age alone, empty it, start
\* it empty, move the state without a clone, or propagate (with an update or not).
LEMMA MapKinds ==
    ASSUME [Next]_vars
    PROVE  \/ UNCHANGED live /\ UNCHANGED lastUpdate /\ (Started => Started')
              /\ phase' \in {phase, "REACQUIRING", "FAILED"}
           \/ \E t \in Times, p \in Positions : Commit(t, p)
           \/ /\ ~Started /\ Started' /\ UNCHANGED <<clones, slam, lastUpdate, phase>>
           \/ \E t \in Times :
                 /\ Started' /\ Started
                 /\ stateTs' = t /\ UNCHANGED <<clones, slam, startup, lastUpdate, phase>>
           \/ \E t \in Times : PropagateOnly(t)
           \/ \E t \in Times, n \in 0..MaxSlam : VisualUpdate(t, n)
<1> DEFINE Quiet == UNCHANGED live /\ UNCHANGED lastUpdate /\ (Started => Started')
                    /\ phase' \in {phase, "REACQUIRING", "FAILED"}
           Begins == ~Started /\ Started' /\ UNCHANGED <<clones, slam, lastUpdate, phase>>
           Moves == \E t \in Times :
                       /\ Started' /\ Started /\ stateTs' = t
                       /\ UNCHANGED <<clones, slam, startup, lastUpdate, phase>>
<1>1. UNCHANGED vars => Quiet
  BY DEF vars, recovery, boot, flags, Started
<1>2. \A r \in Times : FeedImu(r) => Quiet
  BY DEF FeedImu, recovery, boot, flags, Started
<1>3. \A t0 \in Times : InitializeWithGt(t0) => Begins
  BY DEF InitializeWithGt, recovery, flags, Started
<1>4. ASSUME NEW t \in Times, NEW rest, NEW outcome, Unresolved(t, rest, outcome) PROVE Quiet
  BY <1>4 DEF Unresolved, flags, boot, Started
<1>5. ASSUME NEW t \in Times, CameraFrame(t)
      PROVE  \/ Quiet \/ Begins \/ Moves \/ PropagateOnly(t)
             \/ \E p \in Positions : Commit(t, p)
             \/ \E n \in 0..MaxSlam : VisualUpdate(t, n)
  <2>1. RejectPose(t) \/ (\E p \in Positions : AcceptPose(t, p) \/ RejectConsensus(t, p)) => Quiet
    BY <1>4 DEF RejectPose, AcceptPose, RejectConsensus
  <2>2. DegradedFrame(t) \/ OutOfOrderFrame(t) \/ InitializeFails(t) => Quiet
    BY DEF DegradedFrame, OutOfOrderFrame, InitializeFails, recovery, boot, flags, Started
  <2>3. ZuptUpdate(t) => Moves
    BY DEF ZuptUpdate, ZuptArmed, recovery, boot, Started
  <2>4. (\E t0 \in Times : InitializeSucceeds(t, t0)) => Begins
    BY DEF InitializeSucceeds, recovery, Started
  <2> HIDE DEF Quiet, Begins, Moves
  <2> QED  BY <1>5, <2>1, <2>2, <2>3, <2>4 DEF CameraFrame
<1>6. \/ Quiet \/ Begins \/ Moves
      \/ \E t \in Times : \/ PropagateOnly(t)
                          \/ \E p \in Positions : Commit(t, p)
                          \/ \E n \in 0..MaxSlam : VisualUpdate(t, n)
  <2> HIDE DEF Quiet, Begins, Moves
  <2> QED  BY <1>1, <1>2, <1>3, <1>5 DEF Next
<1> QED  BY <1>6

\* Every step keeps the new map new, when the state's time does not run back.
LEMMA FreshStep ==
    ASSUME TypeOK, RecoveringRuns, MapAge, NewMapIsFresh, [Next]_vars, stateTs' >= stateTs
    PROVE  MapAge' /\ NewMapIsFresh'
<1> DEFINE Goal == MapAge' /\ LandmarksMature' /\ WarmupIsFresh'
<1>t. /\ stateTs \in Int /\ startup \in Int /\ slam \in Nat /\ lastUpdate \in Int
      /\ clones \in SUBSET Nat /\ LandmarksMature /\ WarmupIsFresh
  BY DEF TypeOK, TypeLive, NewMapIsFresh
<1>w. phase = "WARMUP" => Started
  BY DEF RecoveringRuns, Started
<1>1. ASSUME UNCHANGED live, UNCHANGED lastUpdate, Started => Started',
             phase' \in {phase, "REACQUIRING", "FAILED"}
      PROVE  Goal
  BY <1>1, <1>t DEF live, MapAge, LandmarksMature, WarmupIsFresh
<1>2. ASSUME NEW t \in Times, NEW p \in Positions, Commit(t, p) PROVE Goal
  <2>1. /\ stateTs' = t /\ clones' = {} /\ slam' = 0 /\ startup' = t /\ lastUpdate' = t /\ Started'
    BY <1>2 DEF Commit, CommitBookkeeping, Started
  <2>2. Cardinality(clones') < EnoughClones
    BY <2>1, FS_EmptySet DEF EnoughClones
  <2> QED  BY <2>1, <2>2, <1>t DEF MapAge, LandmarksMature, WarmupIsFresh, Times
<1>3. ASSUME ~Started, Started', UNCHANGED <<clones, slam, lastUpdate, phase>> PROVE Goal
  BY <1>3, <1>w, <1>t DEF MapAge, LandmarksMature, WarmupIsFresh
<1>4. ASSUME NEW t \in Times, Started', Started, stateTs' = t,
             UNCHANGED <<clones, slam, startup, lastUpdate, phase>>
      PROVE  Goal
  BY <1>4, <1>t DEF MapAge, LandmarksMature, WarmupIsFresh, Times
<1>5. ASSUME NEW t \in Times, PropagateOnly(t) PROVE Goal
  <2>1. /\ stateTs <= t /\ stateTs' = t /\ clones' = PropagatedClones(t) /\ Started /\ Started'
        /\ Cardinality(clones') < EnoughClones
        /\ UNCHANGED <<slam, startup, lastUpdate, phase>>
    BY <1>5 DEF PropagateOnly, Started, recovery
  <2>2. \A c \in clones' : c \in clones \/ (c = t /\ t > stateTs)
    BY <2>1, <1>t DEF PropagatedClones, Times
  <2>3. MapAge' /\ LandmarksMature'
    BY <2>1, <1>t DEF MapAge, LandmarksMature, Times
  <2>4. ASSUME phase = "WARMUP", NEW c \in clones' PROVE c > startup
    <3>1. stateTs >= startup /\ (\A d \in clones : d > startup) /\ t \in Int
      BY <2>4, <1>t DEF MapAge, WarmupIsFresh, Times
    <3>2. c \in clones \/ (c = t /\ t > stateTs)
      BY <2>2, <2>4
    <3>3. CASE c \in clones
      BY <3>1, <3>3
    <3>4. CASE c = t /\ t > stateTs
      <4>1. t > startup
        BY <3>1, <3>4, <1>t
      <4> QED  BY <3>4, <4>1
    <3> QED  BY <3>2, <3>3, <3>4
  <2> QED  BY <2>1, <2>3, <2>4, <1>t DEF WarmupIsFresh
<1>6. ASSUME NEW t \in Times, NEW n \in 0..MaxSlam, VisualUpdate(t, n) PROVE Goal
  <2>1. /\ stateTs <= t /\ stateTs' = t /\ slam' = n /\ startup' = startup /\ Started'
        /\ n > slam => t - startup >= DtSlamDelay
    BY <1>6 DEF VisualUpdate, SlamAfter, Started
  <2>2. phase' # "WARMUP"
    BY <1>6 DEF VisualUpdate, RecoveringRuns
  <2> QED  BY <2>1, <2>2, <1>t DEF MapAge, LandmarksMature, WarmupIsFresh, Times
<1>7. Goal
  <2> HIDE DEF Goal
  <2> QED  BY <1>1, <1>2, <1>3, <1>4, <1>5, <1>6, MapKinds
<1> QED  BY <1>7 DEF NewMapIsFresh

\* A commit starts a new map: no landmark of the old one, no clone older than
\* it, and no landmark before the epoch is dt_slam_delay old - for any window,
\* landmark budget and delay, in order or, without zero-velocity updates, out of
\* order (commit_long_gap_recovery, do_feature_propagate_update).
THEOREM NewMapIsFreshAlways ==
    ASSUME ~TryZupt \/ InOrder
    PROVE  Spec => []NewMapIsFresh
<1> DEFINE Inv == /\ TypeOK /\ AttemptsLeft /\ RecoveringRuns /\ Clocked /\ MapAge
                  /\ NewMapIsFresh
<1>1. Init => Inv
  <2>1. Init => RecoveringRuns /\ Clocked /\ MapAge /\ NewMapIsFresh
    BY DEF Init, RecoveringRuns, Clocked, MapAge, NewMapIsFresh, LandmarksMature, WarmupIsFresh
  <2> QED  BY <2>1, TypeInit
<1>2. Inv /\ [Next]_vars => Inv'
  BY TypeStep, RecoveringRunsStep, ClockStep, FreshStep
<1> QED  BY <1>1, <1>2, PTL DEF Spec

---------------------------------------------------------------------------
\* The IMU history.

\* The buffer is one unbroken stretch of the stream: from any reading on, up to
\* the newest, no interval of ImuPeriod ticks is without a reading.
Dense(buffer, last) ==
    /\ \A q \in buffer : q <= last
    /\ buffer # {} => last \in buffer
    /\ \A q \in buffer : \A x \in q..last : \E r \in buffer : r <= x /\ x < r + ImuPeriod

\* Pruning keeps the stretch unbroken.
LEMMA CleanKeepsDense ==
    ASSUME NEW b \in SUBSET Nat, NEW n \in Nat, NEW o \in Int, Dense(b, n), o <= n
    PROVE  Dense(CleanOldImu(b, o), n)
<1>1. CASE o < 0
  BY <1>1 DEF CleanOldImu
<1>2. CASE ~(o < 0)
  <2> DEFINE kept == {r \in b : r >= o}
  <2>1. CleanOldImu(b, o) = kept
    BY <1>2 DEF CleanOldImu
  <2>2. \A q \in kept : q <= n
    BY DEF Dense
  <2>3. kept # {} => n \in kept
    BY DEF Dense
  <2>4. ASSUME NEW q \in kept, NEW x \in q..n
        PROVE  \E r \in kept : r <= x /\ x < r + ImuPeriod
    <3>1. PICK r \in b : r <= x /\ x < r + ImuPeriod
      BY <2>4 DEF Dense
    <3>2. CASE r >= o
      BY <3>1, <3>2
    <3>3. CASE ~(r >= o)
      <4>1. q <= x /\ x < q + ImuPeriod
        BY <3>1, <3>3, <2>4
      <4> QED  BY <4>1
    <3> QED  BY <3>2, <3>3
  <2> HIDE DEF kept
  <2> QED  BY <2>1, <2>2, <2>3, <2>4 DEF Dense
<1> QED  BY <1>1, <1>2

\* Pruning up to a period before x leaves a reading at or before x.
LEMMA CleanKeepsReading ==
    ASSUME NEW b \in SUBSET Nat, NEW n \in Nat, NEW o \in Int, Dense(b, n),
           NEW x \in Int, x <= n, NEW q \in b, q <= x, o + (ImuPeriod - 1) <= x
    PROVE  \E r \in CleanOldImu(b, o) : r <= x
<1>1. PICK r \in b : r <= x /\ x < r + ImuPeriod
  <2>1. x \in q..n
    OBVIOUS
  <2> QED  BY <2>1 DEF Dense
<1>2. r >= o
  BY <1>1
<1>3. r \in CleanOldImu(b, o)
  BY <1>2 DEF CleanOldImu
<1> QED  BY <1>1, <1>3

\* The next reading of the stream keeps the stretch unbroken.
LEMMA FeedKeepsDense ==
    ASSUME NEW b \in SUBSET Nat, NEW n \in Nat, Dense(b, n),
           NEW m \in Nat, m > n, m <= n + ImuPeriod
    PROVE  Dense(b \cup {m}, m)
<1>1. \A q \in b \cup {m} : q <= m
  BY DEF Dense
<1>2. ASSUME NEW q \in b \cup {m}, NEW x \in q..m
      PROVE  \E r \in b \cup {m} : r <= x /\ x < r + ImuPeriod
  <2>1. CASE x = m
    BY <2>1
  <2>2. CASE x # m /\ x > n
    <3>1. n \in b /\ n <= x /\ x < n + ImuPeriod
      BY <2>2, <1>2 DEF Dense
    <3> QED  BY <3>1
  <2>3. CASE x # m /\ ~(x > n)
    <3>1. q \in b /\ x \in q..n
      BY <2>3, <1>2
    <3> QED  BY <3>1 DEF Dense
  <2> QED  BY <2>1, <2>2, <2>3
<1> QED  BY <1>1, <1>2 DEF Dense

\* The reading to start from is there once the estimator runs, and until its
\* first frame as long as that frame is prompt.
ReadingKept ==
    initialized \/ (initOk /\ imuLast - stateTs <= InitWindow)
        => \E r \in imu : r <= stateTs + CamImuDt

\* The IMU stream is ahead of the state.
StreamAhead == Started => stateTs + CamImuDt < imuLast

HistoryInv == Dense(imu, imuLast) /\ StreamAhead /\ ReadingKept

\* What a camera frame does to the IMU history: it leaves history and state
\* alone, moves or keeps the state of a running estimator (or of one whose first
\* frame is prompt), prunes up to the state's new time, or starts the estimator.
LEMMA HistoryKinds ==
    ASSUME HistoryInv, RecoveringRuns, NEW t \in Times, CameraFrame(t), PromptFirstFrame
    PROVE  /\ FrameArrives(t)
           /\ \/ UNCHANGED <<imu, stateTs, initialized, initOk>>
              \/ /\ Started /\ initialized' /\ UNCHANGED <<imu, initOk>>
                 /\ stateTs' \in {stateTs, t}
                 /\ \E r \in imu : r <= stateTs + CamImuDt
              \/ /\ Started /\ initialized' /\ initOk' = initOk /\ stateTs' = t
                 /\ imu' = CleanOldImu(imu, t + CamImuDt - Slack)
                 /\ \E r \in imu : r <= stateTs + CamImuDt
              \/ \E t0 \in Times : InitializeSucceeds(t, t0)
<1> USE DEF boot, live
<1> DEFINE Quiet == UNCHANGED <<imu, stateTs, initialized, initOk>>
           HasReading == \E r \in imu : r <= stateTs + CamImuDt
           Moves == /\ Started /\ initialized' /\ UNCHANGED <<imu, initOk>>
                    /\ stateTs' \in {stateTs, t} /\ HasReading
           Prunes == /\ Started /\ initialized' /\ initOk' = initOk /\ stateTs' = t
                     /\ imu' = CleanOldImu(imu, t + CamImuDt - Slack) /\ HasReading
           Begins == \E t0 \in Times : InitializeSucceeds(t, t0)
           Goal == FrameArrives(t) /\ (Quiet \/ Moves \/ Prunes \/ Begins)
<1>1. ASSUME NEW rest, NEW outcome, Unresolved(t, rest, outcome) PROVE Quiet
  BY <1>1 DEF Unresolved
<1>2. RejectPose(t) \/ (\E p \in Positions : AcceptPose(t, p) \/ RejectConsensus(t, p)) => Goal
  BY <1>1 DEF RejectPose, AcceptPose, RejectConsensus
<1>3. DegradedFrame(t) \/ InitializeFails(t) => Goal
  BY DEF DegradedFrame, InitializeFails, Ordinary
<1>4. Started /\ FirstFramePrompt => HasReading
  BY DEF Started, FirstFramePrompt, HistoryInv, ReadingKept
<1>5. OutOfOrderFrame(t) \/ PropagateOnly(t) \/ (\E n \in 0..MaxSlam : VisualUpdate(t, n)) => Goal
  BY <1>4 DEF OutOfOrderFrame, PropagateOnly, VisualUpdate, Ordinary
<1>6. ZuptUpdate(t) => Goal
  BY DEF ZuptUpdate, ZuptArmed, Ordinary, Started, HistoryInv, ReadingKept
<1>7. (\E p \in Positions : Commit(t, p)) => Goal
  BY DEF Commit, CommitBookkeeping, Acceptable, PredictOrientation, Covers, Started,
         RecoveringRuns, Attempting, GapDetected
<1>8. Begins => Goal
  BY DEF InitializeSucceeds, Ordinary
<1>9. Goal
  <2> HIDE DEF Goal, Begins
  <2> QED  BY <1>2, <1>3, <1>5, <1>6, <1>7, <1>8 DEF CameraFrame, Begins
<1> QED  BY <1>9

\* feed_measurement_imu prunes no later than a period before the reading the
\* estimator starts from, and no later than the reading it appends.
LEMMA OldestNeededBound ==
    ASSUME TypeOK, StreamAhead, NEW r \in Nat, r > imuLast
    PROVE  /\ OldestNeeded(r) \in Int /\ OldestNeeded(r) - Slack <= r
           /\ initialized \/ (initOk /\ r - stateTs <= InitWindow) =>
                 \/ OldestNeeded(r) - Slack < 0
                 \/ OldestNeeded(r) - Slack + (ImuPeriod - 1) <= stateTs + CamImuDt
<1>t. stateTs \in Int /\ clones \in SUBSET Nat /\ imuLast \in Nat
  BY DEF TypeOK, TypeLive, TypeClock
<1>1. CASE ~initialized
  BY <1>1, <1>t DEF OldestNeeded
<1>2. CASE initialized /\ (clones = {} \/ MargTimestep(clones) > stateTs)
  BY <1>2, <1>t DEF OldestNeeded
<1>3. CASE initialized /\ clones # {} /\ ~(MargTimestep(clones) > stateTs)
  <2>1. MargTimestep(clones) \in Nat
    BY <1>3, <1>t, MargTimestepIsOldest
  <2>2. OldestNeeded(r) = MargTimestep(clones)
    BY <1>3 DEF OldestNeeded
  <2>3. stateTs + CamImuDt < imuLast
    BY <1>3 DEF StreamAhead, Started
  <2> QED  BY <1>3, <1>t, <2>1, <2>2, <2>3
<1> QED  BY <1>1, <1>2, <1>3

\* Every step keeps the history: what a step prunes, and where it moves the
\* state, leave a reading to start from.
LEMMA HistoryStep ==
    ASSUME TypeOK, RecoveringRuns, HistoryInv, PromptFirstFrame, [Next]_vars,
           stateTs' >= stateTs
    PROVE  HistoryInv'
<1>t. /\ stateTs \in Int /\ imu \in SUBSET Nat /\ imuLast \in Nat
      /\ Dense(imu, imuLast) /\ StreamAhead /\ ReadingKept
  BY DEF TypeOK, TypeLive, TypeClock, HistoryInv
<1>1. CASE UNCHANGED vars
  BY <1>1, <1>t DEF vars, live, boot, HistoryInv, StreamAhead, ReadingKept, Started, Dense
<1>2. ASSUME NEW r \in Times, FeedImu(r) PROVE HistoryInv'
  <2> DEFINE b == imu \cup {r}
             o == OldestNeeded(r) - Slack
  <2>1. /\ r \in Nat /\ r > imuLast /\ r <= imuLast + ImuPeriod
        /\ imu' = CleanOldImu(b, o) /\ imuLast' = r
        /\ UNCHANGED <<stateTs, initialized, initOk>>
    BY <1>2 DEF FeedImu, live, boot, Times
  <2>2. /\ o \in Int /\ o <= r
        /\ initialized \/ (initOk /\ r - stateTs <= InitWindow) =>
              o < 0 \/ o + (ImuPeriod - 1) <= stateTs + CamImuDt
    BY <2>1, <1>t, OldestNeededBound
  <2>3. b \in SUBSET Nat /\ Dense(b, r)
    BY <2>1, <1>t, FeedKeepsDense
  <2>4. StreamAhead'
    BY <2>1, <1>t DEF StreamAhead, Started
  <2>5. ASSUME initialized \/ (initOk /\ r - stateTs <= InitWindow)
        PROVE  \E q \in CleanOldImu(b, o) : q <= stateTs + CamImuDt
    <3>1. PICK q \in imu : q <= stateTs + CamImuDt
      BY <2>5, <2>1, <1>t DEF ReadingKept
    <3>2. q \in b /\ stateTs + CamImuDt \in Int /\ stateTs + CamImuDt <= r
      BY <2>5, <2>1, <1>t DEF StreamAhead, Started
    <3> HIDE DEF b, o
    <3>3. CASE o < 0
      BY <3>1, <3>2, <3>3 DEF CleanOldImu
    <3>4. CASE o + (ImuPeriod - 1) <= stateTs + CamImuDt
      BY <3>1, <3>2, <3>4, <2>1, <2>2, <2>3, CleanKeepsReading
    <3> QED  BY <3>3, <3>4, <2>5, <2>2
  <2> HIDE DEF b, o
  <2>6. Dense(imu', imuLast')
    BY <2>1, <2>2, <2>3, CleanKeepsDense
  <2>7. ReadingKept'
    BY <2>1, <2>5 DEF ReadingKept
  <2> QED  BY <2>4, <2>6, <2>7 DEF HistoryInv, Dense
<1>3. ASSUME NEW t0 \in Times, InitializeWithGt(t0) PROVE HistoryInv'
  <2>1. /\ UNCHANGED <<imu, imuLast>> /\ stateTs' = t0 /\ t0 \in Int
        /\ Covers(imu, t0 + CamImuDt)
    BY <1>3 DEF InitializeWithGt, Times
  <2>2. PICK r \in imu : r > t0 + CamImuDt
    BY <2>1 DEF Covers
  <2>3. r <= imuLast /\ r \in Nat
    BY <1>t DEF Dense
  <2>4. t0 + CamImuDt < imuLast
    BY <2>1, <2>2, <2>3, <1>t
  <2> QED  BY <2>1, <2>4, <1>t DEF HistoryInv, StreamAhead, ReadingKept, Dense, Covers
<1>4. ASSUME NEW t \in Times, CameraFrame(t) PROVE HistoryInv'
  <2>0. /\ imuLast' = imuLast /\ t + CamImuDt < imuLast /\ t \in Int
        /\ \/ UNCHANGED <<imu, stateTs, initialized, initOk>>
           \/ /\ Started /\ initialized' /\ UNCHANGED <<imu, initOk>>
              /\ stateTs' \in {stateTs, t}
              /\ \E r \in imu : r <= stateTs + CamImuDt
           \/ /\ Started /\ initialized' /\ initOk' = initOk /\ stateTs' = t
              /\ imu' = CleanOldImu(imu, t + CamImuDt - Slack)
              /\ \E r \in imu : r <= stateTs + CamImuDt
           \/ \E t0 \in Times : InitializeSucceeds(t, t0)
    BY <1>4, HistoryKinds DEF FrameArrives, Times
  <2>1. CASE UNCHANGED <<imu, stateTs, initialized, initOk>>
    BY <2>0, <2>1, <1>t DEF HistoryInv, StreamAhead, ReadingKept, Started, Dense
  <2>2. CASE /\ Started /\ initialized' /\ UNCHANGED <<imu, initOk>>
             /\ stateTs' \in {stateTs, t}
             /\ \E r \in imu : r <= stateTs + CamImuDt
    <3>1. PICK r \in imu : r <= stateTs + CamImuDt
      BY <2>2
    <3>2. r \in Nat /\ stateTs' \in Int /\ stateTs' + CamImuDt < imuLast
      BY <2>0, <2>2, <1>t DEF StreamAhead
    <3>3. r <= stateTs' + CamImuDt
      <4>1. CASE stateTs' = stateTs
        BY <3>1, <4>1
      <4>2. CASE stateTs' = t
        <5>1. t >= stateTs
          BY <4>2
        <5>2. r <= t + CamImuDt
          BY <3>1, <3>2, <5>1, <2>0, <1>t
        <5> QED  BY <4>2, <5>2
      <4> QED  BY <2>2, <4>1, <4>2
    <3> QED  BY <3>2, <3>3, <2>0, <2>2, <1>t DEF HistoryInv, StreamAhead, ReadingKept, Dense
  <2>3. CASE /\ Started /\ initialized' /\ initOk' = initOk /\ stateTs' = t
             /\ imu' = CleanOldImu(imu, t + CamImuDt - Slack)
             /\ \E r \in imu : r <= stateTs + CamImuDt
    <3> DEFINE x == t + CamImuDt
               o == t + CamImuDt - Slack
    <3>1. x \in Int /\ o \in Int /\ x <= imuLast /\ o <= imuLast /\ o + (ImuPeriod - 1) <= x
      BY <2>0, <1>t
    <3>2. PICK r \in imu : r <= stateTs + CamImuDt
      BY <2>3
    <3>3. r <= x
      BY <3>2, <2>0, <2>3, <1>t
    <3>4. imu' = CleanOldImu(imu, o)
      BY <2>3
    <3>5. StreamAhead'
      BY <2>0, <2>3 DEF StreamAhead
    <3> HIDE DEF o
    <3>6. Dense(imu', imuLast')
      BY <3>1, <3>4, <2>0, <1>t, CleanKeepsDense
    <3>7. \E q \in imu' : q <= x
      <4> HIDE DEF x
      <4> QED  BY <3>1, <3>2, <3>3, <3>4, <1>t, CleanKeepsReading
    <3> QED  BY <3>5, <3>6, <3>7, <2>3 DEF HistoryInv, ReadingKept, Dense
  <2>4. ASSUME NEW t0 \in Times, InitializeSucceeds(t, t0) PROVE HistoryInv'
    <3>1. /\ UNCHANGED <<imu, initialized>> /\ stateTs' = t0 /\ t0 <= t /\ t0 \in Int
          /\ \E r \in imu : r <= t0 + CamImuDt
      BY <2>4 DEF InitializeSucceeds, Covers, Times
    <3>2. t0 + CamImuDt < imuLast
      BY <3>1, <2>0, <1>t
    <3> QED  BY <3>1, <3>2, <2>0, <1>t DEF HistoryInv, StreamAhead, ReadingKept, Dense
  <2> QED  BY <2>0, <2>1, <2>2, <2>3, <2>4
<1> QED  BY <1>1, <1>2, <1>3, <1>4 DEF Next

\* The whole invariant, for an estimator whose state time does not run back.
HistoryAlways ==
    TypeOK /\ AttemptsLeft /\ RecoveringRuns /\ Clocked /\ MapAge /\ NewMapIsFresh /\ HistoryInv

LEMMA HistoryIsKept ==
    ASSUME ~TryZupt \/ InOrder, PromptFirstFrame
    PROVE  Spec => []HistoryAlways
<1>1. Init => HistoryAlways
  <2>1. Init => RecoveringRuns /\ Clocked /\ MapAge /\ NewMapIsFresh
    BY DEF Init, RecoveringRuns, Clocked, MapAge, NewMapIsFresh, LandmarksMature, WarmupIsFresh
  <2>2. Init => HistoryInv
    BY DEF Init, HistoryInv, Dense, StreamAhead, ReadingKept, Started
  <2> QED  BY <2>1, <2>2, TypeInit DEF HistoryAlways
<1>2. HistoryAlways /\ [Next]_vars => HistoryAlways'
  BY TypeStep, RecoveringRunsStep, ClockStep, FreshStep, HistoryStep DEF HistoryAlways
<1> QED  BY <1>1, <1>2, PTL DEF Spec

\* No pruning of the IMU history (feed_imu, after a ZUPT, after a commit) takes
\* the reading the next propagation starts from, for any IMU period, window and
\* clock offset the contract allows, provided that the first frame is prompt and
\* the state's time does not run back.
THEOREM ImuHistoryKeptAlways ==
    ASSUME ~TryZupt \/ InOrder, PromptFirstFrame
    PROVE  Spec => []ImuHistoryKept
<1>1. HistoryAlways => ImuHistoryKept
  BY DEF HistoryAlways, HistoryInv, ReadingKept, ImuHistoryKept
<1> QED  BY <1>1, HistoryIsKept, PTL

\* A step that moves the state onto a clone has readings on both sides of where
\* it starts.
LEMMA PropagationStep ==
    ASSUME HistoryAlways, PromptFirstFrame, [Next]_vars, stateTs' >= stateTs,
           stateTs' # stateTs, stateTs' \in clones'
    PROVE  Covers(imu, stateTs + CamImuDt)
<1>t. /\ stateTs \in Int /\ imu \in SUBSET Nat /\ imuLast \in Nat
      /\ Dense(imu, imuLast) /\ StreamAhead /\ HistoryInv /\ RecoveringRuns /\ MapAge
  BY DEF TypeOK, TypeLive, TypeClock, HistoryInv, HistoryAlways
<1>1. ~UNCHANGED vars /\ (\A r \in Times : ~FeedImu(r))
  BY DEF vars, live, FeedImu
<1>2. \A t0 \in Times : ~InitializeWithGt(t0)
  BY <1>t DEF InitializeWithGt, MapAge
<1>3. PICK t \in Times : CameraFrame(t)
  BY <1>1, <1>2 DEF Next
<1>4. ~(\E t0 \in Times : InitializeSucceeds(t, t0))
  BY <1>t DEF InitializeSucceeds, MapAge
<1>5. Started /\ \E r \in imu : r <= stateTs + CamImuDt
  BY <1>3, <1>4, <1>t, HistoryKinds
<1>6. imuLast \in imu /\ imuLast > stateTs + CamImuDt
  BY <1>5, <1>t DEF Dense, StreamAhead
<1> QED  BY <1>5, <1>6 DEF Covers

\* propagate_and_clone never integrates over an interval its readings do not
\* span, under the same conditions.
THEOREM PropagationHasImuAlways ==
    ASSUME ~TryZupt \/ InOrder, PromptFirstFrame
    PROVE  Spec => PropagationHasImu
<1>1. HistoryAlways /\ [Next]_vars =>
         [stateTs' # stateTs /\ stateTs' \in clones' => Covers(imu, stateTs + CamImuDt)]_vars
  BY PropagationStep, ClockStep DEF HistoryAlways
<1> QED  BY <1>1, HistoryIsKept, PTL DEF Spec, PropagationHasImu
=============================================================================
