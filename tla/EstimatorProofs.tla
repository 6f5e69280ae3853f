--------------------------- MODULE EstimatorProofs ---------------------------
(***************************************************************************)
(* The camera pipeline, the serial odometry and the selection of readings  *)
(* proved for any number of streams, frames and readings: no frame is lost,*)
(* doubled or fed out of order, what is published between updates is the   *)
(* current state, and an interval is integrated from exactly its readings. *)
(* And, at the end, the layout of the state: no landmark outlives its      *)
(* anchor, and ids and covariance rows stay aligned.                       *)
(***************************************************************************)
EXTENDS Estimator, WellFoundedInduction, FiniteSetTheorems, SequenceTheorems, TLAPS

USE CameraAssumption, OdometryAssumption

-----------------------------------------------------------------------------
\* The odometry between updates

Copies == {"time", "mean", "cov"}
OdoSteps == Copies \cup {"idle", "predict"}
Stages == {"idle", "propagate", "msckf", "slam", "init", "zupt", "commit"}
Versions == [epoch : Int, ver : Int]

OdoTyped ==
    /\ epoch \in Nat /\ states \in [0..epoch -> [mean : Int, at : Int, cov : Int, stamp : Int]]
    /\ cache \in [valid : BOOLEAN, mean : Versions, at : Int, cov : Versions, time : Int, off : Int]
    /\ odo \in [step : OdoSteps, req : Int, held : Int, asked : Versions]
    /\ upd \in [stage : Stages, step : {"start", "moved", "mean", "done"}, t : Int]
    /\ imuNow \in Int

\* The serial subscriber runs one of the two at a time.
Serial == odo.step = "idle" \/ upd.stage = "idle"

\* The State between two corrections, and in the middle of one.
Whole ==
    /\ states[epoch].cov = IF upd.step = "mean" THEN states[epoch].mean + 1 ELSE states[epoch].mean
    /\ IF upd.step = "moved" THEN states[epoch].at = upd.t + TOff
       ELSE states[epoch].at = states[epoch].stamp + TOff
    /\ upd.step = "moved" => upd.stage = "propagate"
    /\ upd.stage = "idle" => upd.step = "start"
    /\ upd.stage \in {"propagate", "commit"} => upd.step # "mean"

\* A cache that is valid is a copy of the State until that is corrected, and
\* is invalid once an updater has been left.
Cached ==
    /\ upd.stage \in {"slam", "init"} => ~cache.valid
    /\ cache.valid => cache.at = cache.time + cache.off /\ cache.off \in {0, TOff}
    /\ cache.valid /\ upd.step \in {"start", "moved"} =>
           /\ cache.mean = [epoch |-> epoch, ver |-> states[epoch].mean]
           /\ cache.cov = [epoch |-> epoch, ver |-> states[epoch].cov]

\* What the callback has copied so far.
Copied ==
    /\ odo.step # "idle" => /\ odo.held = epoch
                            /\ odo.asked = [epoch |-> epoch, ver |-> states[epoch].mean]
    /\ odo.step \in Copies => ~cache.valid
    /\ odo.step \in {"mean", "cov"} => cache.time = states[epoch].stamp
    /\ odo.step = "cov" => cache.mean = odo.asked /\ cache.at = states[epoch].at
    /\ odo.step = "predict" => cache.valid

OdoInv == OdoTyped /\ Serial /\ Whole /\ Cached /\ Copied /\ CloneOfCurrentState

\* Records with three fields replaced.
LEMMA CloneMoved ==
  ASSUME NEW m \in [valid : BOOLEAN, mean : Versions, at : Int, cov : Versions, time : Int, off : Int],
         NEW x \in Int, NEW y \in Int, NEW z \in Int
  PROVE  [m EXCEPT !.at = x, !.time = y, !.off = z]
             \in [valid : BOOLEAN, mean : Versions, at : Int, cov : Versions, time : Int, off : Int]
  BY Zenon

LEMMA MeanMoved ==
  ASSUME NEW m \in [mean : Int, at : Int, cov : Int, stamp : Int], NEW x \in Int, NEW y \in Int, NEW z \in Int
  PROVE  [m EXCEPT !.mean = x, !.at = y, !.stamp = z] \in [mean : Int, at : Int, cov : Int, stamp : Int]
  BY Zenon

LEMMA OdoInit == ASSUME Odometry!Init PROVE OdoInv
<1>1. states = [e \in {0} |-> [mean |-> 0, at |-> 1 + TOff, cov |-> 0, stamp |-> 1]] /\ epoch = 0
      /\ upd = [stage |-> "idle", step |-> "start", t |-> 0] /\ imuNow = 1 + TOff
      /\ odo = [step |-> "idle", req |-> 0, held |-> 0, asked |-> [epoch |-> -1, ver |-> -1]]
      /\ cache = [valid |-> FALSE, mean |-> [epoch |-> -1, ver |-> -1], at |-> 0, cov |-> [epoch |-> -1, ver |-> -1],
                  time |-> 0, off |-> 0]
      /\ out.mean = [epoch |-> -1, ver |-> -1]
  BY DEF Odometry!Init, Odometry!Idle, Odometry!Nobody
<1>2. OdoTyped
  <2>1. [epoch |-> -1, ver |-> -1] \in Versions
    BY DEF Versions
  <2>2. states \in [0..epoch -> [mean : Int, at : Int, cov : Int, stamp : Int]]
    BY <1>1
  <2> QED  BY <1>1, <2>1, <2>2 DEF OdoTyped, OdoSteps, Copies, Stages
<1>3. CloneOfCurrentState
  BY <1>1 DEF CloneOfCurrentState, Odometry!CloneOfCurrentState, Odometry!Published, Odometry!Nobody
<1> QED  BY <1>1, <1>2, <1>3 DEF OdoInv, Serial, Whole, Cached, Copied, Copies

\* The steps of the callback, while no frame is in progress.
LEMMA OdoCallback == ASSUME OdoInv, Odometry!Odometry PROVE OdoInv'
<1>0. OdoTyped /\ Serial /\ Whole /\ Cached /\ Copied
  BY DEF OdoInv
<1>1. ASSUME NEW r \in 1..OdometryTime, Odometry!StartOdometry(r) PROVE OdoInv'
  <2>1. UNCHANGED <<states, epoch, cache, upd, out>> /\ upd.stage = "idle" /\ imuNow' = r
        /\ odo' = [step |-> IF cache.valid THEN "predict" ELSE "time", req |-> r, held |-> epoch,
                   asked |-> [epoch |-> epoch, ver |-> states[epoch].mean]]
    BY <1>1 DEF Odometry!StartOdometry
  <2>2. OdoTyped'
    <3>1. [epoch |-> epoch, ver |-> states[epoch].mean] \in Versions
      BY <1>0 DEF OdoTyped, Versions
    <3> QED  BY <1>0, <2>1, <3>1 DEF OdoTyped, OdoSteps, Copies
  <2>3. Serial' /\ Whole' /\ Cached' /\ Copied'
    BY <1>0, <2>1 DEF Serial, Whole, Cached, Copied, Copies
  <2>4. CloneOfCurrentState'
    BY <2>1 DEF OdoInv, CloneOfCurrentState, Odometry!CloneOfCurrentState, Odometry!Published
  <2> QED  BY <2>2, <2>3, <2>4 DEF OdoInv
<1>2. CASE Odometry!CopyTime
  <2>1. UNCHANGED <<states, epoch, upd, imuNow, out>> /\ odo.step = "time" /\ upd.stage = "idle"
        /\ odo' = [odo EXCEPT !.step = "mean"] /\ cache' = [cache EXCEPT !.time = states[odo.held].stamp]
    BY <1>0, <1>2 DEF Odometry!CopyTime, Serial
  <2>2. OdoTyped'
    <3>1. odo.held \in 0..epoch
      BY <1>0, <2>1 DEF OdoTyped, Copied
    <3>2. states[odo.held].stamp \in Int
      BY <1>0, <3>1 DEF OdoTyped
    <3> QED  BY <1>0, <2>1, <3>2 DEF OdoTyped, OdoSteps, Copies
  <2>3. Serial' /\ Whole' /\ Cached' /\ Copied'
    BY <1>0, <2>1 DEF OdoTyped, Serial, Whole, Cached, Copied, Copies
  <2>4. CloneOfCurrentState'
    BY <2>1 DEF OdoInv, CloneOfCurrentState, Odometry!CloneOfCurrentState, Odometry!Published
  <2> QED  BY <2>2, <2>3, <2>4 DEF OdoInv
<1>3. CASE Odometry!CopyMean
  <2>1. UNCHANGED <<states, epoch, upd, imuNow, out>> /\ odo.step = "mean" /\ upd.stage = "idle" /\ odo.held = epoch
        /\ odo' = [odo EXCEPT !.step = "cov"]
        /\ cache' = [cache EXCEPT !.mean = [epoch |-> odo.held, ver |-> states[odo.held].mean],
                                  !.at = states[odo.held].at]
    BY <1>0, <1>3 DEF Odometry!CopyMean, Serial, Copied
  <2>2. OdoTyped'
    <3>1. [epoch |-> odo.held, ver |-> states[odo.held].mean] \in Versions /\ states[odo.held].at \in Int
      BY <1>0, <2>1 DEF OdoTyped, Versions
    <3> QED  BY <1>0, <2>1, <3>1 DEF OdoTyped, OdoSteps, Copies
  <2>3. Serial' /\ Whole' /\ Cached' /\ Copied'
    BY <1>0, <2>1 DEF OdoTyped, Serial, Whole, Cached, Copied, Copies
  <2>4. CloneOfCurrentState'
    BY <2>1 DEF OdoInv, CloneOfCurrentState, Odometry!CloneOfCurrentState, Odometry!Published
  <2> QED  BY <2>2, <2>3, <2>4 DEF OdoInv
<1>4. CASE Odometry!CopyCovariance
  <2>1. UNCHANGED <<states, epoch, upd, imuNow, out>> /\ odo.step = "cov" /\ upd.stage = "idle" /\ odo.held = epoch
        /\ odo' = [odo EXCEPT !.step = "predict"]
        /\ cache' = [cache EXCEPT !.cov = [epoch |-> odo.held, ver |-> states[odo.held].cov],
                                  !.off = TOff, !.valid = TRUE]
    BY <1>0, <1>4 DEF Odometry!CopyCovariance, Serial, Copied
  <2>2. OdoTyped'
    <3>1. [epoch |-> odo.held, ver |-> states[odo.held].cov] \in Versions
      BY <1>0, <2>1 DEF OdoTyped, Versions
    <3> QED  BY <1>0, <2>1, <3>1 DEF OdoTyped, OdoSteps, Copies
  <2>3. Serial' /\ Whole' /\ Copied'
    BY <1>0, <2>1 DEF OdoTyped, Serial, Whole, Copied, Copies
  <2>4. Cached'
    BY <1>0, <2>1 DEF OdoTyped, Whole, Cached, Copied, Copies
  <2>5. CloneOfCurrentState'
    BY <2>1 DEF OdoInv, CloneOfCurrentState, Odometry!CloneOfCurrentState, Odometry!Published
  <2> QED  BY <2>2, <2>3, <2>4, <2>5 DEF OdoInv
<1>5. CASE Odometry!Predict
  <2>1. /\ UNCHANGED <<states, epoch, upd, imuNow>> /\ odo.step = "predict" /\ upd.stage = "idle"
        /\ odo' = [odo EXCEPT !.step = "idle"]
        /\ cache' = [cache EXCEPT !.at = @ + ((odo.req + cache.off) - (cache.time + cache.off)),
                                  !.time = odo.req + cache.off, !.off = 0]
        /\ out' = [mean |-> cache.mean, cov |-> cache.cov, at |-> cache'.at, req |-> odo.req, asked |-> odo.asked]
    BY <1>0, <1>5 DEF Odometry!Predict, Odometry!time0, Odometry!time1, Serial
  <2>2. cache.valid /\ cache.at \in Int /\ cache.time \in Int /\ cache.off \in Int /\ odo.req \in Int
        /\ cache.at = cache.time + cache.off /\ cache.off \in {0, TOff} /\ upd.step = "start"
    BY <1>0, <2>1 DEF OdoTyped, Cached, Copied, Whole
  <2>8. cache.at + ((odo.req + cache.off) - (cache.time + cache.off)) = odo.req + cache.off
    BY <2>2
  <2>9. cache' = [cache EXCEPT !.at = odo.req + cache.off, !.time = odo.req + cache.off, !.off = 0]
    BY <2>1, <2>8
  <2>3. cache'.at = odo.req + cache.off /\ cache'.time = odo.req + cache.off /\ cache'.off = 0
        /\ cache'.valid = cache.valid /\ cache'.mean = cache.mean /\ cache'.cov = cache.cov
    BY <1>0, <2>9 DEF OdoTyped
  <2>4. OdoTyped'
    <3>1. odo.req + cache.off \in Int
      BY <2>2
    <3>2. cache' \in [valid : BOOLEAN, mean : Versions, at : Int, cov : Versions, time : Int, off : Int]
      <4>1. PICK x \in Int : x = odo.req + cache.off
        BY <3>1
      <4>0. PICK o \in Int : o = 0
        OBVIOUS
      <4>2. cache' = [cache EXCEPT !.at = x, !.time = x, !.off = o]
        BY <2>9, <4>0, <4>1
      <4>3. cache \in [valid : BOOLEAN, mean : Versions, at : Int, cov : Versions, time : Int, off : Int]
        BY <1>0 DEF OdoTyped
      <4>4. [cache EXCEPT !.at = x, !.time = x, !.off = o]
                \in [valid : BOOLEAN, mean : Versions, at : Int, cov : Versions, time : Int, off : Int]
        BY <4>0, <4>1, <4>3, CloneMoved, Zenon
      <4> QED  BY <4>2, <4>4, Zenon
    <3>3. UNCHANGED <<states, epoch, upd, imuNow>> /\ odo' = [odo EXCEPT !.step = "idle"]
      BY <2>1
    <3> QED  BY <1>0, <3>2, <3>3 DEF OdoTyped, OdoSteps
  <2>5. Serial' /\ Whole' /\ Copied'
    BY <1>0, <2>1 DEF OdoTyped, Serial, Whole, Copied, Copies
  <2>6. Cached'
    BY <1>0, <2>1, <2>2, <2>3 DEF Cached
  <2>7. CloneOfCurrentState'
    <3>1. cache.mean = odo.asked /\ cache.cov = odo.asked
      BY <1>0, <2>1, <2>2 DEF Cached, Copied, Whole
    <3>2. out'.mean = out'.asked /\ out'.cov = out'.asked /\ out'.at - out'.req = cache.off
      BY <2>1, <2>2, <2>3, <3>1
    <3> QED  BY <2>2, <3>2 DEF CloneOfCurrentState, Odometry!CloneOfCurrentState
  <2> QED  BY <2>4, <2>5, <2>6, <2>7 DEF OdoInv
<1>6. CASE Odometry!NoPrediction
  <2>1. UNCHANGED <<states, epoch, cache, upd, imuNow, out>> /\ odo.step = "predict" /\ upd.stage = "idle"
        /\ odo' = [odo EXCEPT !.step = "idle"]
    BY <1>0, <1>6 DEF Odometry!NoPrediction, Serial
  <2>2. OdoTyped' /\ Serial' /\ Whole' /\ Copied' /\ Cached'
    BY <1>0, <2>1 DEF OdoTyped, Serial, Whole, Copied, Cached, Copies, OdoSteps
  <2>3. CloneOfCurrentState'
    BY <2>1 DEF OdoInv, CloneOfCurrentState, Odometry!CloneOfCurrentState, Odometry!Published
  <2> QED  BY <2>2, <2>3 DEF OdoInv
<1> QED  BY <1>1, <1>2, <1>3, <1>4, <1>5, <1>6 DEF Odometry!Odometry

\* The steps of the update thread, while the callback is not at work.
LEMMA OdoUpdate == ASSUME OdoInv, Odometry!Update PROVE OdoInv'
<1>0. OdoTyped /\ Serial /\ Whole /\ Cached /\ Copied /\ CloneOfCurrentState
  BY DEF OdoInv
\* Whatever the step, the callback stays idle and nothing is published.
<1>1. ASSUME UNCHANGED <<odo, imuNow, out>>, odo.step = "idle", OdoTyped', Whole', Cached' PROVE OdoInv'
  <2>1. Serial' /\ Copied'
    BY <1>1 DEF Serial, Copied, Copies
  <2>2. CloneOfCurrentState'
    BY <1>0, <1>1 DEF CloneOfCurrentState, Odometry!CloneOfCurrentState, Odometry!Published
  <2> QED  BY <1>1, <2>1, <2>2 DEF OdoInv
\* The State that is current.
<1>2. states[epoch] \in [mean : Int, at : Int, cov : Int, stamp : Int] /\ epoch \in 0..epoch
  BY <1>0 DEF OdoTyped
<1>3. ASSUME NEW t \in 1..OdometryTime, NEW stage \in {"propagate", "zupt", "commit"}, Odometry!StartFrame(t, stage)
      PROVE  OdoInv'
  <2>1. UNCHANGED <<states, epoch, cache, odo, imuNow, out>> /\ upd.stage = "idle" /\ odo.step = "idle"
        /\ upd' = [stage |-> stage, step |-> "start", t |-> t]
    BY <1>3 DEF Odometry!StartFrame
  <2>2. upd' \in [stage : Stages, step : {"start", "moved", "mean", "done"}, t : Int]
        /\ upd'.stage = stage /\ upd'.step = "start" /\ upd.step = "start"
    BY <1>0, <2>1 DEF Stages, Whole
  <2>3. OdoTyped'
    BY <1>0, <2>1, <2>2 DEF OdoTyped
  <2>4. Whole' /\ Cached'
    BY <1>0, <2>1, <2>2 DEF Whole, Cached
  <2> QED  BY <1>1, <2>1, <2>3, <2>4
<1>4. CASE Odometry!PropagateMean
  <2>1. UNCHANGED <<epoch, cache, odo, imuNow, out>> /\ upd.stage = "propagate" /\ upd.step = "start" /\ odo.step = "idle"
        /\ upd' = [upd EXCEPT !.stage = "propagate", !.step = "moved"]
        /\ states' = [states EXCEPT ![epoch] = [states[epoch] EXCEPT !.at = upd.t + TOff]]
    BY <1>0, <1>2, <1>4 DEF Odometry!PropagateMean, Odometry!At, Odometry!Goto, Serial, OdoTyped
  <2>2. OdoTyped'
    <3>1. [states[epoch] EXCEPT !.at = upd.t + TOff] \in [mean : Int, at : Int, cov : Int, stamp : Int]
      <4>1. upd.t + TOff \in Int
        BY <1>0 DEF OdoTyped
      <4> QED  BY <1>2, <4>1
    <3> QED  BY <1>0, <2>1, <3>1 DEF OdoTyped, Stages
  <2>3. states'[epoch] = [states[epoch] EXCEPT !.at = upd.t + TOff]
        /\ upd'.stage = "propagate" /\ upd'.step = "moved" /\ upd'.t = upd.t
    BY <1>0, <1>2, <2>1 DEF OdoTyped
  <2>4. Whole' /\ Cached'
    BY <1>0, <1>2, <2>1, <2>3 DEF Whole, Cached
  <2> QED  BY <1>1, <2>1, <2>2, <2>4
<1>5. ASSUME NEW b \in BOOLEAN, Odometry!SetStamp(b) PROVE OdoInv'
  <2>0. PICK s \in {"msckf", "idle"} : upd' = [upd EXCEPT !.stage = s, !.step = "start"]
    BY <1>5 DEF Odometry!SetStamp, Odometry!Goto
  <2>1. UNCHANGED <<epoch, cache, odo, imuNow, out>> /\ upd.stage = "propagate" /\ upd.step = "moved" /\ odo.step = "idle"
        /\ states' = [states EXCEPT ![epoch] = [states[epoch] EXCEPT !.stamp = upd.t]]
    BY <1>0, <1>2, <1>5 DEF Odometry!SetStamp, Odometry!At, Serial, OdoTyped
  <2>2. OdoTyped'
    <3>1. [states[epoch] EXCEPT !.stamp = upd.t] \in [mean : Int, at : Int, cov : Int, stamp : Int]
      BY <1>0, <1>2 DEF OdoTyped
    <3> QED  BY <1>0, <2>0, <2>1, <3>1 DEF OdoTyped, Stages
  <2>3. states'[epoch] = [states[epoch] EXCEPT !.stamp = upd.t]
        /\ upd'.stage = s /\ upd'.step = "start" /\ upd'.t = upd.t
    BY <1>0, <1>2, <2>0, <2>1 DEF OdoTyped
  <2>4. Whole' /\ Cached'
    BY <1>0, <1>2, <2>1, <2>3 DEF Whole, Cached
  <2> QED  BY <1>1, <2>1, <2>2, <2>4
<1>6. ASSUME NEW stage \in {"msckf", "slam", "init", "zupt"}, Odometry!CorrectCovariance(stage) PROVE OdoInv'
  <2>1. UNCHANGED <<epoch, cache, odo, imuNow, out>> /\ upd.stage = stage /\ upd.step = "start" /\ odo.step = "idle"
        /\ upd' = [upd EXCEPT !.stage = stage, !.step = "mean"]
        /\ states' = [states EXCEPT ![epoch] = [states[epoch] EXCEPT !.cov = states[epoch].cov + 1]]
    BY <1>0, <1>2, <1>6 DEF Odometry!CorrectCovariance, Odometry!At, Odometry!Goto, Odometry!Cur, Serial, OdoTyped
  <2>2. OdoTyped'
    <3>1. [states[epoch] EXCEPT !.cov = states[epoch].cov + 1] \in [mean : Int, at : Int, cov : Int, stamp : Int]
      BY <1>2
    <3> QED  BY <1>0, <2>1, <3>1 DEF OdoTyped, Stages
  <2>3. states'[epoch] = [states[epoch] EXCEPT !.cov = states[epoch].cov + 1]
        /\ upd'.stage = stage /\ upd'.step = "mean" /\ upd'.t = upd.t
    BY <1>0, <1>2, <2>1 DEF OdoTyped
  <2>4. Whole' /\ Cached'
    BY <1>0, <1>2, <2>1, <2>3 DEF Whole, Cached
  <2> QED  BY <1>1, <2>1, <2>2, <2>4
<1>7. ASSUME NEW stage \in {"msckf", "slam", "init", "zupt"}, Odometry!CorrectMean(stage) PROVE OdoInv'
  <2> DEFINE n == [states[epoch] EXCEPT !.mean = states[epoch].mean + 1,
                                        !.at = IF stage = "zupt" THEN upd.t + TOff ELSE states[epoch].at,
                                        !.stamp = IF stage = "zupt" THEN upd.t ELSE states[epoch].stamp]
  <2>1. UNCHANGED <<epoch, cache, odo, imuNow, out>> /\ upd.stage = stage /\ upd.step = "mean" /\ odo.step = "idle"
        /\ upd' = [upd EXCEPT !.stage = stage, !.step = "done"]
        /\ states' = [states EXCEPT ![epoch] = n]
    BY <1>0, <1>2, <1>7 DEF Odometry!CorrectMean, Odometry!At, Odometry!Goto, Serial, OdoTyped
  <2>2. n \in [mean : Int, at : Int, cov : Int, stamp : Int] /\ n.mean = states[epoch].mean + 1 /\ n.cov = states[epoch].cov
        /\ (stage = "zupt" => n.at = n.stamp + TOff)
        /\ (stage # "zupt" => n.at = states[epoch].at /\ n.stamp = states[epoch].stamp)
    <3>1. PICK u \in Int : u = upd.t
      BY <1>0 DEF OdoTyped
    <3>2. PICK m \in [mean : Int, at : Int, cov : Int, stamp : Int] : m = states[epoch]
      BY <1>2
    <3>3. PICK v \in Int : v = m.mean + 1
      BY <3>2
    <3>4. PICK y \in Int : y = IF stage = "zupt" THEN u + TOff ELSE m.at
      BY <3>2
    <3>5. PICK z \in Int : z = IF stage = "zupt" THEN u ELSE m.stamp
      BY <3>2
    <3>6. n = [m EXCEPT !.mean = v, !.at = y, !.stamp = z]
      BY <3>1, <3>2, <3>3, <3>4, <3>5
    <3> HIDE DEF n
    <3>7. n \in [mean : Int, at : Int, cov : Int, stamp : Int]
      <4>1. [m EXCEPT !.mean = v, !.at = y, !.stamp = z] \in [mean : Int, at : Int, cov : Int, stamp : Int]
        BY <3>2, <3>3, <3>4, <3>5, MeanMoved, Zenon
      <4> QED  BY <3>6, <4>1, Zenon
    <3>8. n.mean = v /\ n.cov = m.cov /\ n.at = y /\ n.stamp = z
      BY <3>2, <3>6
    <3> QED  BY <3>1, <3>2, <3>3, <3>4, <3>5, <3>7, <3>8
  <2> HIDE DEF n
  <2>3. OdoTyped'
    BY <1>0, <2>1, <2>2 DEF OdoTyped, Stages
  <2>4. states'[epoch] = n /\ upd'.stage = stage /\ upd'.step = "done" /\ upd'.t = upd.t
    BY <1>0, <1>2, <2>1 DEF OdoTyped
  <2>5. Whole' /\ Cached'
    BY <1>0, <1>2, <2>1, <2>2, <2>4 DEF Whole, Cached
  <2> QED  BY <1>1, <2>1, <2>3, <2>5
<1>8. ASSUME NEW stage \in {"msckf", "slam", "init"}, Odometry!NothingToCorrect(stage) PROVE OdoInv'
  <2>1. UNCHANGED <<states, epoch, cache, odo, imuNow, out>> /\ upd.stage = stage /\ upd.step = "start" /\ odo.step = "idle"
        /\ upd' = [upd EXCEPT !.stage = stage, !.step = "done"]
    BY <1>0, <1>8 DEF Odometry!NothingToCorrect, Odometry!At, Odometry!Goto, Serial
  <2>2. OdoTyped' /\ Whole' /\ Cached'
    BY <1>0, <2>1 DEF OdoTyped, Whole, Cached, Stages
  <2> QED  BY <1>1, <2>1, <2>2
<1>9. ASSUME NEW stage \in {"msckf", "slam", "zupt", "commit"}, NEW next \in {"slam", "idle"}, Odometry!Invalidate(stage, next)
      PROVE  OdoInv'
  <2>1. UNCHANGED <<states, epoch, odo, imuNow, out>> /\ upd.stage = stage /\ upd.step = "done" /\ odo.step = "idle"
        /\ upd' = [upd EXCEPT !.stage = next, !.step = "start"]
        /\ cache' = [cache EXCEPT !.valid = FALSE]
    BY <1>0, <1>9 DEF Odometry!Invalidate, Odometry!At, Odometry!Goto, Serial
  <2>2. OdoTyped' /\ ~cache'.valid /\ upd'.stage = next /\ upd'.step = "start" /\ upd'.t = upd.t
    BY <1>0, <2>1 DEF OdoTyped, Stages
  <2>3. Whole' /\ Cached'
    BY <1>0, <2>1, <2>2 DEF Whole, Cached
  <2> QED  BY <1>1, <2>1, <2>2, <2>3
<1>10. CASE Odometry!EndFrame
  <2>1. UNCHANGED <<states, epoch, cache, odo, imuNow, out>> /\ upd.stage = "init" /\ upd.step = "done" /\ odo.step = "idle"
        /\ upd' = [stage |-> "idle", step |-> "start", t |-> 0]
    BY <1>0, <1>10 DEF Odometry!EndFrame, Odometry!At, Odometry!Idle, Serial
  <2>2. OdoTyped' /\ Whole' /\ Cached'
    BY <1>0, <2>1 DEF OdoTyped, Whole, Cached, Stages
  <2> QED  BY <1>1, <2>1, <2>2
<1>11. CASE Odometry!NoMoreSlam
  <2>1. UNCHANGED <<states, epoch, cache, odo, imuNow, out>> /\ upd.stage = "slam" /\ upd.step = "start" /\ odo.step = "idle"
        /\ upd' = [upd EXCEPT !.stage = "init", !.step = "start"]
    BY <1>0, <1>11 DEF Odometry!NoMoreSlam, Odometry!At, Odometry!Goto, Serial
  <2>2. OdoTyped' /\ Whole' /\ Cached'
    BY <1>0, <2>1 DEF OdoTyped, Whole, Cached, Stages
  <2> QED  BY <1>1, <2>1, <2>2
<1>12. CASE Odometry!ReplaceState
  <2> DEFINE n == [mean |-> 0, at |-> upd.t + TOff, cov |-> 0, stamp |-> upd.t]
  <2>1. UNCHANGED <<cache, odo, imuNow, out>> /\ upd.stage = "commit" /\ upd.step = "start" /\ odo.step = "idle"
        /\ upd' = [upd EXCEPT !.stage = "commit", !.step = "done"] /\ epoch' = epoch + 1
        /\ states' = [e \in DOMAIN states \cup {epoch'} |-> IF e \in DOMAIN states THEN states[e] ELSE n]
    BY <1>0, <1>12 DEF Odometry!ReplaceState, Odometry!At, Odometry!Goto, Serial
  <2>2. n \in [mean : Int, at : Int, cov : Int, stamp : Int] /\ n.mean = n.cov /\ n.at = n.stamp + TOff
    BY <1>0 DEF OdoTyped
  <2> HIDE DEF n
  <2>3. DOMAIN states = 0..epoch /\ 0..epoch' = DOMAIN states \cup {epoch'} /\ epoch' \notin DOMAIN states /\ epoch' \in Nat
    BY <1>0, <2>1 DEF OdoTyped
  <2>4. states' \in [0..epoch' -> [mean : Int, at : Int, cov : Int, stamp : Int]] /\ states'[epoch'] = n
    BY <1>0, <2>1, <2>2, <2>3 DEF OdoTyped
  <2>5. OdoTyped'
    BY <1>0, <2>1, <2>3, <2>4 DEF OdoTyped, Stages
  <2>6. upd'.stage = "commit" /\ upd'.step = "done"
    BY <1>0, <2>1 DEF OdoTyped
  <2>7. Whole' /\ Cached'
    BY <1>0, <2>1, <2>2, <2>4, <2>6 DEF Whole, Cached
  <2> QED  BY <1>1, <2>1, <2>5, <2>7
<1> QED  BY <1>3, <1>4, <1>5, <1>6, <1>7, <1>8, <1>9, <1>10, <1>11, <1>12 DEF Odometry!Update

\* With the serial subscriber, for any clock offset and any order of readings,
\* frames, updates and recovery commits: what fast_state_propagate publishes at a
\* reading is the state that was current when the reading arrived, mean and
\* covariance alike, although several ways through a frame leave the cache as it is.
THEOREM CloneOfCurrentStateAlways == Odometry!Spec => []CloneOfCurrentState
<1>1. ASSUME OdoInv, [Odometry!Next]_(Odometry!vars) PROVE OdoInv'
  <2>1. CASE UNCHANGED <<states, epoch, cache, odo, upd, imuNow, out>>
    BY <1>1, <2>1 DEF OdoInv, OdoTyped, Serial, Whole, Cached, Copied, CloneOfCurrentState,
                      Odometry!CloneOfCurrentState, Odometry!Published
  <2> QED  BY <1>1, <2>1, OdoCallback, OdoUpdate DEF Odometry!Next, Odometry!vars
<1>2. OdoInv => CloneOfCurrentState
  BY DEF OdoInv
<1> QED  BY <1>1, <1>2, OdoInit, PTL DEF Odometry!Spec

-----------------------------------------------------------------------------
\* The camera pipeline

Frames == [t : 1..FrameTime, cam : Cams]
Slots == {Streams!None} \cup Frames
InUpdate == {"count", "loop", "pop", "end"}

Elements(s) == {s[k] : k \in DOMAIN s}

CamTyped ==
    /\ threaded \in BOOLEAN /\ locked \in BOOLEAN /\ running \in BOOLEAN
    /\ sent \in [Cams -> Int] /\ pending \in [Cams -> Slots]
    /\ queue \in Seq(Frames) /\ fed \in Seq(Frames) /\ accepted \subseteq Frames
    /\ slot \in Int /\ imu \in Int /\ limit \in Int /\ throws \in Nat

\* A frame that is being decoded is the last of its stream, and younger than
\* everything the stream has had accepted.
FreshFrames ==
    /\ \A c \in Cams : pending[c] # Streams!None => pending[c].cam = c /\ pending[c].t = sent[c]
    /\ \A f \in accepted : f.t <= sent[f.cam] /\ (pending[f.cam] # Streams!None => f.t < sent[f.cam])

\* The queue holds each frame once, none behind a younger one.
Queued ==
    /\ \A j, k \in DOMAIN queue : queue[j] = queue[k] => j = k
    /\ \A j, k \in DOMAIN queue : j < k => ~Streams!Earlier(queue[k], queue[j])

\* The lock and the flag say where the update thread is.
Held ==
    /\ (running <=> up # "none") /\ (locked <=> up \in InUpdate)
    /\ up = "pop" => queue # <<>> /\ Head(queue) \in Elements(fed)

\* The serial runner waits for the thread: the reading it started it with is
\* the newest.
Joined ==
    /\ cb \in {"test", "join"} => slot = imu
    /\ ~threaded /\ up # "none" => cb = "join"
    /\ ~threaded /\ up \in {"loop", "pop"} => limit = imu

\* NoFrameLost, with the two sets written out.
Kept ==
    /\ accepted = Elements(queue) \cup Elements(fed)
    /\ throws = 0 =>
         /\ \A f \in Elements(queue) \cap Elements(fed) : up = "pop" /\ f = Head(queue)
         /\ \A j, k \in DOMAIN fed : fed[j] = fed[k] => j = k

CamInv == CamTyped /\ FreshFrames /\ Queued /\ Held /\ Joined /\ Kept

LEMMA KeptIsNoFrameLost == ASSUME Kept PROVE NoFrameLost
  BY DEF Kept, NoFrameLost, Streams!NoFrameLost, Streams!QueueSet, Streams!FedSet, Streams!IsInjective, Elements

\* A frame is never the empty slot, and two frames are ordered one way at most.
LEMMA FrameFacts == ASSUME NEW f \in Frames
                    PROVE  f # Streams!None /\ f.t \in Int /\ f.t >= 1 /\ f.cam \in Cams
<1>1. f.t \in Int /\ f.t >= 1 /\ f.cam \in Cams
  BY DEF Frames
<1>2. Streams!None.t = -1
  BY DEF Streams!None
<1> QED  BY <1>1, <1>2

\* A queue that loses its first frame.
LEMMA TailFacts == ASSUME NEW s \in Seq(Frames), s # <<>>
                   PROVE  /\ Tail(s) \in Seq(Frames) /\ Head(s) \in Frames /\ Head(s) = s[1] /\ 1 \in DOMAIN s
                          /\ \A k \in DOMAIN Tail(s) : k + 1 \in DOMAIN s /\ Tail(s)[k] = s[k + 1]
                          /\ Elements(s) = Elements(Tail(s)) \cup {Head(s)}
<1>1. Len(s) \in Nat \ {0} /\ DOMAIN s = 1..Len(s) /\ Head(s) = s[1]
  OBVIOUS
<1>2. Tail(s) \in Seq(Frames) /\ DOMAIN Tail(s) = 1..(Len(s) - 1)
  BY <1>1
<1>3. \A k \in DOMAIN Tail(s) : k + 1 \in DOMAIN s /\ Tail(s)[k] = s[k + 1]
  BY <1>1, <1>2
<1>4. \A j \in DOMAIN s : j = 1 \/ (j - 1 \in DOMAIN Tail(s) /\ s[j] = Tail(s)[j - 1])
  BY <1>1, <1>2
<1>5. Elements(s) = Elements(Tail(s)) \cup {Head(s)}
  <2>1. ASSUME NEW f \in Elements(s) PROVE f \in Elements(Tail(s)) \cup {Head(s)}
    BY <1>1, <1>4 DEF Elements
  <2>2. ASSUME NEW f \in Elements(Tail(s)) \cup {Head(s)} PROVE f \in Elements(s)
    BY <1>1, <1>3 DEF Elements
  <2> QED  BY <2>1, <2>2
<1> QED  BY <1>1, <1>2, <1>3, <1>5

\* A sequence that gains a frame.
LEMMA AppendFacts == ASSUME NEW s \in Seq(Frames), NEW f \in Frames
                     PROVE  /\ Append(s, f) \in Seq(Frames) /\ Elements(Append(s, f)) = Elements(s) \cup {f}
                            /\ Append(s, f)[Len(Append(s, f))] = f /\ Append(s, f) # s
                            /\ (\A j, k \in DOMAIN s : s[j] = s[k] => j = k) /\ f \notin Elements(s) =>
                                   \A j, k \in DOMAIN Append(s, f) : Append(s, f)[j] = Append(s, f)[k] => j = k
<1> DEFINE a == Append(s, f)
<1>1. a \in Seq(Frames) /\ Len(a) = Len(s) + 1 /\ DOMAIN a = 1..(Len(s) + 1) /\ DOMAIN s = 1..Len(s) /\ Len(s) \in Nat
      /\ a[Len(s) + 1] = f /\ \A k \in DOMAIN s : a[k] = s[k]
  OBVIOUS
<1> HIDE DEF a
<1>2. \A k \in DOMAIN a : k = Len(s) + 1 \/ (k \in DOMAIN s /\ a[k] = s[k])
  BY <1>1
<1>3. Elements(a) = Elements(s) \cup {f}
  <2>1. ASSUME NEW g \in Elements(a) PROVE g \in Elements(s) \cup {f}
    BY <1>1, <1>2 DEF Elements
  <2>2. ASSUME NEW g \in Elements(s) \cup {f} PROVE g \in Elements(a)
    <3>1. Len(s) + 1 \in DOMAIN a /\ \A k \in DOMAIN s : k \in DOMAIN a
      BY <1>1
    <3> QED  BY <1>1, <3>1 DEF Elements
  <2> QED  BY <2>1, <2>2
<1>4. ASSUME \A j, k \in DOMAIN s : s[j] = s[k] => j = k, f \notin Elements(s)
      PROVE  \A j, k \in DOMAIN a : a[j] = a[k] => j = k
  <2>1. \A k \in DOMAIN s : s[k] # f
    BY <1>4 DEF Elements
  <2> QED  BY <1>1, <1>2, <1>4, <2>1
<1>5. a[Len(a)] = f /\ a # s
  BY <1>1
<1> QED  BY <1>1, <1>3, <1>4, <1>5, Zenon DEF a

\* What std::sort leaves: the same frames, each as often as before, in order.
LEMMA SortFacts == ASSUME NEW s \in Seq(Frames), NEW q \in Streams!Sorts(s)
                   PROVE  /\ q \in Seq(Frames) /\ Elements(q) = Elements(s)
                          /\ \A j, k \in DOMAIN q : j < k => ~Streams!Earlier(q[k], q[j])
                          /\ (\A j, k \in DOMAIN s : s[j] = s[k] => j = k) =>
                                 \A j, k \in DOMAIN q : q[j] = q[k] => j = k
<1>1. PICK p \in Streams!Bijection(DOMAIN s, DOMAIN s) : q = [k \in DOMAIN s |-> s[p[k]]]
  BY DEF Streams!Sorts
<1>2. p \in [DOMAIN s -> DOMAIN s] /\ (\A a, b \in DOMAIN s : p[a] = p[b] => a = b)
      /\ \A b \in DOMAIN s : \E a \in DOMAIN s : p[a] = b
  BY <1>1 DEF Streams!Bijection, Streams!Injection, Streams!Surjection, Streams!IsInjective
<1>3. DOMAIN s = 1..Len(s) /\ Len(s) \in Nat /\ s \in [1..Len(s) -> Frames]
  OBVIOUS
<1>4. q \in [1..Len(s) -> Frames] /\ DOMAIN q = DOMAIN s
  BY <1>1, <1>2, <1>3
<1>5. q \in Seq(Frames)
  BY <1>3, <1>4
<1>6. Elements(q) = Elements(s)
  <2>1. ASSUME NEW f \in Elements(q) PROVE f \in Elements(s)
    BY <1>1, <1>2, <1>4 DEF Elements
  <2>2. ASSUME NEW f \in Elements(s) PROVE f \in Elements(q)
    BY <1>1, <1>2, <1>4 DEF Elements
  <2> QED  BY <2>1, <2>2
<1>7. ASSUME \A j, k \in DOMAIN s : s[j] = s[k] => j = k PROVE \A j, k \in DOMAIN q : q[j] = q[k] => j = k
  BY <1>1, <1>2, <1>4, <1>7
<1>8. \A j, k \in DOMAIN q : j < k => ~Streams!Earlier(q[k], q[j])
  BY DEF Streams!Sorts
<1> QED  BY <1>5, <1>6, <1>7, <1>8

LEMMA CamInit == ASSUME Streams!Init PROVE CamInv
<1>1. /\ threaded \in Modes /\ sent = [c \in Cams |-> 0] /\ pending = [c \in Cams |-> Streams!None]
      /\ queue = <<>> /\ slot = 0 /\ imu = 0 /\ cb = "idle" /\ running = FALSE /\ up = "none" /\ locked = FALSE
      /\ limit = 0 /\ accepted = {} /\ fed = <<>> /\ throws = 0
  BY DEF Streams!Init
<1>2. Elements(<<>>) = {}
  BY DEF Elements
<1>3. CamTyped
  <2>1. sent \in [Cams -> Int] /\ pending \in [Cams -> Slots]
    BY <1>1 DEF Slots
  <2>2. queue \in Seq(Frames) /\ fed \in Seq(Frames) /\ threaded \in BOOLEAN
    BY <1>1
  <2>3. running \in BOOLEAN /\ locked \in BOOLEAN
    BY <1>1
  <2>4. slot \in Int /\ imu \in Int /\ limit \in Int /\ throws \in Nat /\ accepted \subseteq Frames
    BY <1>1
  <2> QED  BY <2>1, <2>2, <2>3, <2>4 DEF CamTyped
<1>4. FreshFrames
  BY <1>1 DEF FreshFrames
<1>5. Queued /\ Kept
  BY <1>1, <1>2 DEF Queued, Kept
<1>6. Held /\ Joined
  BY <1>1 DEF Held, Joined, InUpdate
<1> QED  BY <1>3, <1>4, <1>5, <1>6 DEF CamInv

\* callback_monocular and callback_stereo.
LEMMA CamImage ==
  ASSUME CamInv, NEW c \in Cams,
         \/ \E t \in 1..(FrameTime - 1) : Streams!DropImage(c, t) \/ Streams!ReceiveImage(c, t)
         \/ Streams!DecodeFails(c) \/ Streams!Enqueue(c)
  PROVE  CamInv'
<1>0. CamTyped /\ FreshFrames /\ Queued /\ Held /\ Joined /\ Kept
  BY DEF CamInv
<1>1. ASSUME NEW t \in 1..(FrameTime - 1), Streams!DropImage(c, t) PROVE CamInv'
  <2>1. t > sent[c] /\ pending[c] = Streams!None /\ sent' = [sent EXCEPT ![c] = t]
        /\ UNCHANGED <<threaded, last, pending, queue, slot, imu, cb, running, up, locked, limit, accepted, fed, throws, failed>>
    BY <1>1 DEF Streams!DropImage, Streams!imuSide, Streams!thread, Streams!history
  <2>2. CamTyped' /\ Queued' /\ Held' /\ Joined' /\ Kept'
    BY <1>0, <2>1 DEF CamTyped, Queued, Held, Joined, Kept
  <2>3. FreshFrames'
    <3>1. \A f \in accepted : f.t \in Int /\ f.cam \in Cams
      BY <1>0, FrameFacts DEF CamTyped
    <3>2. \A d \in Cams : sent[d] \in Int /\ sent'[d] = IF d = c THEN t ELSE sent[d]
      BY <1>0, <2>1 DEF CamTyped
    <3>3. \A f \in accepted' : f.t <= sent'[f.cam] /\ (pending'[f.cam] # Streams!None => f.t < sent'[f.cam])
      BY <1>0, <2>1, <3>1, <3>2 DEF FreshFrames
    <3>4. \A d \in Cams : pending'[d] # Streams!None => pending'[d].cam = d /\ pending'[d].t = sent'[d]
      BY <1>0, <2>1, <3>2 DEF FreshFrames
    <3> QED  BY <3>3, <3>4 DEF FreshFrames
  <2> QED  BY <2>2, <2>3 DEF CamInv
<1>2. ASSUME NEW t \in 1..(FrameTime - 1), Streams!ReceiveImage(c, t) PROVE CamInv'
  <2>1. t > sent[c] /\ pending[c] = Streams!None /\ sent' = [sent EXCEPT ![c] = t]
        /\ pending' = [pending EXCEPT ![c] = [t |-> t, cam |-> c]]
        /\ UNCHANGED <<threaded, queue, slot, imu, cb, running, up, locked, limit, accepted, fed, throws, failed>>
    BY <1>2 DEF Streams!ReceiveImage, Streams!imuSide, Streams!thread, Streams!history
  <2>2. [t |-> t, cam |-> c] \in Frames
    BY DEF Frames
  <2>3. CamTyped'
    BY <1>0, <2>1, <2>2 DEF CamTyped, Slots
  <2>4. Queued' /\ Held' /\ Joined' /\ Kept'
    BY <1>0, <2>1 DEF Queued, Held, Joined, Kept
  <2>5. FreshFrames'
    <3>1. \A f \in accepted : f.t \in Int /\ f.cam \in Cams
      BY <1>0, FrameFacts DEF CamTyped
    <3>2. \A d \in Cams : /\ sent[d] \in Int /\ sent'[d] = IF d = c THEN t ELSE sent[d]
                          /\ pending'[d] = IF d = c THEN [t |-> t, cam |-> c] ELSE pending[d]
      BY <1>0, <2>1 DEF CamTyped
    <3>3. \A f \in accepted' : f.t <= sent'[f.cam] /\ (pending'[f.cam] # Streams!None => f.t < sent'[f.cam])
      BY <1>0, <2>1, <3>1, <3>2 DEF FreshFrames
    <3>4. \A d \in Cams : pending'[d] # Streams!None => pending'[d].cam = d /\ pending'[d].t = sent'[d]
      <4>1. PICK g \in Frames : g = [t |-> t, cam |-> c]
        BY <2>2
      <4>2. g.cam = c /\ g.t = t
        BY <4>1
      <4> QED  BY <1>0, <3>2, <4>1, <4>2 DEF FreshFrames
    <3> QED  BY <3>3, <3>4 DEF FreshFrames
  <2> QED  BY <2>3, <2>4, <2>5 DEF CamInv
<1>3. CASE Streams!DecodeFails(c)
  <2>1. pending' = [pending EXCEPT ![c] = Streams!None]
        /\ UNCHANGED <<threaded, sent, queue, slot, imu, cb, running, up, locked, limit, accepted, fed, throws, failed>>
    BY <1>3 DEF Streams!DecodeFails, Streams!imuSide, Streams!thread, Streams!history
  <2>2. CamTyped'
    BY <1>0, <2>1 DEF CamTyped, Slots
  <2>3. Queued' /\ Held' /\ Joined' /\ Kept'
    BY <1>0, <2>1 DEF Queued, Held, Joined, Kept
  <2>4. FreshFrames'
    <3>1. \A f \in accepted : f.cam \in Cams
      BY <1>0, FrameFacts DEF CamTyped
    <3>2. \A d \in Cams : pending'[d] = IF d = c THEN Streams!None ELSE pending[d]
      BY <1>0, <2>1 DEF CamTyped
    <3> QED  BY <1>0, <2>1, <3>1, <3>2 DEF FreshFrames
  <2> QED  BY <2>2, <2>3, <2>4 DEF CamInv
<1>4. CASE Streams!Enqueue(c)
  <2> DEFINE f == pending[c]
  <2>1. f # Streams!None /\ ~locked /\ queue' \in Streams!Sorts(Append(queue, f)) /\ accepted' = accepted \cup {f}
        /\ pending' = [pending EXCEPT ![c] = Streams!None]
        /\ UNCHANGED <<threaded, sent, slot, imu, cb, running, up, locked, limit, fed, throws, failed>>
    BY <1>4 DEF Streams!Enqueue, Streams!imuSide, Streams!thread
  <2>2. f \in Frames /\ f.cam = c /\ f.t = sent[c] /\ sent[c] \in Int
    BY <1>0, <2>1 DEF CamTyped, FreshFrames, Slots
  \* The stream has had nothing as young accepted.
  <2>3. f \notin accepted
    BY <1>0, <2>1, <2>2 DEF FreshFrames
  <2> HIDE DEF f
  <2>4. f \notin Elements(queue) /\ f \notin Elements(fed) /\ queue \in Seq(Frames)
    BY <1>0, <2>3 DEF Kept, CamTyped
  <2>5. queue' \in Seq(Frames) /\ Elements(queue') = Elements(queue) \cup {f} /\ Queued'
    <3>1. /\ Append(queue, f) \in Seq(Frames) /\ Elements(Append(queue, f)) = Elements(queue) \cup {f}
          /\ \A j, k \in DOMAIN Append(queue, f) : Append(queue, f)[j] = Append(queue, f)[k] => j = k
      BY <1>0, <2>2, <2>4, AppendFacts DEF Queued
    <3> QED  BY <2>1, <3>1, SortFacts DEF Queued
  <2>6. up \notin InUpdate /\ up # "pop"
    BY <1>0, <2>1 DEF Held, InUpdate
  <2>7. CamTyped'
    BY <1>0, <2>1, <2>2, <2>5 DEF CamTyped, Slots
  <2>8. Held' /\ Joined'
    BY <1>0, <2>1, <2>6 DEF Held, Joined
  <2>9. Kept'
    <3>1. accepted' = Elements(queue') \cup Elements(fed')
      BY <1>0, <2>1, <2>5 DEF Kept
    <3>2. ASSUME throws' = 0 PROVE \A g \in Elements(queue') \cap Elements(fed') : up' = "pop" /\ g = Head(queue')
      BY <1>0, <2>1, <2>4, <2>5, <2>6, <3>2 DEF Kept
    <3>3. ASSUME throws' = 0 PROVE \A j, k \in DOMAIN fed' : fed'[j] = fed'[k] => j = k
      BY <1>0, <2>1, <3>3 DEF Kept
    <3> QED  BY <3>1, <3>2, <3>3 DEF Kept
  <2>10. FreshFrames'
    <3>1. \A g \in accepted : g.cam \in Cams
      BY <1>0, FrameFacts DEF CamTyped
    <3>2. \A d \in Cams : pending'[d] = IF d = c THEN Streams!None ELSE pending[d]
      BY <1>0, <2>1 DEF CamTyped
    <3>3. \A g \in accepted' : g.t <= sent'[g.cam] /\ (pending'[g.cam] # Streams!None => g.t < sent'[g.cam])
      BY <1>0, <2>1, <2>2, <3>1, <3>2 DEF FreshFrames
    <3>4. \A d \in Cams : pending'[d] # Streams!None => pending'[d].cam = d /\ pending'[d].t = sent'[d]
      BY <1>0, <2>1, <3>2 DEF FreshFrames
    <3> QED  BY <3>3, <3>4 DEF FreshFrames
  <2> QED  BY <2>5, <2>7, <2>8, <2>9, <2>10 DEF CamInv
<1> QED  BY <1>1, <1>2, <1>3, <1>4

\* callback_inertial.
LEMMA CamInertial ==
  ASSUME CamInv, (\E r \in 1..FrameTime : Streams!ReceiveImu(r)) \/ Streams!Callback
  PROVE  CamInv' /\ fed' = fed
<1>0. CamTyped /\ FreshFrames /\ Queued /\ Held /\ Joined /\ Kept
  BY DEF CamInv
<1>1. UNCHANGED <<threaded, sent, pending, queue, locked, limit, accepted, fed, throws>>
  BY DEF Streams!ReceiveImu, Streams!Callback, Streams!FeedImu, Streams!SkipUpdate, Streams!StartUpdate,
         Streams!EndCallback, Streams!cams, Streams!thread, Streams!history
<1>2. FreshFrames' /\ Queued'
  BY <1>0, <1>1 DEF FreshFrames, Queued
<1>3. ASSUME running' \in BOOLEAN, slot' \in Int, imu' \in Int PROVE CamTyped'
  BY <1>0, <1>1, <1>3 DEF CamTyped
<1>4. ASSUME up' = up, running' = running PROVE Held' /\ Kept'
  BY <1>0, <1>1, <1>4 DEF Held, Kept
<1>5. ASSUME NEW r \in 1..FrameTime, Streams!ReceiveImu(r) PROVE CamInv'
  <2>1. cb = "idle" /\ slot' = r /\ cb' = "feed" /\ UNCHANGED <<imu, running, up>>
    BY <1>5 DEF Streams!ReceiveImu, Streams!thread
  <2>2. Joined'
    BY <1>0, <1>1, <2>1 DEF Joined
  <2>3. CamTyped'
    BY <1>0, <1>3, <2>1 DEF CamTyped
  <2>4. Held' /\ Kept'
    BY <1>4, <2>1
  <2> QED  BY <1>1, <1>2, <2>2, <2>3, <2>4 DEF CamInv
<1>6. CASE Streams!FeedImu
  <2>1. cb = "feed" /\ cb' = "test" /\ imu' = slot /\ UNCHANGED <<slot, running, up>>
    BY <1>6 DEF Streams!FeedImu, Streams!thread
  <2>2. Joined'
    BY <1>0, <1>1, <2>1 DEF Joined
  <2>3. CamTyped'
    BY <1>0, <1>3, <2>1 DEF CamTyped
  <2>4. Held' /\ Kept'
    BY <1>4, <2>1
  <2> QED  BY <1>1, <1>2, <2>2, <2>3, <2>4 DEF CamInv
<1>7. CASE Streams!SkipUpdate \/ Streams!EndCallback
  <2>1. cb' = "idle" /\ UNCHANGED <<slot, imu, running, up>> /\ (threaded \/ up = "none" \/ (cb = "test" /\ running))
    BY <1>7 DEF Streams!SkipUpdate, Streams!EndCallback, Streams!thread
  <2>2. Joined'
    BY <1>0, <1>1, <2>1 DEF Joined
  <2>3. CamTyped'
    BY <1>0, <1>3, <2>1 DEF CamTyped
  <2>4. Held' /\ Kept'
    BY <1>4, <2>1
  <2> QED  BY <1>1, <1>2, <2>2, <2>3, <2>4 DEF CamInv
<1>8. CASE Streams!StartUpdate
  <2>1. cb = "test" /\ ~running /\ running' = TRUE /\ up' = "lock" /\ cb' = "join" /\ UNCHANGED <<slot, imu>>
    BY <1>8 DEF Streams!StartUpdate
  <2>2. up = "none" /\ ~locked
    BY <1>0, <2>1 DEF Held, InUpdate
  <2>5. Held'
    BY <1>1, <2>1, <2>2 DEF Held, InUpdate
  <2>3. Joined' /\ Held' /\ Kept'
    BY <1>0, <1>1, <2>1, <2>2, <2>5 DEF Joined, Kept
  <2>4. CamTyped'
    BY <1>0, <1>3, <2>1 DEF CamTyped
  <2> QED  BY <1>1, <1>2, <2>3, <2>4 DEF CamInv
<1> QED  BY <1>1, <1>5, <1>6, <1>7, <1>8 DEF Streams!Callback

\* The update thread.
LEMMA CamUpdate == ASSUME CamInv, Streams!UpdateThread PROVE CamInv'
<1>0. CamTyped /\ FreshFrames /\ Queued /\ Held /\ Joined /\ Kept
  BY DEF CamInv
<1>1. UNCHANGED <<threaded, sent, pending, slot, imu, cb, accepted>>
  BY DEF Streams!UpdateThread, Streams!LockQueue, Streams!CountStreams, Streams!FeedFrame, Streams!PopFrame,
         Streams!FrameThrows, Streams!LoopEnds, Streams!Unlock, Streams!EndUpdate,
         Streams!cams, Streams!imuSide, Streams!history
<1>2. FreshFrames'
  BY <1>0, <1>1 DEF FreshFrames
\* The steps that touch neither the queue nor what has been fed.
<1>3. ASSUME UNCHANGED <<queue, fed>>, throws' \in Nat, limit' \in Int, throws' = 0 => throws = 0 /\ up # "pop",
             running' \in BOOLEAN, locked' \in BOOLEAN, running' <=> up' # "none", locked' <=> up' \in InUpdate,
             up' # "pop",
             ~threaded /\ up' # "none" => up # "none", ~threaded /\ up' = "loop" => limit' = slot /\ cb = "join"
      PROVE  CamInv'
  <2>1. CamTyped'
    BY <1>0, <1>1, <1>3 DEF CamTyped
  <2>2. Queued' /\ Held'
    BY <1>0, <1>3 DEF Queued, Held
  <2>3. Joined'
    BY <1>0, <1>1, <1>3 DEF Joined
  <2>4. Kept'
    BY <1>0, <1>1, <1>3 DEF Kept
  <2> QED  BY <1>2, <2>1, <2>2, <2>3, <2>4 DEF CamInv
<1>4. CASE Streams!LockQueue
  <2>1. up = "lock" /\ up' = "count" /\ locked' = TRUE /\ UNCHANGED <<queue, fed, throws, limit, running>>
    BY <1>4 DEF Streams!LockQueue, Streams!history
  <2> QED  BY <1>0, <1>3, <2>1 DEF CamTyped, Held, InUpdate
<1>5. CASE Streams!CountStreams
  <2>1. up = "count" /\ up' \in {"loop", "end"} /\ limit' = slot /\ UNCHANGED <<queue, fed, throws, locked, running>>
    BY <1>5 DEF Streams!CountStreams, Streams!history
  <2> QED  BY <1>0, <1>3, <2>1 DEF CamTyped, Held, InUpdate, Joined
<1>6. CASE Streams!FeedFrame
  <2> DEFINE f == Head(queue)
  <2>1. up = "loop" /\ queue # <<>> /\ fed' = Append(fed, f) /\ up' = "pop"
        /\ UNCHANGED <<queue, throws, limit, locked, running>>
    BY <1>6 DEF Streams!FeedFrame, Streams!Ready
  <2>2. f \in Frames /\ f \in Elements(queue) /\ queue \in Seq(Frames) /\ fed \in Seq(Frames)
    BY <1>0, <2>1, TailFacts DEF CamTyped, Elements
  <2>3. fed' \in Seq(Frames) /\ Elements(fed') = Elements(fed) \cup {f}
    BY <2>1, <2>2, AppendFacts
  <2>4. CamTyped'
    BY <1>0, <1>1, <2>1, <2>3 DEF CamTyped
  <2>5. Queued' /\ Joined'
    BY <1>0, <1>1, <2>1 DEF Queued, Joined
  <2>6. Held'
    BY <1>0, <2>1, <2>3 DEF Held, InUpdate
  <2>7. Kept'
    <3>1. accepted' = Elements(queue') \cup Elements(fed')
      BY <1>0, <1>1, <2>1, <2>2, <2>3 DEF Kept
    <3>2. ASSUME throws' = 0 PROVE \A g \in Elements(queue') \cap Elements(fed') : up' = "pop" /\ g = Head(queue')
      BY <1>0, <2>1, <2>3, <3>2 DEF Kept
    <3>3. ASSUME throws' = 0 PROVE \A j, k \in DOMAIN fed' : fed'[j] = fed'[k] => j = k
      <4>1. f \notin Elements(fed) /\ \A j, k \in DOMAIN fed : fed[j] = fed[k] => j = k
        BY <1>0, <2>1, <2>2, <3>3 DEF Kept
      <4> HIDE DEF f
      <4> QED  BY <2>1, <2>2, <4>1, AppendFacts
    <3> QED  BY <3>1, <3>2, <3>3 DEF Kept
  <2> QED  BY <1>2, <2>4, <2>5, <2>6, <2>7 DEF CamInv
<1>7. CASE Streams!PopFrame
  <2>1. up = "pop" /\ up' = "loop" /\ queue' = Tail(queue) /\ UNCHANGED <<fed, throws, limit, locked, running>>
    BY <1>7 DEF Streams!PopFrame, Streams!history
  <2>2. queue # <<>> /\ Head(queue) \in Elements(fed) /\ queue \in Seq(Frames)
    BY <1>0, <2>1 DEF Held, CamTyped
  <2>3. /\ queue' \in Seq(Frames) /\ Elements(queue) = Elements(queue') \cup {Head(queue)}
        /\ 1 \in DOMAIN queue /\ Head(queue) = queue[1] /\ DOMAIN queue' = 1..Len(queue')
        /\ \A k \in DOMAIN queue' : k + 1 \in DOMAIN queue /\ queue'[k] = queue[k + 1] /\ k \in Int /\ k >= 1
    <3>1. queue' \in Seq(Frames)
      BY <2>1, <2>2, TailFacts
    <3>2. DOMAIN queue' = 1..Len(queue') /\ \A k \in DOMAIN queue' : k \in Int /\ k >= 1
      BY <3>1
    <3> QED  BY <2>1, <2>2, <3>1, <3>2, TailFacts
  <2>4. CamTyped'
    BY <1>0, <1>1, <2>1, <2>3 DEF CamTyped
  <2>5. Queued'
    <3>1. \A j, k \in DOMAIN queue' : queue'[j] = queue'[k] => j = k
      BY <1>0, <2>3 DEF Queued
    <3>2. \A j, k \in DOMAIN queue' : j < k => ~Streams!Earlier(queue'[k], queue'[j])
      <4>1. \A j, k \in DOMAIN queue' : j < k => j + 1 < k + 1
        BY <2>3
      <4> QED  BY <1>0, <2>3, <4>1 DEF Queued
    <3>3. \A j, k \in DOMAIN queue' : j < k => ~(Streams!Earlier(queue[k], queue[j])')
      BY <3>2 DEF Streams!Earlier
    <3> QED  BY <3>1, <3>3 DEF Queued
  <2>6. Held' /\ Joined'
    BY <1>0, <1>1, <2>1 DEF Held, Joined, InUpdate
  <2>7. Kept'
    <3>1. accepted' = Elements(queue') \cup Elements(fed')
      BY <1>0, <1>1, <2>1, <2>2, <2>3 DEF Kept
    \* The frame popped was in the queue once.
    <3>2. Head(queue) \notin Elements(queue')
      BY <1>0, <2>3 DEF Queued, Elements
    <3>3. ASSUME throws' = 0 PROVE \A g \in Elements(queue') \cap Elements(fed') : up' = "pop" /\ g = Head(queue')
      BY <1>0, <2>1, <2>3, <3>2, <3>3 DEF Kept
    <3>4. ASSUME throws' = 0 PROVE \A j, k \in DOMAIN fed' : fed'[j] = fed'[k] => j = k
      BY <1>0, <2>1, <3>4 DEF Kept
    <3> QED  BY <3>1, <3>3, <3>4 DEF Kept
  <2> QED  BY <1>2, <2>4, <2>5, <2>6, <2>7 DEF CamInv
<1>8. CASE Streams!FrameThrows
  <2>1. up = "pop" /\ up' = "end" /\ throws' = throws + 1 /\ UNCHANGED <<queue, fed, limit, locked, running>>
    BY <1>8 DEF Streams!FrameThrows
  <2>2. throws' \in Nat /\ throws' # 0
    BY <1>0, <2>1 DEF CamTyped
  <2> QED  BY <1>0, <1>3, <2>1, <2>2 DEF CamTyped, Held, InUpdate
<1>9. CASE Streams!LoopEnds
  <2>1. up = "loop" /\ up' = "end" /\ UNCHANGED <<queue, fed, throws, limit, locked, running>>
    BY <1>9 DEF Streams!LoopEnds, Streams!history
  <2> QED  BY <1>0, <1>3, <2>1 DEF CamTyped, Held, InUpdate
<1>10. CASE Streams!Unlock
  <2>1. up = "end" /\ up' = "flag" /\ locked' = FALSE /\ UNCHANGED <<queue, fed, throws, limit, running>>
    BY <1>10 DEF Streams!Unlock, Streams!history
  <2> QED  BY <1>0, <1>3, <2>1 DEF CamTyped, Held, InUpdate
<1>11. CASE Streams!EndUpdate
  <2>1. up = "flag" /\ up' = "none" /\ running' = FALSE /\ UNCHANGED <<queue, fed, throws, limit, locked>>
    BY <1>11 DEF Streams!EndUpdate, Streams!history
  <2> QED  BY <1>0, <1>3, <2>1 DEF CamTyped, Held, InUpdate
<1> QED  BY <1>4, <1>5, <1>6, <1>7, <1>8, <1>9, <1>10, <1>11 DEF Streams!UpdateThread

LEMMA CamStep == ASSUME CamInv, [Streams!Next]_(Streams!vars) PROVE CamInv'
<1>1. CASE UNCHANGED Streams!vars
  <2>1. UNCHANGED <<threaded, sent, pending, queue, slot, imu, cb, running, up, locked, limit, accepted, fed, throws>>
    BY <1>1 DEF Streams!vars, Streams!cams, Streams!imuSide, Streams!thread, Streams!history
  <2> QED  BY <2>1 DEF CamInv, CamTyped, FreshFrames, Queued, Held, Joined, Kept
<1>2. CASE Streams!Next
  BY <1>2, CamImage, CamInertial, CamUpdate DEF Streams!Next, Streams!Times
<1> QED  BY <1>1, <1>2

\* For any number of streams, any rate and any bound, detached or joined: every
\* frame that passed the rate filter and the decoder is in camera_queue or has been
\* handed to the estimator, and as long as the estimator has not thrown the frame
\* popped is the frame that was fed, whatever callbacks queue and sort meanwhile.
THEOREM NoFrameLostAlways == Streams!Spec => []NoFrameLost
<1>1. CamInv => NoFrameLost
  BY KeptIsNoFrameLost DEF CamInv
<1> QED  BY <1>1, CamInit, CamStep, PTL DEF Streams!Spec

\* In the same generality: the frame callback_inertial's thread feeds is never
\* younger than one that waits behind it, and with the serial subscriber a reading
\* past it has arrived, however many frames one reading releases and whatever an
\* update that threw left in the queue.
THEOREM FedInOrderAlways == Streams!Spec => FedInOrder
<1> DEFINE Ordered == fed' # fed => \A f \in Streams!QueueSet : fed'[Len(fed')].t <= f.t
           Covered == ~threaded /\ fed' # fed => fed'[Len(fed')].t < imu
<1>1. ASSUME CamInv, Streams!Next PROVE Ordered /\ Covered
  <2>1. SUFFICES ASSUME fed' # fed PROVE (\A f \in Streams!QueueSet : fed'[Len(fed')].t <= f.t)
                                          /\ (~threaded => fed'[Len(fed')].t < imu)
    OBVIOUS
  <2>2. Streams!FeedFrame
    <3>1. ASSUME Streams!UpdateThread, ~Streams!FeedFrame PROVE fed' = fed
      BY <3>1 DEF Streams!UpdateThread, Streams!LockQueue, Streams!CountStreams, Streams!PopFrame, Streams!FrameThrows,
                  Streams!LoopEnds, Streams!Unlock, Streams!EndUpdate, Streams!history
    <3>2. ASSUME NEW c \in Cams, \/ \E t \in 1..(FrameTime - 1) : Streams!DropImage(c, t) \/ Streams!ReceiveImage(c, t)
                                 \/ Streams!DecodeFails(c) \/ Streams!Enqueue(c)
          PROVE  fed' = fed
      BY <3>2 DEF Streams!DropImage, Streams!ReceiveImage, Streams!DecodeFails, Streams!Enqueue, Streams!history
    <3> QED  BY <1>1, <2>1, <3>1, <3>2, CamInertial DEF Streams!Next, Streams!Times
  <2>3. up = "loop" /\ queue # <<>> /\ Head(queue).t < limit /\ fed' = Append(fed, Head(queue))
    BY <2>2 DEF Streams!FeedFrame, Streams!Ready
  <2>4. queue \in Seq(Frames) /\ fed \in Seq(Frames) /\ Queued /\ Joined
    BY <1>1 DEF CamInv, CamTyped
  <2>5. Head(queue) \in Frames /\ Head(queue) = queue[1] /\ 1 \in DOMAIN queue /\ fed'[Len(fed')] = Head(queue)
    <3>1. Head(queue) \in Frames /\ Head(queue) = queue[1] /\ 1 \in DOMAIN queue
      BY <2>3, <2>4, TailFacts
    <3> QED  BY <2>3, <2>4, <3>1, AppendFacts
  <2>6. ASSUME NEW k \in DOMAIN queue PROVE queue[1].t <= queue[k].t
    <3>1. queue[k] \in Frames /\ k \in Int /\ k >= 1
      BY <2>4
    <3>2. queue[k].t \in Int /\ queue[1].t \in Int
      BY <2>5, <3>1, FrameFacts
    <3>3. k = 1 \/ ~(queue[k].t < queue[1].t)
      BY <2>4, <2>5, <3>1 DEF Queued, Streams!Earlier
    <3> QED  BY <3>2, <3>3
  <2>7. \A f \in Streams!QueueSet : fed'[Len(fed')].t <= f.t
    BY <2>5, <2>6 DEF Streams!QueueSet
  <2>8. ~threaded => fed'[Len(fed')].t < imu
    BY <2>3, <2>4, <2>5 DEF Joined
  <2> QED  BY <2>7, <2>8
<1>2. ASSUME CamInv, [Streams!Next]_(Streams!vars) PROVE [Ordered]_(Streams!vars) /\ [Covered]_(Streams!vars)
  BY <1>1, <1>2
<1> HIDE DEF Ordered, Covered
<1>3. Streams!Spec => [][Ordered]_(Streams!vars) /\ [][Covered]_(Streams!vars)
  BY <1>2, CamInit, CamStep, PTL DEF Streams!Spec
<1> QED  BY <1>3 DEF FedInOrder, Streams!OldestFirst, Streams!SerialFrameHasImu, Ordered, Covered

-----------------------------------------------------------------------------
\* The selection of readings

End(s) == s[Len(s)]

SelTyped ==
    /\ imu_data \in Seq(Int) /\ prop_data \in Seq(Int) /\ time0 \in Int /\ time1 \in Int /\ i \in Int
    /\ time0 < time1 /\ degenerate \in BOOLEAN
    /\ \A j, k \in DOMAIN imu_data : j < k => imu_data[j] <= imu_data[k]
    /\ imu_data = <<>> => at = "done" /\ prop_data = <<>>

\* Ends of the interval and readings inside it, in order; the first is the start
\* of the interval exactly when the history goes back to it.
Chosen(s) ==
    /\ \A k \in DOMAIN s : time0 <= s[k] /\ s[k] <= time1 /\ (s[k] = time0 \/ s[k] = time1 \/ s[k] \in Elements(imu_data))
    /\ \A j, k \in DOMAIN s : j < k => s[j] <= s[k]
    /\ s # <<>> => (imu_data[1] <= time0 <=> s[1] = time0)

\* The readings inside the interval among the first n have been taken.
Taken(s, n) == \A k \in 1..n : time0 < imu_data[k] /\ imu_data[k] < time1 => imu_data[k] \in Elements(s)

\* The history begins after the interval or does not reach into it.
Uncovered == imu_data = <<>> \/ End(imu_data) <= time0 \/ imu_data[1] > time0

\* In the loop: nothing is selected until a reading past time0 is seen, and then
\* the last one selected is the one before the reading at hand, or time0.
Scanned ==
    /\ i \in 1..Len(imu_data) /\ (i = 1 => prop_data = <<>>)
    /\ i > 1 /\ prop_data = <<>> => imu_data[i] <= time0
    /\ prop_data # <<>> =>
           /\ End(prop_data) = IF imu_data[i - 1] < time0 THEN time0 ELSE imu_data[i - 1]
           /\ imu_data[i] <= time1 \/ imu_data[i - 1] < time0
           /\ time0 <= imu_data[i]
    /\ Taken(prop_data, i - 1)

\* After the loop: what is missing is the end of the interval at most.
Gathered ==
    /\ prop_data = <<>> => Uncovered
    /\ prop_data # <<>> /\ End(prop_data) # time1 /\ imu_data[Len(imu_data) - 1] = End(imu_data) => End(imu_data) < time1
    /\ End(imu_data) >= time1 => Taken(prop_data, Len(imu_data))

\* From there on: the interval is spanned.
Spanned ==
    /\ prop_data # <<>> /\ End(prop_data) = time1
    /\ End(imu_data) >= time1 => Taken(prop_data, Len(imu_data))
    /\ degenerate => End(imu_data) < time1

SelInv ==
    /\ SelTyped /\ Chosen(prop_data) /\ at \in {"loop", "stretch", "dedup", "done"}
    /\ at = "loop" => Scanned
    /\ at = "stretch" => Gathered
    /\ at = "dedup" => /\ Spanned /\ i \in 1..Len(prop_data)
                       /\ \A j, k \in 1..i : j < k => prop_data[j] < prop_data[k]
    /\ at = "done" => /\ \A j, k \in DOMAIN prop_data : j < k => prop_data[j] < prop_data[k]
                      /\ IF prop_data = <<>> THEN Uncovered /\ ~degenerate ELSE Spanned

LEMMA IntAppend ==
  ASSUME NEW s \in Seq(Int), NEW x \in Int
  PROVE  /\ Append(s, x) \in Seq(Int) /\ Append(s, x) # <<>> /\ Len(Append(s, x)) = Len(s) + 1 /\ Len(s) \in Nat
         /\ DOMAIN s = 1..Len(s) /\ DOMAIN Append(s, x) = 1..(Len(s) + 1)
         /\ Append(s, x)[Len(s) + 1] = x /\ End(Append(s, x)) = x
         /\ \A k \in DOMAIN s : Append(s, x)[k] = s[k]
         /\ Append(s, x)[1] = IF s = <<>> THEN x ELSE s[1]
         /\ Elements(Append(s, x)) = Elements(s) \cup {x}
<1> DEFINE a == Append(s, x)
<1>1. a \in Seq(Int) /\ Len(a) = Len(s) + 1 /\ DOMAIN a = 1..(Len(s) + 1) /\ DOMAIN s = 1..Len(s) /\ Len(s) \in Nat
      /\ a[Len(s) + 1] = x /\ \A k \in DOMAIN s : a[k] = s[k]
  OBVIOUS
<1>2. s = <<>> <=> Len(s) = 0
  OBVIOUS
<1> HIDE DEF a
<1>3. \A k \in DOMAIN a : k = Len(s) + 1 \/ (k \in DOMAIN s /\ a[k] = s[k])
  BY <1>1
<1>4. Elements(a) = Elements(s) \cup {x}
  <2>1. ASSUME NEW g \in Elements(a) PROVE g \in Elements(s) \cup {x}
    BY <1>1, <1>3 DEF Elements
  <2>2. ASSUME NEW g \in Elements(s) \cup {x} PROVE g \in Elements(a)
    <3>1. Len(s) + 1 \in DOMAIN a /\ \A k \in DOMAIN s : k \in DOMAIN a
      BY <1>1
    <3> QED  BY <1>1, <3>1 DEF Elements
  <2> QED  BY <2>1, <2>2
<1>5. a # <<>> /\ a[Len(a)] = x /\ a[1] = IF s = <<>> THEN x ELSE s[1]
  BY <1>1, <1>2
<1>6. End(a) = x
  BY <1>5 DEF End
<1> QED  BY <1>1, <1>4, <1>5, <1>6 DEF a

\* One more reading, not before the last.
LEMMA ChosenAppend ==
  ASSUME SelTyped, imu_data # <<>>, NEW s \in Seq(Int), Chosen(s), NEW x \in Int, time0 <= x, x <= time1,
         x = time0 \/ x = time1 \/ x \in Elements(imu_data),
         s = <<>> => (imu_data[1] <= time0 <=> x = time0), s # <<>> => End(s) <= x
  PROVE  Chosen(Append(s, x))
<1> DEFINE a == Append(s, x)
<1>1. /\ a \in Seq(Int) /\ a # <<>> /\ Len(s) \in Nat /\ DOMAIN s = 1..Len(s) /\ DOMAIN a = 1..(Len(s) + 1)
      /\ a[Len(s) + 1] = x /\ (\A k \in DOMAIN s : a[k] = s[k]) /\ a[1] = IF s = <<>> THEN x ELSE s[1]
  BY IntAppend
<1> HIDE DEF a
<1>2. \A k \in DOMAIN a : k = Len(s) + 1 \/ (k \in DOMAIN s /\ a[k] = s[k])
  BY <1>1
<1>3. \A k \in DOMAIN s : s[k] <= x
  <2>1. SUFFICES ASSUME NEW k \in DOMAIN s PROVE s[k] <= x
    OBVIOUS
  <2>2. Len(s) \in DOMAIN s /\ s # <<>> /\ s[k] \in Int /\ s[Len(s)] \in Int /\ k \in Int /\ k <= Len(s)
    BY <1>1
  <2>3. s[k] <= s[Len(s)]
    BY <2>1, <2>2 DEF Chosen
  <2> QED  BY <2>2, <2>3 DEF End
<1>4. \A k \in DOMAIN a : time0 <= a[k] /\ a[k] <= time1 /\ (a[k] = time0 \/ a[k] = time1 \/ a[k] \in Elements(imu_data))
  BY <1>1, <1>2 DEF Chosen
<1>5. \A j, k \in DOMAIN a : j < k => a[j] <= a[k]
  <2>1. SUFFICES ASSUME NEW j \in DOMAIN a, NEW k \in DOMAIN a, j < k PROVE a[j] <= a[k]
    OBVIOUS
  <2>2. j \in DOMAIN s /\ a[j] = s[j]
    BY <1>1, <2>1
  <2>3. CASE k = Len(s) + 1
    BY <1>1, <1>3, <2>2, <2>3
  <2>4. CASE k \in DOMAIN s /\ a[k] = s[k]
    BY <2>1, <2>2, <2>4 DEF Chosen
  <2> QED  BY <1>2, <2>3, <2>4
<1>6. imu_data[1] <= time0 <=> a[1] = time0
  BY <1>1 DEF Chosen
<1> QED  BY <1>4, <1>5, <1>6 DEF Chosen, a

\* Nothing selected is lost by selecting more.
LEMMA TakenAppend == ASSUME NEW s \in Seq(Int), NEW x \in Int, NEW n \in Nat, Taken(s, n),
                            time0 < imu_data[n + 1] /\ imu_data[n + 1] < time1 => imu_data[n + 1] = x
                     PROVE  Taken(Append(s, x), n + 1)
<1>1. Elements(Append(s, x)) = Elements(s) \cup {x}
  BY IntAppend
<1>2. \A k \in 1..(n + 1) : k \in 1..n \/ k = n + 1
  OBVIOUS
<1> QED  BY <1>1, <1>2 DEF Taken

LEMMA SelInit == ASSUME Selection!Init PROVE SelInv
<1>1. PICK n \in 0..MaxReadings : imu_data \in [1..n -> Ticks]
  BY DEF Selection!Init
<1>2. /\ time0 \in Ticks /\ time1 \in Ticks /\ time0 < time1 /\ i = 1 /\ prop_data = <<>> /\ degenerate = FALSE
      /\ at = (IF imu_data = <<>> THEN "done" ELSE "loop")
      /\ \A j, k \in DOMAIN imu_data : j < k => imu_data[j] <= imu_data[k]
  BY DEF Selection!Init, Selection!Nondecreasing
<1>3. imu_data \in Seq(Int)
  <2>2. n \in Nat
    BY TickAssumption
  <2>3. \A k \in 1..n : imu_data[k] \in Ticks
    BY <1>1
  <2>0. n \in Nat /\ \A k \in 1..n : imu_data[k] \in Int
    BY <2>2, <2>3, TickAssumption
  <2>1. imu_data \in [1..n -> Int]
    BY <1>1, <2>0
  <2> QED  BY <2>0, <2>1
<1>4. SelTyped
  <2>1. degenerate \in BOOLEAN
    BY <1>2, Zenon
  <2>2. i \in Int /\ prop_data \in Seq(Int) /\ (imu_data = <<>> => at = "done" /\ prop_data = <<>>)
    BY <1>2
  <2>3. time0 \in Int /\ time1 \in Int
    BY <1>2, TickAssumption
  <2> QED  BY <1>2, <1>3, <2>1, <2>2, <2>3 DEF SelTyped
<1>5. Chosen(prop_data)
  BY <1>2 DEF Chosen
<1>6. CASE imu_data = <<>>
  BY <1>2, <1>4, <1>5, <1>6 DEF SelInv, Uncovered
<1>7. CASE imu_data # <<>>
  <2>1. Len(imu_data) \in Nat \ {0}
    BY <1>3, <1>7
  <2>2. Scanned
    BY <1>2, <2>1 DEF Scanned, Taken
  <2> QED  BY <1>2, <1>4, <1>5, <1>7, <2>2 DEF SelInv
<1> QED  BY <1>6, <1>7

\* The history while the loop runs.
LEMMA LoopFacts ==
  ASSUME SelInv, at = "loop"
  PROVE  /\ SelTyped /\ Chosen(prop_data) /\ Scanned /\ imu_data # <<>> /\ prop_data \in Seq(Int)
         /\ Len(imu_data) \in Nat \ {0} /\ DOMAIN imu_data = 1..Len(imu_data) /\ i \in 1..Len(imu_data)
         /\ time0 \in Int /\ time1 \in Int /\ time0 < time1
         /\ (\A k \in 1..Len(imu_data) : imu_data[k] \in Int /\ imu_data[k] \in Elements(imu_data))
         /\ (\A j, k \in 1..Len(imu_data) : j <= k => imu_data[j] <= imu_data[k])
         /\ (prop_data = <<>> \/ (End(prop_data) \in Int /\ End(prop_data) <= imu_data[i] /\ time0 <= imu_data[i]
                                  /\ time0 <= End(prop_data) /\ End(prop_data) <= time1 /\ i > 1))
<1>1. SelTyped /\ Chosen(prop_data) /\ Scanned /\ imu_data # <<>>
  BY DEF SelInv, SelTyped
<1>2. imu_data \in Seq(Int) /\ prop_data \in Seq(Int) /\ time0 \in Int /\ time1 \in Int /\ time0 < time1
  BY <1>1 DEF SelTyped
<1>3. Len(imu_data) \in Nat \ {0} /\ DOMAIN imu_data = 1..Len(imu_data) /\ i \in 1..Len(imu_data)
  BY <1>1, <1>2 DEF Scanned
<1>4. \A k \in 1..Len(imu_data) : imu_data[k] \in Int /\ imu_data[k] \in Elements(imu_data)
  BY <1>2, <1>3 DEF Elements
<1>5. \A j, k \in 1..Len(imu_data) : j <= k => imu_data[j] <= imu_data[k]
  <2>1. SUFFICES ASSUME NEW j \in 1..Len(imu_data), NEW k \in 1..Len(imu_data), j <= k PROVE imu_data[j] <= imu_data[k]
    OBVIOUS
  <2>2. j < k => imu_data[j] <= imu_data[k]
    BY <1>1, <1>3 DEF SelTyped
  <2> QED  BY <1>4, <2>1, <2>2
<1>6. ASSUME prop_data # <<>>
      PROVE  End(prop_data) \in Int /\ End(prop_data) <= imu_data[i] /\ time0 <= imu_data[i]
             /\ time0 <= End(prop_data) /\ End(prop_data) <= time1 /\ i > 1
  <2>1. i > 1 /\ i - 1 \in 1..Len(imu_data) /\ i - 1 <= i
    BY <1>1, <1>3, <1>6 DEF Scanned
  <2>2. imu_data[i - 1] <= imu_data[i] /\ imu_data[i - 1] \in Int /\ imu_data[i] \in Int
    BY <1>3, <1>4, <1>5, <2>1
  <2>3. time0 <= imu_data[i] /\ End(prop_data) = IF imu_data[i - 1] < time0 THEN time0 ELSE imu_data[i - 1]
    BY <1>1, <1>6 DEF Scanned
  <2>4. Len(prop_data) \in DOMAIN prop_data
    BY <1>2, <1>6
  <2>5. time0 <= End(prop_data) /\ End(prop_data) <= time1
    BY <1>1, <2>4 DEF Chosen, End
  <2> QED  BY <1>2, <2>1, <2>2, <2>3, <2>5
<1> QED  BY <1>1, <1>2, <1>3, <1>4, <1>5, <1>6

\* An iteration that goes on, with one more reading or none.
LEMMA LoopGoesOn ==
  ASSUME SelInv, at = "loop", i < Len(imu_data), UNCHANGED <<imu_data, time0, time1, degenerate, at>>, i' = i + 1,
         prop_data' \in Seq(Int), Chosen(prop_data'), Taken(prop_data', i),
         prop_data' = <<>> => imu_data[i + 1] <= time0,
         prop_data' # <<>> => /\ End(prop_data') = IF imu_data[i] < time0 THEN time0 ELSE imu_data[i]
                              /\ imu_data[i + 1] <= time1 \/ imu_data[i] < time0
                              /\ time0 <= imu_data[i + 1]
  PROVE  SelInv'
<1>1. SelTyped /\ Len(imu_data) \in Nat \ {0} /\ i \in 1..Len(imu_data)
  BY LoopFacts
<1>2. i + 1 \in 1..Len(imu_data) /\ (i + 1) - 1 = i /\ i + 1 # 1 /\ i + 1 \in Int
  BY <1>1
<1>3. SelTyped'
  BY <1>1, <1>2 DEF SelTyped
<1>4. Chosen(prop_data)'
  BY DEF Chosen
<1>5. Taken(prop_data, i - 1)'
  BY <1>2 DEF Taken
<1>6. Scanned'
  <2>1. (End(prop_data))' = End(prop_data')
    BY DEF End
  <2> QED  BY <1>2, <1>5, <2>1 DEF Scanned
<1> QED  BY <1>3, <1>4, <1>6 DEF SelInv

\* The end of the loop.
LEMMA LoopStops ==
  ASSUME SelInv, at = "loop", UNCHANGED <<imu_data, time0, time1, degenerate, i>>, at' = "stretch",
         prop_data' \in Seq(Int), Chosen(prop_data'),
         prop_data' = <<>> => Uncovered,
         prop_data' # <<>> /\ End(prop_data') # time1 /\ imu_data[Len(imu_data) - 1] = End(imu_data) => End(imu_data) < time1,
         End(imu_data) >= time1 => Taken(prop_data', Len(imu_data))
  PROVE  SelInv'
<1>1. SelTyped' /\ Chosen(prop_data)'
  BY LoopFacts DEF SelTyped, Chosen
<1>2. Gathered'
  BY DEF Gathered, Uncovered, End, Taken
<1> QED  BY <1>1, <1>2 DEF SelInv

\* The loop over the readings.
LEMMA SelLoop ==
  ASSUME SelInv, \/ Selection!CutStart \/ Selection!TakeWhole \/ Selection!CutEnd
                 \/ Selection!Before \/ Selection!LoopEnds
  PROVE  SelInv'
<1> DEFINE n == Len(imu_data)
<1>0. at = "loop"
  BY DEF Selection!CutStart, Selection!TakeWhole, Selection!CutEnd, Selection!Before, Selection!LoopEnds, Selection!InLoop
<1>1. /\ SelTyped /\ Chosen(prop_data) /\ Scanned /\ imu_data # <<>> /\ prop_data \in Seq(Int)
      /\ n \in Nat \ {0} /\ i \in 1..n /\ time0 \in Int /\ time1 \in Int /\ time0 < time1
      /\ (\A k \in 1..n : imu_data[k] \in Int /\ imu_data[k] \in Elements(imu_data))
      /\ (\A j, k \in 1..n : j <= k => imu_data[j] <= imu_data[k])
      /\ (prop_data = <<>> \/ (End(prop_data) \in Int /\ End(prop_data) <= imu_data[i] /\ time0 <= imu_data[i]
                               /\ time0 <= End(prop_data) /\ End(prop_data) <= time1 /\ i > 1))
  BY <1>0, LoopFacts
<1>2. Taken(prop_data, i - 1) /\ (i > 1 /\ prop_data = <<>> => imu_data[i] <= time0) /\ i - 1 \in Nat /\ (i - 1) + 1 = i
      /\ 1 \in 1..n /\ n \in 1..n /\ 1 <= i /\ i <= n
  BY <1>1 DEF Scanned
<1>3. imu_data[1] <= imu_data[i] /\ imu_data[1] \in Int /\ imu_data[i] \in Int /\ imu_data[n] \in Int /\ imu_data[i] <= imu_data[n]
  BY <1>1, <1>2
<1>4. ASSUME i < n PROVE i + 1 \in 1..n /\ imu_data[i + 1] \in Int /\ imu_data[i] <= imu_data[i + 1]
  <2>1. i + 1 \in 1..n /\ i <= i + 1
    BY <1>1, <1>2, <1>4
  <2> QED  BY <1>1, <2>1
<1> HIDE DEF n
<1>5. CASE Selection!CutStart
  <2>1. i < n /\ imu_data[i + 1] > time0 /\ imu_data[i] < time0 /\ prop_data' = Append(prop_data, time0)
        /\ i' = i + 1 /\ UNCHANGED <<imu_data, time0, time1, degenerate, at>>
    BY <1>5 DEF Selection!CutStart, Selection!InLoop, Selection!Starts, Selection!Continue, Selection!input, n
  <2>2. prop_data = <<>> /\ imu_data[1] <= time0
    BY <1>1, <1>3, <2>1
  <2>3. Chosen(Append(prop_data, time0))
    <3>1. PICK x \in Int : x = time0
      BY <1>1
    <3>2. time0 <= x /\ x <= time1
      BY <1>1, <3>1
    <3>3. Chosen(Append(prop_data, x))
      BY <1>1, <2>2, <3>1, <3>2, ChosenAppend
    <3> QED  BY <3>1, <3>3
  <2>4. Append(prop_data, time0) \in Seq(Int) /\ Append(prop_data, time0) # <<>> /\ End(Append(prop_data, time0)) = time0
    BY <1>1, IntAppend
  <2>5. Taken(Append(prop_data, time0), i)
    <3>1. ~(time0 < imu_data[i])
      BY <1>1, <1>3, <2>1
    <3>2. Taken(Append(prop_data, time0), (i - 1) + 1)
      BY <1>1, <1>2, <3>1, TakenAppend
    <3> QED  BY <1>2, <3>2
  <2>6. time0 <= imu_data[i + 1]
    BY <1>1, <1>4, <2>1
  <2> QED  BY <1>0, <2>1, <2>3, <2>4, <2>5, <2>6, LoopGoesOn DEF n
<1>6. CASE Selection!TakeWhole
  <2> DEFINE x == imu_data[i]
  <2>1. i < n /\ ~(imu_data[i + 1] > time0 /\ x < time0) /\ x >= time0 /\ imu_data[i + 1] <= time1
        /\ prop_data' = Append(prop_data, x) /\ i' = i + 1 /\ UNCHANGED <<imu_data, time0, time1, degenerate, at>>
    BY <1>6 DEF Selection!TakeWhole, Selection!InLoop, Selection!Starts, Selection!Inside, Selection!Continue,
                Selection!input, n
  <2>2. time0 <= x /\ x <= time1 /\ x \in Elements(imu_data) /\ x \in Int /\ ~(x < time0) /\ time0 <= imu_data[i + 1]
    BY <1>1, <1>3, <1>4, <2>1
  <2>3. ASSUME prop_data = <<>> PROVE imu_data[1] <= time0 <=> x = time0
    BY <1>1, <1>2, <1>3, <2>2, <2>3
  <2> HIDE DEF x
  <2>4. Chosen(Append(prop_data, x))
    BY <1>1, <2>2, <2>3, ChosenAppend DEF x
  <2>5. Append(prop_data, x) \in Seq(Int) /\ Append(prop_data, x) # <<>> /\ End(Append(prop_data, x)) = x
    BY <1>1, <2>2, IntAppend
  <2>6. Taken(Append(prop_data, x), i)
    <3>1. Taken(Append(prop_data, x), (i - 1) + 1)
      BY <1>1, <1>2, <2>2, TakenAppend DEF x
    <3> QED  BY <1>2, <3>1
  <2> QED  BY <1>0, <2>1, <2>2, <2>4, <2>5, <2>6, LoopGoesOn DEF n, x
<1>7. CASE Selection!CutEnd
  <2> DEFINE x == imu_data[i]
             y == IF x > time1 THEN time1 ELSE x
             one == Append(prop_data, y)
             two == IF y # time1 THEN Append(one, time1) ELSE one
  <2>1. i < n /\ ~(imu_data[i + 1] > time0 /\ x < time0) /\ imu_data[i + 1] > time1 /\ at' = "stretch"
        /\ UNCHANGED <<imu_data, time0, time1, degenerate, i>>
    BY <1>7 DEF Selection!CutEnd, Selection!InLoop, Selection!Starts, Selection!Break, Selection!input, n
  <2>2. y \in Int /\ x \in Int /\ time0 <= x /\ time0 <= y /\ y <= time1 /\ (y = time1 \/ y \in Elements(imu_data))
        /\ imu_data[i + 1] \in Int /\ (y = x \/ (y = time1 /\ x > time1))
    BY <1>1, <1>3, <1>4, <2>1
  <2>3. one \in Seq(Int) /\ one # <<>> /\ End(one) = y
    <3> HIDE DEF y
    <3> QED  BY <1>1, <2>2, IntAppend
  <2>4. prop_data' = IF x > time1 /\ i = 1 THEN prop_data ELSE two
    <3>1. Selection!EndCut = one
      BY DEF Selection!EndCut
    <3>2. Selection!Last(one) = y
      BY <2>3 DEF Selection!Last, End
    <3> HIDE DEF one, y, x
    <3>3. prop_data' = IF imu_data[i] > time1 /\ i = 1 THEN prop_data
                       ELSE IF Selection!Last(Selection!EndCut) # time1 THEN Append(Selection!EndCut, time1)
                       ELSE Selection!EndCut
      BY <1>7 DEF Selection!CutEnd
    <3> QED  BY <3>1, <3>2, <3>3 DEF x
  \* The history ends after time1.
  <2>5. imu_data[n] > time1
    <3>1. imu_data[i + 1] <= imu_data[n]
      <4>1. i + 1 \in 1..n /\ i + 1 <= n
        BY <1>1, <1>4, <2>1
      <4> QED  BY <1>1, <1>2, <4>1
    <3> QED  BY <1>1, <1>3, <2>1, <2>2, <3>1
  <2>6. CASE x > time1 /\ i = 1
    <3>1. prop_data = <<>> /\ prop_data' = prop_data
      BY <1>1, <2>4, <2>6
    <3>2. Uncovered
      BY <1>1, <1>3, <2>6 DEF Uncovered
    <3>3. Taken(prop_data, n)
      <4>1. \A k \in 1..n : imu_data[1] <= imu_data[k] /\ imu_data[k] \in Int
        BY <1>1, <1>2
      <4> QED  BY <1>1, <1>3, <2>6, <4>1 DEF Taken
    <3> QED  BY <1>0, <1>1, <2>1, <3>1, <3>2, <3>3, LoopStops DEF n
  <2>7. CASE ~(x > time1 /\ i = 1)
    <3>1. ASSUME prop_data = <<>> PROVE imu_data[1] <= time0 <=> y = time0
      <4>1. CASE i = 1
        BY <1>1, <2>2, <2>7, <4>1
      <4>2. CASE i # 1
        BY <1>1, <1>2, <1>3, <2>2, <3>1, <4>2
      <4> QED  BY <4>1, <4>2
    <3>2. ASSUME prop_data # <<>> PROVE End(prop_data) <= y
      BY <1>1, <2>2, <3>2
    <3> HIDE DEF y
    <3>3. Chosen(one)
      BY <1>1, <2>2, <3>1, <3>2, ChosenAppend
    <3>4. Taken(one, i)
      <4>1. time0 < imu_data[(i - 1) + 1] /\ imu_data[(i - 1) + 1] < time1 => imu_data[(i - 1) + 1] = y
        BY <1>1, <1>2, <2>2
      <4>2. Taken(one, (i - 1) + 1)
        BY <1>1, <1>2, <2>2, <4>1, TakenAppend
      <4> QED  BY <1>2, <4>2
    <3> HIDE DEF one
    <3>5. two \in Seq(Int) /\ two # <<>> /\ End(two) = time1 /\ Chosen(two)
      <4>1. CASE y = time1
        BY <2>3, <3>3, <4>1
      <4>2. CASE y # time1
        <5>1. Append(one, time1) \in Seq(Int) /\ Append(one, time1) # <<>> /\ End(Append(one, time1)) = time1
          BY <1>1, <2>3, IntAppend
        <5>2. Chosen(Append(one, time1))
          BY <1>1, <2>2, <2>3, <3>3, ChosenAppend
        <5> QED  BY <4>2, <5>1, <5>2
      <4> QED  BY <4>1, <4>2
    <3>6. Taken(two, n)
      <4>1. \A g \in Elements(one) : g \in Elements(two)
        <5>1. y # time1 => Elements(two) = Elements(one) \cup {time1}
          BY <1>1, <2>3, IntAppend
        <5> QED  BY <5>1
      <4>2. \A k \in 1..n : k \in 1..i \/ ~(imu_data[k] < time1)
        <5>1. SUFFICES ASSUME NEW k \in 1..n, k \notin 1..i PROVE ~(imu_data[k] < time1)
          OBVIOUS
        <5>2. i + 1 \in 1..n /\ i + 1 <= k
          BY <1>1, <1>4, <2>1, <5>1
        <5>3. imu_data[i + 1] <= imu_data[k] /\ imu_data[k] \in Int
          BY <1>1, <5>2
        <5> QED  BY <1>1, <2>1, <2>2, <5>3
      <4> HIDE DEF two
      <4> QED  BY <3>4, <4>1, <4>2 DEF Taken
    <3>7. prop_data' = two
      BY <2>4, <2>7
    <3> HIDE DEF two
    <3> QED  BY <1>0, <2>1, <3>5, <3>6, <3>7, LoopStops DEF n
  <2> QED  BY <2>6, <2>7
<1>8. CASE Selection!Before
  <2>1. i < n /\ ~(imu_data[i + 1] > time0 /\ imu_data[i] < time0) /\ ~(imu_data[i] >= time0 /\ imu_data[i + 1] <= time1)
        /\ imu_data[i + 1] <= time1 /\ prop_data' = prop_data /\ i' = i + 1
        /\ UNCHANGED <<imu_data, time0, time1, degenerate, at>>
    BY <1>8 DEF Selection!Before, Selection!InLoop, Selection!Starts, Selection!Inside, Selection!Continue,
                Selection!input, n
  <2>2. imu_data[i] < time0 /\ imu_data[i + 1] <= time0 /\ prop_data = <<>>
    BY <1>1, <1>3, <1>4, <2>1
  <2>3. Taken(prop_data, i)
    <3>1. \A k \in 1..i : imu_data[k] <= imu_data[i] /\ imu_data[k] \in Int
      BY <1>1, <1>2
    <3> QED  BY <1>1, <1>3, <2>2, <3>1 DEF Taken
  <2> QED  BY <1>0, <1>1, <2>1, <2>2, <2>3, LoopGoesOn DEF n
<1>9. CASE Selection!LoopEnds
  <2>1. i = n /\ prop_data' = prop_data /\ at' = "stretch" /\ UNCHANGED <<imu_data, time0, time1, degenerate, i>>
    BY <1>1, <1>2, <1>9 DEF Selection!LoopEnds, Selection!Break, Selection!input, n
  <2>2. End(imu_data) = imu_data[n]
    BY DEF End, n
  <2>3. ASSUME prop_data = <<>> PROVE Uncovered
    <3>1. CASE i = 1
      BY <1>1, <1>3, <2>1, <2>2, <3>1 DEF Uncovered
    <3>2. CASE i # 1
      BY <1>1, <1>2, <2>1, <2>2, <2>3, <3>2 DEF Uncovered
    <3> QED  BY <3>1, <3>2
  <2>4. ASSUME prop_data # <<>>, End(prop_data) # time1, imu_data[n - 1] = imu_data[n] PROVE imu_data[n] < time1
    <3>1. /\ End(prop_data) = IF imu_data[n - 1] < time0 THEN time0 ELSE imu_data[n - 1]
          /\ imu_data[n] <= time1 \/ imu_data[n - 1] < time0
          /\ time0 <= imu_data[n]
      BY <1>1, <2>1, <2>4 DEF Scanned
    <3> QED  BY <1>1, <1>3, <2>4, <3>1
  <2>5. ASSUME imu_data[n] >= time1 PROVE Taken(prop_data, n)
    <3>1. \A k \in 1..n : k \in 1..(i - 1) \/ k = n
      BY <1>1, <2>1
    <3> QED  BY <1>1, <1>2, <1>3, <2>5, <3>1 DEF Taken
  <2> QED  BY <1>0, <1>1, <2>1, <2>2, <2>3, <2>4, <2>5, LoopStops DEF n
<1> QED  BY <1>5, <1>6, <1>7, <1>8, <1>9

\* The end of the interval is added when the readings stop before it.
LEMMA SelStretch == ASSUME SelInv, Selection!Stretch PROVE SelInv'
<1>1. /\ at = "stretch" /\ i' = 1 /\ UNCHANGED <<imu_data, time0, time1>>
      /\ prop_data' = (IF Selection!Short THEN Append(prop_data, time1) ELSE prop_data)
      /\ degenerate' = (Selection!Short /\ imu_data[Len(imu_data) - 1] = Selection!Last(imu_data))
      /\ at' = (IF prop_data = <<>> THEN "done" ELSE "dedup")
  BY DEF Selection!Stretch, Selection!input
<1>2. SelTyped /\ Chosen(prop_data) /\ Gathered /\ imu_data # <<>> /\ prop_data \in Seq(Int) /\ imu_data \in Seq(Int)
      /\ time0 \in Int /\ time1 \in Int /\ time0 < time1
  BY <1>1 DEF SelInv, SelTyped
<1>3. Selection!Short <=> prop_data # <<>> /\ End(prop_data) # time1
  BY DEF Selection!Short, Selection!Last, End
<1>4. degenerate' \in BOOLEAN /\ (degenerate' => Selection!Short /\ imu_data[Len(imu_data) - 1] = End(imu_data))
  BY <1>1, Zenon DEF Selection!Last, End
<1>5. CASE prop_data = <<>>
  <2>1. prop_data' = prop_data /\ ~degenerate' /\ at' = "done"
    BY <1>1, <1>3, <1>4, <1>5
  <2>2. SelTyped' /\ Chosen(prop_data)'
    BY <1>1, <1>2, <1>4, <2>1 DEF SelTyped, Chosen
  <2>3. Uncovered'
    BY <1>1, <1>2, <1>5 DEF Gathered, Uncovered, End
  <2> QED  BY <1>5, <2>1, <2>2, <2>3 DEF SelInv
<1>6. CASE prop_data # <<>>
  <2>1. at' = "dedup"
    BY <1>1, <1>6
  <2>2. prop_data' \in Seq(Int) /\ prop_data' # <<>> /\ End(prop_data') = time1 /\ Chosen(prop_data')
        /\ \A g \in Elements(prop_data) : g \in Elements(prop_data')
    <3>1. CASE Selection!Short
      <4>1. prop_data' = Append(prop_data, time1)
        BY <1>1, <3>1
      <4>2. Append(prop_data, time1) \in Seq(Int) /\ Append(prop_data, time1) # <<>> /\ End(Append(prop_data, time1)) = time1
            /\ Elements(Append(prop_data, time1)) = Elements(prop_data) \cup {time1}
        BY <1>2, IntAppend
      <4>3. time0 <= time1 /\ time1 <= time1 /\ End(prop_data) <= time1
        <5>1. Len(prop_data) \in DOMAIN prop_data
          BY <1>2, <1>6
        <5> QED  BY <1>2, <5>1 DEF Chosen, End
      <4>4. Chosen(Append(prop_data, time1))
        BY <1>2, <1>6, <4>3, ChosenAppend
      <4> QED  BY <4>1, <4>2, <4>4
    <3>2. CASE ~Selection!Short
      BY <1>1, <1>2, <1>3, <1>6, <3>2
    <3> QED  BY <3>1, <3>2
  <2>3. SelTyped'
    BY <1>1, <1>2, <1>4, <2>2 DEF SelTyped
  <2>4. Chosen(prop_data)'
    BY <1>1, <2>2 DEF Chosen
  <2>5. Spanned'
    <3>1. degenerate' => End(imu_data) < time1
      BY <1>2, <1>3, <1>4 DEF Gathered
    <3>2. End(imu_data) >= time1 => Taken(prop_data', Len(imu_data))
      BY <1>2, <2>2 DEF Gathered, Taken
    <3> QED  BY <1>1, <2>2, <3>1, <3>2 DEF Spanned, End, Taken
  <2>6. i' \in 1..Len(prop_data') /\ \A j, k \in 1..i' : ~(j < k)
    <3>1. Len(prop_data') \in Nat \ {0}
      BY <2>2
    <3> QED  BY <1>1, <3>1
  <2> QED  BY <2>1, <2>3, <2>4, <2>5, <2>6 DEF SelInv
<1> QED  BY <1>5, <1>6

\* A sequence without its element n.
LEMMA Erased ==
  ASSUME NEW s \in Seq(Int), NEW n \in 1..(Len(s) - 1)
  PROVE  LET e == SubSeq(s, 1, n - 1) \o SubSeq(s, n + 1, Len(s))
         IN  /\ e \in Seq(Int) /\ Len(e) = Len(s) - 1
             /\ \A k \in 1..(Len(s) - 1) : e[k] = IF k < n THEN s[k] ELSE s[k + 1]
<1> DEFINE u == SubSeq(s, 1, n - 1)
           v == SubSeq(s, n + 1, Len(s))
<1>1. Len(s) \in Nat /\ n \in Nat \ {0} /\ n < Len(s)
  OBVIOUS
<1>2. u \in Seq(Int) /\ Len(u) = n - 1 /\ \A k \in 1..(n - 1) : u[k] = s[k]
  BY <1>1
<1>3. v \in Seq(Int) /\ Len(v) = Len(s) - n /\ \A k \in 1..(Len(s) - n) : v[k] = s[n + k]
  <2>1. n + 1 \in Int /\ Len(s) \in Int /\ \A k \in (n + 1)..Len(s) : s[k] \in Int
    BY <1>1
  <2>2. /\ v \in Seq(Int) /\ Len(v) = IF n + 1 <= Len(s) THEN Len(s) - (n + 1) + 1 ELSE 0
        /\ \A k \in 1..(Len(s) - (n + 1) + 1) : v[k] = s[(n + 1) + k - 1]
    BY <2>1, SubSeqProperties
  <2> HIDE DEF v
  <2>3. n + 1 <= Len(s) /\ Len(s) - (n + 1) + 1 = Len(s) - n
    BY <1>1
  <2>4. Len(v) = Len(s) - n
    BY <2>2, <2>3
  <2>5. ASSUME NEW k \in 1..(Len(s) - n) PROVE v[k] = s[n + k]
    <3>1. k \in 1..(Len(s) - (n + 1) + 1)
      BY <2>3
    <3>2. (n + 1) + k - 1 = n + k
      BY <1>1
    <3> QED  BY <2>2, <3>1, <3>2
  <2> QED  BY <2>2, <2>4, <2>5
<1> HIDE DEF u, v
<1>6. /\ u \o v \in Seq(Int) /\ Len(u \o v) = Len(u) + Len(v)
      /\ \A k \in 1..(Len(u) + Len(v)) : (u \o v)[k] = IF k <= Len(u) THEN u[k] ELSE v[k - Len(u)]
  BY <1>2, <1>3, ConcatProperties
<1>4. u \o v \in Seq(Int) /\ Len(u \o v) = Len(s) - 1
  BY <1>1, <1>2, <1>3, <1>6
<1>5. ASSUME NEW k \in 1..(Len(s) - 1) PROVE (u \o v)[k] = IF k < n THEN s[k] ELSE s[k + 1]
  <2>1. (u \o v)[k] = IF k <= n - 1 THEN u[k] ELSE v[k - (n - 1)]
    <3>1. k \in 1..(Len(u) + Len(v))
      BY <1>1, <1>2, <1>3
    <3> QED  BY <1>2, <1>6, <3>1
  <2>2. CASE k < n
    <3>1. k <= n - 1 /\ k \in 1..(n - 1)
      BY <1>1, <2>2
    <3> QED  BY <1>2, <2>1, <2>2, <3>1
  <2>3. CASE ~(k < n)
    <3>1. ~(k <= n - 1) /\ k - (n - 1) \in 1..(Len(s) - n) /\ n + (k - (n - 1)) = k + 1
      BY <1>1, <2>3
    <3>2. v[k - (n - 1)] = s[n + (k - (n - 1))]
      BY <1>3, <3>1
    <3> QED  BY <2>1, <2>3, <3>1, <3>2
  <2> QED  BY <2>2, <2>3
<1> QED  BY <1>4, <1>5 DEF u, v

\* The loop that removes repeated times.
LEMMA SelDedup == ASSUME SelInv, Selection!DropZeroDt \/ Selection!KeepDt \/ Selection!Return PROVE SelInv'
<1>0. at = "dedup" /\ UNCHANGED <<imu_data, time0, time1, degenerate>>
  BY DEF Selection!DropZeroDt, Selection!KeepDt, Selection!Return, Selection!input
<1>1. SelTyped /\ Chosen(prop_data) /\ Spanned /\ i \in 1..Len(prop_data) /\ prop_data \in Seq(Int)
      /\ (\A j, k \in 1..i : j < k => prop_data[j] < prop_data[k])
  BY <1>0 DEF SelInv, SelTyped
<1>2. Len(prop_data) \in Nat \ {0} /\ DOMAIN prop_data = 1..Len(prop_data) /\ \A k \in 1..Len(prop_data) : prop_data[k] \in Int
  BY <1>1
<1>3. ASSUME i' \in Int, prop_data' \in Seq(Int), at' # "loop" /\ at' # "stretch", imu_data # <<>> PROVE SelTyped'
  BY <1>0, <1>1, <1>3 DEF SelTyped
<1>4. imu_data # <<>>
  BY <1>0, <1>1 DEF SelTyped
<1>5. CASE Selection!DropZeroDt
  <2> DEFINE e == SubSeq(prop_data, 1, i - 1) \o SubSeq(prop_data, i + 1, Len(prop_data))
             n == Len(prop_data) - 1
  <2>1. i < Len(prop_data) /\ prop_data[i + 1] = prop_data[i] /\ prop_data' = e /\ UNCHANGED <<i, at>>
    BY <1>5 DEF Selection!DropZeroDt
  <2>2. i \in 1..n /\ n \in Nat \ {0} /\ Len(prop_data) = n + 1 /\ Len(prop_data) \in 1..Len(prop_data)
    BY <1>1, <1>2, <2>1
  <2>3. e \in Seq(Int) /\ Len(e) = n /\ \A k \in 1..n : e[k] = IF k < i THEN prop_data[k] ELSE prop_data[k + 1]
    BY <1>1, <2>2, Erased
  <2> HIDE DEF e, n
  <2>4. DOMAIN e = 1..n /\ e # <<>>
    BY <2>2, <2>3
  \* The element dropped is found again one place further.
  <2>5. Elements(e) = Elements(prop_data)
    <3>1. ASSUME NEW g \in Elements(e) PROVE g \in Elements(prop_data)
      <4>1. PICK k \in 1..n : g = e[k]
        BY <2>4, <3>1 DEF Elements
      <4>2. k \in DOMAIN prop_data /\ k + 1 \in DOMAIN prop_data
        BY <1>2, <2>2
      <4> QED  BY <2>3, <4>1, <4>2 DEF Elements
    <3>2. ASSUME NEW g \in Elements(prop_data) PROVE g \in Elements(e)
      <4>1. PICK k \in 1..(n + 1) : g = prop_data[k]
        BY <1>2, <2>2, <3>2 DEF Elements
      <4>2. CASE k < i
        <5>1. k \in 1..n /\ e[k] = g
          BY <2>2, <2>3, <4>1, <4>2
        <5> QED  BY <2>4, <5>1 DEF Elements
      <4>3. CASE k = i
        <5>1. i \in 1..n /\ ~(i < i) /\ e[i] = g
          BY <2>1, <2>2, <2>3, <4>1, <4>3
        <5> QED  BY <2>4, <5>1 DEF Elements
      <4>4. CASE k > i
        <5>1. k - 1 \in 1..n /\ ~(k - 1 < i) /\ (k - 1) + 1 = k
          BY <2>2, <4>4
        <5>2. e[k - 1] = g
          BY <2>3, <4>1, <5>1
        <5> QED  BY <2>4, <5>1, <5>2 DEF Elements
      <4> QED  BY <2>2, <4>2, <4>3, <4>4
    <3> QED  BY <3>1, <3>2
  <2>6. e[1] = prop_data[1] /\ End(e) = End(prop_data)
    <3>1. 1 \in 1..n /\ n \in 1..n /\ n >= i /\ ~(n < i)
      BY <2>2
    <3>2. e[n] = prop_data[n + 1]
      BY <2>3, <3>1
    <3>3. e[1] = prop_data[1]
      BY <2>1, <2>2, <2>3, <3>1
    <3> QED  BY <2>2, <2>3, <3>2, <3>3 DEF End
  <2>7. \A j, k \in 1..n : j < k => e[j] <= e[k]
    <3>1. SUFFICES ASSUME NEW j \in 1..n, NEW k \in 1..n, j < k PROVE e[j] <= e[k]
      OBVIOUS
    <3>2. j \in DOMAIN prop_data /\ j + 1 \in DOMAIN prop_data /\ k \in DOMAIN prop_data /\ k + 1 \in DOMAIN prop_data
      BY <1>2, <2>2
    <3>3. prop_data[j] <= prop_data[k] /\ prop_data[j + 1] <= prop_data[k + 1] /\ prop_data[j] <= prop_data[k + 1]
      <4>1. j + 1 < k + 1 /\ j < k + 1
        BY <3>1
      <4> QED  BY <1>1, <3>1, <3>2, <4>1 DEF Chosen
    <3>4. ~(j < i) => ~(k < i)
      BY <2>2, <3>1
    <3> QED  BY <2>3, <3>3, <3>4
  <2>8. \A j, k \in 1..i : j < k => e[j] < e[k]
    <3>1. SUFFICES ASSUME NEW j \in 1..i, NEW k \in 1..i, j < k PROVE e[j] < e[k]
      OBVIOUS
    <3>2. j < i /\ j \in 1..n /\ k \in 1..n /\ (k < i \/ k = i)
      BY <2>2, <3>1
    <3>3. e[j] = prop_data[j] /\ e[k] = prop_data[k]
      BY <2>1, <2>2, <2>3, <3>2
    <3> QED  BY <1>1, <3>1, <3>3
  <2>9. Chosen(e)
    <3>1. \A g \in Elements(e) : time0 <= g /\ g <= time1 /\ (g = time0 \/ g = time1 \/ g \in Elements(imu_data))
      <4>1. \A g \in Elements(prop_data) : time0 <= g /\ g <= time1 /\ (g = time0 \/ g = time1 \/ g \in Elements(imu_data))
        BY <1>1 DEF Chosen, Elements
      <4> QED  BY <2>5, <4>1
    <3>2. \A k \in DOMAIN e : e[k] \in Elements(e)
      BY DEF Elements
    <3>3. prop_data # <<>>
      BY <1>1 DEF Spanned
    <3> QED  BY <1>1, <2>4, <2>6, <2>7, <3>1, <3>2, <3>3 DEF Chosen
  <2>10. Chosen(prop_data)'
    BY <1>0, <2>1, <2>9 DEF Chosen
  <2>11. Spanned'
    <3>1. End(imu_data) >= time1 => Taken(e, Len(imu_data))
      BY <1>1, <2>5 DEF Spanned, Taken
    <3> QED  BY <1>0, <1>1, <2>1, <2>4, <2>6, <3>1 DEF Spanned, Taken, End
  <2>12. i' \in 1..Len(prop_data') /\ at' = "dedup" /\ i' \in Int /\ prop_data' \in Seq(Int)
    BY <1>0, <2>1, <2>2, <2>3
  <2>13. \A j, k \in 1..i' : j < k => prop_data'[j] < prop_data'[k]
    BY <2>1, <2>8
  <2>14. SelTyped'
    BY <1>3, <1>4, <2>12
  <2> QED  BY <2>10, <2>11, <2>12, <2>13, <2>14 DEF SelInv
<1>6. CASE Selection!KeepDt
  <2>1. i < Len(prop_data) /\ prop_data[i + 1] # prop_data[i] /\ i' = i + 1 /\ UNCHANGED <<prop_data, at>>
    BY <1>6 DEF Selection!KeepDt
  <2>2. i + 1 \in 1..Len(prop_data) /\ i + 1 \in Int /\ i \in Int
    BY <1>1, <1>2, <2>1
  <2>3. ASSUME NEW j \in 1..(i + 1), NEW k \in 1..(i + 1), j < k PROVE prop_data[j] < prop_data[k]
    <3>1. CASE k <= i
      <4>1. j \in 1..i /\ k \in 1..i
        BY <2>2, <2>3, <3>1
      <4> QED  BY <1>1, <2>3, <4>1
    <3>2. CASE ~(k <= i)
      <4>1. k = i + 1 /\ j \in 1..i /\ (j = i \/ j < i) /\ i \in 1..i
        BY <1>1, <2>2, <2>3, <3>2
      <4>2. prop_data[i] < prop_data[i + 1]
        <5>1. i \in DOMAIN prop_data /\ i + 1 \in DOMAIN prop_data /\ i < i + 1
          BY <1>1, <1>2, <2>2
        <5>2. prop_data[i] <= prop_data[i + 1]
          BY <1>1, <5>1 DEF Chosen
        <5> QED  BY <1>2, <2>1, <5>1, <5>2
      <4>3. j < i => prop_data[j] < prop_data[i]
        BY <1>1, <4>1
      <4>4. prop_data[j] \in Int /\ prop_data[i] \in Int /\ prop_data[i + 1] \in Int
        BY <1>1, <1>2, <2>2, <4>1
      <4> QED  BY <4>1, <4>2, <4>3, <4>4
    <3> QED  BY <3>1, <3>2
  <2>4. SelTyped'
    BY <1>0, <1>1, <1>3, <1>4, <2>1, <2>2
  <2>5. Chosen(prop_data)' /\ Spanned'
    BY <1>0, <1>1, <2>1 DEF Chosen, Spanned, Taken, End
  <2>6. at' = "dedup" /\ i' \in 1..Len(prop_data') /\ \A j, k \in 1..i' : j < k => prop_data'[j] < prop_data'[k]
    BY <1>0, <2>1, <2>2, <2>3
  <2> QED  BY <2>4, <2>5, <2>6 DEF SelInv
<1>7. CASE Selection!Return
  <2>0. i >= Len(prop_data) /\ at' = "done" /\ UNCHANGED <<i, prop_data>>
    BY <1>7 DEF Selection!Return
  <2>5. PICK n \in Nat : n = Len(prop_data)
    BY <1>2
  <2>6. i \in 1..n /\ i >= n
    BY <1>1, <2>0, <2>5
  <2>7. i = n
    BY <2>6
  <2>1. i = Len(prop_data) /\ at' = "done" /\ UNCHANGED <<i, prop_data>>
    BY <2>0, <2>5, <2>7
  <2>2. SelTyped'
    BY <1>0, <1>1, <1>2, <1>3, <1>4, <2>1
  <2>3. Chosen(prop_data)' /\ Spanned'
    BY <1>0, <1>1, <2>1 DEF Chosen, Spanned, Taken, End
  <2>4. prop_data' # <<>> /\ \A j, k \in DOMAIN prop_data' : j < k => prop_data'[j] < prop_data'[k]
    BY <1>1, <1>2, <2>1
  <2> QED  BY <2>1, <2>2, <2>3, <2>4 DEF SelInv
<1> QED  BY <1>5, <1>6, <1>7

\* For any history of readings, repeated timestamps included, and any interval:
\* what select_imu_readings returns spans exactly the interval asked for whenever
\* the history covers its start, uses every reading in between once a reading past
\* its end has arrived, interpolates over no zero interval then, and never has a step
\* of zero or negative length.
THEOREM SelectsExactlyAlways == Selection!Spec => []SelectsExactly
<1>1. ASSUME SelInv, [Selection!Next]_(Selection!vars) PROVE SelInv'
  <2>1. CASE UNCHANGED Selection!vars
    <3>1. UNCHANGED <<imu_data, time0, time1, i, prop_data, degenerate, at>>
      BY <2>1 DEF Selection!vars, Selection!input
    <3> QED  BY <1>1, <3>1 DEF SelInv, SelTyped, Chosen, Scanned, Gathered, Spanned, Taken, Uncovered, End, Elements
  <2>2. CASE Selection!Next
    BY <1>1, <2>2, SelLoop, SelStretch, SelDedup DEF Selection!Next
  <2> QED  BY <1>1, <2>1, <2>2
<1>2. ASSUME SelInv PROVE SelectsExactly
  <2>1. SUFFICES ASSUME at = "done"
        PROVE  /\ Selection!Covers => Selection!Spans
               /\ Selection!Spans => \E k \in DOMAIN imu_data : imu_data[k] <= time0
               /\ Selection!Covers /\ End(imu_data) >= time1 => Selection!UsesAll
               /\ degenerate => time1 > End(imu_data)
               /\ \A j, k \in DOMAIN prop_data : j < k => prop_data[j] < prop_data[k]
    BY DEF SelectsExactly, Selection!SelectsExactly, Selection!Last, Selection!Increasing, End
  <2>2. SelTyped /\ Chosen(prop_data) /\ (\A j, k \in DOMAIN prop_data : j < k => prop_data[j] < prop_data[k])
        /\ (prop_data = <<>> => Uncovered /\ ~degenerate) /\ (prop_data # <<>> => Spanned)
        /\ imu_data \in Seq(Int) /\ prop_data \in Seq(Int) /\ time0 \in Int /\ time1 \in Int /\ time0 < time1
    BY <1>2, <2>1 DEF SelInv, SelTyped
  <2>3. ASSUME Selection!Covers PROVE imu_data # <<>> /\ 1 \in DOMAIN imu_data /\ imu_data[1] <= time0 /\ End(imu_data) > time0
    <3>1. PICK j \in DOMAIN imu_data : imu_data[j] <= time0
      BY <2>3 DEF Selection!Covers
    <3>2. PICK k \in DOMAIN imu_data : imu_data[k] > time0
      BY <2>3 DEF Selection!Covers
    <3>3. 1 \in DOMAIN imu_data /\ Len(imu_data) \in DOMAIN imu_data /\ imu_data[1] \in Int /\ imu_data[j] \in Int
          /\ imu_data[k] \in Int /\ imu_data[Len(imu_data)] \in Int /\ imu_data # <<>>
          /\ (j = 1 \/ 1 < j) /\ (k = Len(imu_data) \/ k < Len(imu_data))
      BY <2>2
    <3>4. imu_data[1] <= imu_data[j] /\ imu_data[k] <= imu_data[Len(imu_data)]
      BY <2>2, <3>3 DEF SelTyped
    <3> QED  BY <2>2, <3>1, <3>2, <3>3, <3>4 DEF End
  <2>4. ASSUME Selection!Covers PROVE prop_data # <<>> /\ Spanned /\ prop_data[1] = time0 /\ Selection!Spans
    <3>1. imu_data[1] \in Int /\ End(imu_data) \in Int
      <4>1. 1 \in DOMAIN imu_data /\ Len(imu_data) \in DOMAIN imu_data
        BY <2>2, <2>3, <2>4
      <4> QED  BY <2>2, <4>1 DEF End
    <3>2. ~Uncovered
      BY <2>2, <2>3, <2>4, <3>1 DEF Uncovered
    <3>3. prop_data # <<>> /\ Spanned /\ prop_data[1] = time0 /\ prop_data[Len(prop_data)] = time1
      BY <2>2, <2>3, <2>4, <3>2 DEF Chosen, Spanned, End
    <3>4. Len(prop_data) \in Nat \ {0} /\ Len(prop_data) # 1
      BY <2>2, <3>3
    <3>5. Len(prop_data) >= 2
      BY <3>4
    <3> QED  BY <3>3, <3>5 DEF Selection!Spans, Selection!Last
  <2>5. ASSUME Selection!Spans PROVE \E k \in DOMAIN imu_data : imu_data[k] <= time0
    <3>1. prop_data[1] = time0 /\ prop_data # <<>>
      BY <2>2, <2>5 DEF Selection!Spans
    <3>2. imu_data[1] <= time0
      BY <2>2, <3>1 DEF Chosen
    <3>3. 1 \in DOMAIN imu_data
      <4>1. imu_data # <<>>
        BY <2>2, <3>1 DEF SelTyped
      <4> QED  BY <2>2, <4>1
    <3> QED  BY <3>2, <3>3
  <2>6. ASSUME Selection!Covers, End(imu_data) >= time1 PROVE Selection!UsesAll
    <3> DEFINE Within == {imu_data[k] : k \in {j \in DOMAIN imu_data : time0 < imu_data[j] /\ imu_data[j] < time1}}
    <3>1. DOMAIN imu_data = 1..Len(imu_data)
      BY <2>2
    <3>2. ASSUME NEW x \in {time0, time1} \cup Within PROVE x \in Elements(prop_data)
      <4>1. time0 \in Elements(prop_data) /\ time1 \in Elements(prop_data)
        <5>1. 1 \in DOMAIN prop_data /\ Len(prop_data) \in DOMAIN prop_data
          BY <2>2, <2>4, <2>6
        <5>2. prop_data[1] = time0 /\ prop_data[Len(prop_data)] = time1
          BY <2>4, <2>6 DEF Spanned, End
        <5> QED  BY <5>1, <5>2 DEF Elements
      <4>2. ASSUME x \in Within PROVE x \in Elements(prop_data)
        BY <2>4, <2>6, <3>1, <4>2 DEF Spanned, Taken
      <4> QED  BY <3>2, <4>1, <4>2
    <3>3. ASSUME NEW x \in Elements(prop_data) PROVE x \in {time0, time1} \cup Within
      <4>1. PICK k \in DOMAIN prop_data : x = prop_data[k]
        BY <3>3 DEF Elements
      <4>2. x \in Int /\ time0 <= x /\ x <= time1 /\ (x = time0 \/ x = time1 \/ x \in Elements(imu_data))
        BY <2>2, <4>1 DEF Chosen
      <4>3. ASSUME x # time0, x # time1 PROVE x \in Within
        <5>1. PICK j \in DOMAIN imu_data : x = imu_data[j]
          BY <4>2, <4>3 DEF Elements
        <5>2. time0 < x /\ x < time1
          BY <2>2, <4>2, <4>3
        <5> QED  BY <5>1, <5>2
      <4> QED  BY <4>3
    <3>4. Elements(prop_data) = {time0, time1} \cup Within
      BY <3>2, <3>3
    <3> QED  BY <3>4 DEF Selection!UsesAll, Elements
  <2>7. ASSUME degenerate PROVE time1 > End(imu_data)
    BY <2>2, <2>7 DEF Spanned
  <2> QED  BY <2>2, <2>4, <2>5, <2>6, <2>7
<1> QED  BY <1>1, <1>2, SelInit, PTL DEF Selection!Spec

-----------------------------------------------------------------------------
\* The layout of the state

USE FeatAssumption, SizeAssumption

-----------------------------------------------------------------------------
\* Anchors.

\* margtimestep is the time of a clone, and no clone is older.
LEMMA OldestClone ==
    ASSUME clones \subseteq Nat, clones # {}
    PROVE  MargTimestep \in clones /\ \A x \in clones : MargTimestep <= x
<1> DEFINE upto == {0..x : x \in clones}
<1>1. upto # {} /\ upto \subseteq FiniteSubsetsOf(Nat)
  <2>1. \A x \in clones : IsFiniteSet(0..x) /\ 0..x \in SUBSET Nat
    BY FS_Interval
  <2> QED  BY <2>1 DEF FiniteSubsetsOf
<1>2. PICK least \in upto : \A u \in upto : <<u, least>> \notin StrictSubsetOrdering(Nat)
  BY <1>1, FS_StrictSubsetOrderingWellFounded, WFMin
<1>3. PICK m \in clones : least = 0..m
  OBVIOUS
<1>4. ASSUME NEW y \in clones, y < m PROVE FALSE
  <2>1. 0..y \subseteq 0..m /\ m \in 0..m /\ m \notin 0..y /\ 0..m \subseteq Nat
    BY <1>4
  <2>2. <<0..y, 0..m>> \in StrictSubsetOrdering(Nat)
    <3>1. 0..y # 0..m
      BY <2>1
    <3>2. <<0..y, 0..m>> \in (SUBSET Nat) \X (SUBSET Nat)
      BY <2>1
    <3> QED  BY <2>1, <3>1, <3>2 DEF StrictSubsetOrdering
  <2> QED  BY <1>2, <1>3, <2>2
<1>5. \A y \in clones : m <= y
  BY <1>4
<1> HIDE DEF upto
<1> QED  BY <1>5 DEF MargTimestep

\* The window: clones are no newer than the state, and while a frame is being
\* processed its own clone is the newest.
Window ==
    /\ ts \in Nat /\ clones \subseteq 0..ts /\ IsFiniteSet(clones)
    /\ pc \in {"idle", "select", "marg_slam", "delayed", "marg_clone"}
    /\ pc # "idle" => ts \in clones

\* After change_anchors the clone about to go anchors nothing.
AnchorsMoved ==
    Relative /\ pc = "marg_clone" /\ Cardinality(clones) > MaxCloneSize
        => \A f \in Slam : anchor[f] # MargTimestep

\* Every step keeps the window.
LEMMA WindowStep ==
    ASSUME Window, [Next]_vars
    PROVE  Window'
<1>1. CASE UNCHANGED <<ts, clones, pc>>
  BY <1>1 DEF Window
<1>2. ASSUME NEW t \in Times, ZeroVelocity(t) PROVE Window'
  BY <1>2 DEF ZeroVelocity, Window, Times
<1>3. ASSUME NEW t \in Times, CommitRecovery(t) PROVE Window'
  BY <1>3, FS_EmptySet DEF CommitRecovery, Window, Times
<1>4. ASSUME NEW t \in Times, PropagateAndClone(t) PROVE Window'
  BY <1>4, FS_AddElement DEF PropagateAndClone, Window, Times
<1>5. CASE MarginalizeOldClone
  <2>1. clones' \subseteq clones
    BY <1>5 DEF MarginalizeOldClone
  <2>2. IsFiniteSet(clones')
    BY <2>1, FS_Subset DEF Window
  <2> QED  BY <1>5, <2>1, <2>2 DEF MarginalizeOldClone, Window
<1>6. CASE SameTimeFrame \/ EkfUpdate \/ ChangeAnchors
  BY <1>6 DEF SameTimeFrame, EkfUpdate, ChangeAnchors, Window
<1>7. ASSUME NEW l, NEW dropped, SelectFeatures(l, dropped) PROVE Window'
  BY <1>7 DEF SelectFeatures, Window
<1>8. ASSUME NEW f, NEW a, MarginalizeLandmark(f) \/ DelayedInit(f, a) PROVE Window'
  BY <1>1, <1>8 DEF MarginalizeLandmark, DelayedInit
<1> QED  BY <1>1, <1>2, <1>3, <1>4, <1>5, <1>6, <1>7, <1>8 DEF Next, vars

\* When the window is overfull its oldest clone is not the one of this frame.
LEMMA OldestIsNotNewest ==
    ASSUME Window, ts \in clones, Cardinality(clones) > MaxCloneSize
    PROVE  MargTimestep \in clones /\ MargTimestep # ts
<1>1. MargTimestep \in clones /\ \A x \in clones : MargTimestep <= x
  BY OldestClone DEF Window
<1>2. ASSUME MargTimestep = ts PROVE FALSE
  <2>1. \A x \in clones : x = ts
    BY <1>1, <1>2 DEF Window
  <2>2. clones = {ts}
    BY <2>1
  <2>3. Cardinality({ts}) = 1
    BY FS_Singleton
  <2> QED  BY <2>2, <2>3
<1> QED  BY <1>1, <1>2

\* Every step keeps every anchor in the window.
LEMMA AnchorStep ==
    ASSUME Window, AnchorsMoved, AnchorsAlive, Relative, [Next]_vars
    PROVE  AnchorsMoved' /\ AnchorsAlive'
<1> DEFINE Goal == AnchorsMoved' /\ AnchorsAlive'
<1>1. ASSUME UNCHANGED <<clones, anchor>>, UNCHANGED pc \/ pc' # "marg_clone" PROVE Goal
  BY <1>1 DEF AnchorsMoved, AnchorsAlive, Slam, MargTimestep
<1>2. ASSUME NEW t \in Times, CommitRecovery(t) PROVE Goal
  BY <1>2 DEF CommitRecovery, AnchorsMoved, AnchorsAlive, Slam
<1>3. ASSUME NEW t \in Times, PropagateAndClone(t) PROVE Goal
  BY <1>3 DEF PropagateAndClone, AnchorsMoved, AnchorsAlive, Slam
<1>4. ASSUME NEW f \in Feats, MarginalizeLandmark(f) PROVE Goal
  BY <1>4 DEF MarginalizeLandmark, AnchorsMoved, AnchorsAlive, Slam
<1>5. ASSUME NEW f \in Feats, NEW a \in Times, DelayedInit(f, a) PROVE Goal
  BY <1>5 DEF DelayedInit, AnchorsMoved, AnchorsAlive, Slam
<1>6. ASSUME ChangeAnchors PROVE Goal
  <2>1. ts \in clones /\ UNCHANGED clones /\ pc' = "marg_clone"
    BY <1>6 DEF ChangeAnchors, Window
  <2>2. CASE Cardinality(clones) > MaxCloneSize
    <3>1. MargTimestep # ts /\ MargTimestep' = MargTimestep
      BY <2>1, <2>2, OldestIsNotNewest DEF MargTimestep
    <3>2. anchor' = [f \in Slam |-> IF anchor[f] = MargTimestep THEN ts ELSE anchor[f]]
      BY <1>6, <2>2 DEF ChangeAnchors
    <3> HIDE DEF MargTimestep
    <3> QED  BY <2>1, <3>1, <3>2 DEF AnchorsMoved, AnchorsAlive, Slam
  <2>3. CASE ~(Cardinality(clones) > MaxCloneSize)
    BY <1>6, <2>1, <2>3 DEF ChangeAnchors, AnchorsMoved, AnchorsAlive, Slam
  <2> QED  BY <2>2, <2>3
<1>7. ASSUME MarginalizeOldClone PROVE Goal
  BY <1>7 DEF MarginalizeOldClone, AnchorsMoved, AnchorsAlive, Slam
<1>8. Goal
  <2>1. UNCHANGED vars => Goal
    BY <1>1 DEF vars
  <2>2. \A t \in Times : ZeroVelocity(t) => Goal
    BY <1>1 DEF ZeroVelocity
  <2>3. SameTimeFrame \/ EkfUpdate => Goal
    BY <1>1 DEF SameTimeFrame, EkfUpdate
  <2>4. \A l \in SUBSET Feats : \A dropped \in SUBSET l : SelectFeatures(l, dropped) => Goal
    BY <1>1 DEF SelectFeatures
  <2> HIDE DEF Goal
  <2> QED  BY <1>2, <1>3, <1>4, <1>5, <1>6, <1>7, <2>1, <2>2, <2>3, <2>4 DEF Next
<1> QED  BY <1>8

\* No landmark is ever anchored in a clone that has left the window, for every
\* window size and any sequence of frames, zero-velocity updates and commits.
THEOREM AnchorsAliveAlways == Spec => []AnchorsAlive
<1>1. CASE Relative
  <2>1. Init => Window /\ AnchorsMoved /\ AnchorsAlive
    BY FS_EmptySet DEF Init, Fresh, Window, AnchorsMoved, AnchorsAlive, Slam
  <2>2. Window /\ AnchorsMoved /\ AnchorsAlive /\ [Next]_vars
            => (Window /\ AnchorsMoved /\ AnchorsAlive)'
    BY <1>1, WindowStep, AnchorStep
  <2>3. Spec => [](Window /\ AnchorsMoved /\ AnchorsAlive)
    BY <2>1, <2>2, PTL DEF Spec
  <2> QED  BY <2>3, PTL
<1>2. CASE ~Relative
  <2>1. AnchorsAlive
    BY <1>2 DEF AnchorsAlive
  <2> QED  BY <2>1, PTL
<1> QED  BY <1>1, <1>2

-----------------------------------------------------------------------------
\* Ids and covariance rows.

Names == {ImuVar} \cup {CloneVar(t) : t \in Nat} \cup {LandmarkVar(f) : f \in Feats}
Blocks == [name : Names, id : Nat, size : Nat \ {0}]

\* A block ends before every later one begins.
InOrderOfIds(v) == \A j, k \in 1..Len(v) : j < k => v[j].id + v[j].size <= v[k].id

\* Each block begins where the one before it ends.
Chained(v) == \A k \in 1..(Len(v) - 1) : v[k + 1].id = v[k].id + v[k].size

\* The rows of a block carry its name.
Labelled(v, c) ==
    \A k \in 1..Len(v) : \A r \in 1..v[k].size : c[v[k].id + r] = v[k].name

\* What Marginalize needs beyond CovarianceAligned: the order of all pairs of
\* blocks, and the IMU in front.
Layout(v, c) ==
    /\ v \in Seq(Blocks) /\ c \in Seq(Names)
    /\ Len(v) > 0 /\ v[1].name = ImuVar /\ v[1].id = 0
    /\ Len(c) = v[Len(v)].id + v[Len(v)].size
    /\ InOrderOfIds(v) /\ Chained(v) /\ Labelled(v, c)

\* The layout is what CovarianceAligned states, and more.
LEMMA LayoutAligns == Layout(variables, cov) => CovarianceAligned
BY DEF Layout, CovarianceAligned, Tiled, Chained, Labelled

\* Every block ends within the covariance.
LEMMA BlockEnds ==
    ASSUME NEW v, NEW c, Layout(v, c), NEW k \in 1..Len(v)
    PROVE  v[k] \in Blocks /\ v[k].id + v[k].size <= Len(c)
<1>1. v[k] \in Blocks /\ v[Len(v)] \in Blocks
  BY DEF Layout
<1>2. k < Len(v) => v[k].id + v[k].size <= v[Len(v)].id
  BY DEF Layout, InOrderOfIds
<1> QED  BY <1>1, <1>2 DEF Layout, Blocks

\* d is c without the z rows behind the a-th.
CutOut(d, c, a, z) ==
    /\ d \in Seq(Names) /\ Len(d) = Len(c) - z
    /\ \A r \in 1..a : d[r] = c[r]
    /\ \A r \in (a + 1)..Len(d) : d[r] = c[r + z]

\* The covariance with a block of rows cut out.
LEMMA RowsCut ==
    ASSUME NEW c \in Seq(Names), NEW a \in Nat, NEW z \in Nat, a + z <= Len(c)
    PROVE  CutOut(SubSeq(c, 1, a) \o SubSeq(c, a + z + 1, Len(c)), c, a, z)
<1> DEFINE x == SubSeq(c, 1, a)
           y == SubSeq(c, a + z + 1, Len(c))
<1>1. x \in Seq(Names) /\ Len(x) = a /\ \A r \in 1..a : x[r] = c[r]
  OBVIOUS
<1>2. y \in Seq(Names) /\ Len(y) = Len(c) - z - a
  OBVIOUS
<1>3. \A r \in 1..Len(y) : y[r] = c[a + z + r]
  BY <1>2
<1> HIDE DEF x, y, Names
<1>4. Len(x \o y) = Len(c) - z /\ x \o y \in Seq(Names)
  BY <1>1, <1>2
<1>5. \A r \in 1..a : (x \o y)[r] = c[r]
  BY <1>1, <1>2
<1>6. ASSUME NEW r \in (a + 1)..Len(x \o y) PROVE (x \o y)[r] = c[r + z]
  <2>1. r - a \in 1..Len(y) /\ (x \o y)[r] = y[r - a]
    BY <1>1, <1>2, <1>4
  <2>2. a + z + (r - a) = r + z
    OBVIOUS
  <2> QED  BY <2>1, <2>2, <1>3
<1>7. CutOut(x \o y, c, a, z)
  BY <1>4, <1>5, <1>6 DEF CutOut
<1> QED  BY <1>7 DEF x, y

\* Ids and sizes are numbers, and every block lies within the covariance.
LEMMA BlockNumbers ==
    ASSUME NEW v, NEW c, Layout(v, c)
    PROVE  /\ Len(v) \in Nat \ {0} /\ Len(c) \in Nat /\ DOMAIN v = 1..Len(v)
           /\ \A k \in 1..Len(v) :
                /\ v[k].id \in Nat /\ v[k].size \in Nat \ {0} /\ v[k].name \in Names
                /\ v[k].id + v[k].size <= Len(c)
<1>1. Len(v) \in Nat \ {0} /\ Len(c) \in Nat /\ DOMAIN v = 1..Len(v)
  BY DEF Layout
<1>2. \A k \in 1..Len(v) : v[k] \in Blocks /\ v[k].id + v[k].size <= Len(c)
  BY BlockEnds
<1> QED  BY <1>1, <1>2 DEF Blocks

\* A new last block, with the new last rows, keeps the layout.
LEMMA InsertLayout ==
    ASSUME NEW v, NEW c, Layout(v, c), NEW name \in Names, NEW size \in Nat \ {0}
    PROVE  Layout(Append(v, [name |-> name, id |-> Len(c), size |-> size]),
                  c \o Rows(name, size))
<1> DEFINE b == [name |-> name, id |-> Len(c), size |-> size]
           w == Append(v, b)
           d == c \o Rows(name, size)
           n == Len(v)
           e == Len(c)
<1>1. v \in Seq(Blocks) /\ c \in Seq(Names)
  BY DEF Layout
<1>2. /\ n \in Nat \ {0} /\ e \in Nat
      /\ \A k \in 1..n : /\ v[k].id \in Nat /\ v[k].size \in Nat \ {0}
                         /\ v[k].id + v[k].size <= e
  BY BlockNumbers
<1>3. b \in Blocks /\ b.name = name /\ b.id = e /\ b.size = size
  BY <1>2 DEF Blocks
<1>4. /\ w \in Seq(Blocks) /\ Len(w) = n + 1
      /\ w[n + 1] = b /\ \A k \in 1..n : w[k] = v[k]
  BY <1>1, <1>3
<1>5. /\ d \in Seq(Names) /\ Len(d) = e + size
      /\ \A r \in 1..e : d[r] = c[r]
      /\ \A r \in 1..size : d[e + r] = name
  <2> DEFINE rs == Rows(name, size)
  <2>1. rs \in Seq(Names) /\ Len(rs) = size /\ \A r \in 1..size : rs[r] = name
    BY DEF Rows
  <2>2. c \in Seq(Names) /\ e = Len(c) /\ d = c \o rs
    BY <1>1
  <2> HIDE DEF Names, d, e, b, w, n, rs
  <2>3. /\ c \o rs \in Seq(Names) /\ Len(c \o rs) = Len(c) + Len(rs)
        /\ \A k \in 1..Len(c) + Len(rs) : (c \o rs)[k] = IF k <= Len(c) THEN c[k] ELSE rs[k - Len(c)]
    BY <2>1, <2>2, ConcatProperties
  <2>4. d \in Seq(Names) /\ Len(d) = e + size
    BY <2>1, <2>2, <2>3
  <2>5. \A k \in 1..e + size : d[k] = IF k <= e THEN c[k] ELSE rs[k - e]
    BY <2>1, <2>2, <2>3
  <2>6. ASSUME NEW r \in 1..e PROVE d[r] = c[r]
    BY <1>2, <2>5
  <2>7. ASSUME NEW r \in 1..size PROVE d[e + r] = name
    <3>1. e + r \in 1..e + size /\ ~(e + r <= e) /\ (e + r) - e = r
      BY <1>2
    <3> QED  BY <2>1, <2>5, <3>1
  <2> QED  BY <2>4, <2>6, <2>7
<1>6. /\ v[1].name = ImuVar /\ v[1].id = 0
      /\ e = v[n].id + v[n].size
      /\ \A j, k \in 1..n : j < k => v[j].id + v[j].size <= v[k].id
      /\ \A k \in 1..(n - 1) : v[k + 1].id = v[k].id + v[k].size
      /\ \A k \in 1..n : \A r \in 1..v[k].size : c[v[k].id + r] = v[k].name
  BY DEF Layout, InOrderOfIds, Chained, Labelled
<1> HIDE DEF b, w, d, n, e, Blocks, Names
<1>7. InOrderOfIds(w)
  <2> SUFFICES ASSUME NEW j \in 1..(n + 1), NEW k \in 1..(n + 1), j < k
               PROVE  w[j].id + w[j].size <= w[k].id
    BY <1>4 DEF InOrderOfIds
  <2>1. j \in 1..n /\ w[j] = v[j]
    BY <1>2, <1>4
  <2>2. CASE k = n + 1
    BY <2>1, <2>2, <1>2, <1>3, <1>4
  <2>3. CASE k # n + 1
    <3>1. k \in 1..n /\ w[k] = v[k]
      BY <2>3, <1>2, <1>4
    <3> QED  BY <2>1, <3>1, <1>6
  <2> QED  BY <2>2, <2>3
<1>8. Chained(w)
  <2> SUFFICES ASSUME NEW k \in 1..n PROVE w[k + 1].id = w[k].id + w[k].size
    BY <1>2, <1>4 DEF Chained
  <2>1. CASE k = n
    BY <2>1, <1>3, <1>4, <1>6
  <2>2. CASE k # n
    <3>1. k \in 1..(n - 1) /\ k + 1 \in 1..n
      BY <2>2, <1>2
    <3> QED  BY <3>1, <1>4, <1>6
  <2> QED  BY <2>1, <2>2
<1>9. Labelled(w, d)
  <2> SUFFICES ASSUME NEW k \in 1..(n + 1), NEW r \in 1..w[k].size
               PROVE  d[w[k].id + r] = w[k].name
    BY <1>4 DEF Labelled
  <2>1. CASE k = n + 1
    BY <2>1, <1>3, <1>4, <1>5
  <2>2. CASE k # n + 1
    <3>1. k \in 1..n /\ w[k] = v[k]
      BY <2>2, <1>2, <1>4
    <3>2. v[k].id + r \in 1..e
      BY <3>1, <1>2
    <3> QED  BY <3>1, <3>2, <1>5, <1>6
  <2> QED  BY <2>1, <2>2
<1>10. Len(w) > 0 /\ w[1] = v[1] /\ Len(d) = w[Len(w)].id + w[Len(w)].size
  BY <1>2, <1>3, <1>4, <1>5
<1>11. Layout(w, d)
  BY <1>4, <1>5, <1>6, <1>7, <1>8, <1>9, <1>10 DEF Layout
<1> QED  BY <1>11 DEF w, d, b, e

\* What marginalize() of the k-th block leaves: the blocks before it are where
\* they were, those behind it have moved up by its size.
LEMMA MarginalizeMoves ==
    ASSUME Layout(variables, cov), NEW name, name # ImuVar, Marginalize(name)
    PROVE  \E k \in 2..Len(variables) :
             LET m == variables[k]
             IN  /\ m.name = name
                 /\ cov' = SubSeq(cov, 1, m.id) \o SubSeq(cov, m.id + m.size + 1, Len(cov))
                 /\ variables' \in Seq(Blocks) /\ Len(variables') = Len(variables) - 1
                 /\ \A j \in 1..(k - 1) : variables'[j] = variables[j]
                 /\ \A j \in k..(Len(variables) - 1) :
                      variables'[j] = [variables[j + 1] EXCEPT !.id = variables[j + 1].id - m.size]
<1>1. PICK k \in DOMAIN variables :
        /\ variables[k].name = name
        /\ LET m == variables[k]
               Moved(v) == IF v.id > m.id THEN [v EXCEPT !.id = v.id - m.size] ELSE v
           IN  /\ cov' = SubSeq(cov, 1, m.id) \o SubSeq(cov, m.id + m.size + 1, Len(cov))
               /\ variables' = [j \in 1..(Len(variables) - 1) |->
                                  IF j < k THEN Moved(variables[j])
                                           ELSE Moved(variables[j + 1])]
  BY DEF Marginalize
<1>2. k \in 2..Len(variables) /\ Len(variables) \in Nat
  <2>1. Len(variables) \in Nat /\ DOMAIN variables = 1..Len(variables)
    BY BlockNumbers
  <2>2. k # 1
    BY <1>1 DEF Layout
  <2> QED  BY <2>1, <2>2
<1> DEFINE n == Len(variables)
           m == variables[k]
<1>3. m \in Blocks /\ \A j \in 1..n : variables[j] \in Blocks
  BY <1>2 DEF Layout
<1>4. ASSUME NEW j \in 1..(k - 1) PROVE variables'[j] = variables[j]
  <2>1. variables[j].id + variables[j].size <= m.id /\ j \in 1..n
    BY <1>2 DEF Layout, InOrderOfIds
  <2>2. ~(variables[j].id > m.id)
    BY <2>1, <1>3 DEF Blocks
  <2>3. j \in 1..(n - 1) /\ j < k
    BY <1>2
  <2> QED  BY <1>1, <2>2, <2>3
<1>5. ASSUME NEW j \in k..(n - 1)
      PROVE  /\ variables'[j] = [variables[j + 1] EXCEPT !.id = variables[j + 1].id - m.size]
             /\ variables'[j] \in Blocks
  <2>1. m.id + m.size <= variables[j + 1].id /\ j + 1 \in 1..n
    BY <1>2 DEF Layout, InOrderOfIds
  <2>2. variables[j + 1].id > m.id /\ variables[j + 1].id - m.size \in Nat
    BY <2>1, <1>3 DEF Blocks
  <2>3. variables'[j] = [variables[j + 1] EXCEPT !.id = variables[j + 1].id - m.size]
    BY <1>1, <1>2, <2>2
  <2>4. variables[j + 1] \in Blocks
    BY <2>1, <1>3
  <2> QED  BY <2>2, <2>3, <2>4 DEF Blocks
<1>6. variables' \in Seq(Blocks) /\ Len(variables') = n - 1
  <2>1. \A j \in 1..(n - 1) : variables'[j] \in Blocks
    <3> SUFFICES ASSUME NEW j \in 1..(n - 1) PROVE variables'[j] \in Blocks
      OBVIOUS
    <3>1. CASE j < k
      <4>1. j \in 1..(k - 1) /\ j \in 1..n
        BY <3>1, <1>2
      <4> QED  BY <4>1, <1>3, <1>4
    <3>2. CASE ~(j < k)
      <4>1. j \in k..(n - 1)
        BY <3>2, <1>2
      <4> QED  BY <4>1, <1>5
    <3> QED  BY <3>1, <3>2
  <2>2. \E f : variables' = [j \in 1..(n - 1) |-> f[j]]
    <3>1. variables' = [j \in 1..(n - 1) |-> variables'[j]]
      BY <1>1
    <3> QED  BY <3>1
  <2>3. variables' \in [1..(n - 1) -> Blocks]
    BY <2>1, <2>2
  <2> HIDE DEF Blocks, n
  <2>4. n - 1 \in Nat
    BY <1>2 DEF n
  <2> QED  BY <2>3, <2>4
<1> QED  BY <1>1, <1>2, <1>4, <1>5, <1>6

\* marginalize() of anything but the IMU keeps the layout.
LEMMA MarginalizeLayout ==
    ASSUME Layout(variables, cov), NEW name, name # ImuVar, Marginalize(name)
    PROVE  Layout(variables', cov')
<1> DEFINE v == variables
           w == variables'
           c == cov
           d == cov'
           n == Len(v)
           e == Len(c)
<1>1. PICK k \in 2..n :
        LET m == v[k]
        IN  /\ m.name = name
            /\ d = SubSeq(c, 1, m.id) \o SubSeq(c, m.id + m.size + 1, Len(c))
            /\ w \in Seq(Blocks) /\ Len(w) = n - 1
            /\ \A j \in 1..(k - 1) : w[j] = v[j]
            /\ \A j \in k..(n - 1) : w[j] = [v[j + 1] EXCEPT !.id = v[j + 1].id - m.size]
  BY MarginalizeMoves
<1> DEFINE a == v[k].id
           z == v[k].size
<1>2. /\ n \in Nat \ {0} /\ e \in Nat
      /\ \A j \in 1..n : /\ v[j].id \in Nat /\ v[j].size \in Nat \ {0}
                         /\ v[j].id + v[j].size <= e
  BY BlockNumbers
<1>3. /\ v \in Seq(Blocks) /\ c \in Seq(Names) /\ v[1].name = ImuVar /\ v[1].id = 0
      /\ e = v[n].id + v[n].size
      /\ \A j, l \in 1..n : j < l => v[j].id + v[j].size <= v[l].id
      /\ \A j \in 1..(n - 1) : v[j + 1].id = v[j].id + v[j].size
      /\ \A j \in 1..n : \A r \in 1..v[j].size : c[v[j].id + r] = v[j].name
  BY DEF Layout, InOrderOfIds, Chained, Labelled
<1>4. a \in Nat /\ z \in Nat \ {0} /\ a + z <= e /\ k \in 1..n
  BY <1>1, <1>2
<1>5. /\ d \in Seq(Names) /\ Len(d) = e - z
      /\ \A r \in 1..a : d[r] = c[r]
      /\ \A r \in (a + 1)..Len(d) : d[r] = c[r + z]
  <2>1. d = SubSeq(c, 1, a) \o SubSeq(c, a + z + 1, Len(c))
    BY <1>1
  <2>2. c \in Seq(Names) /\ a \in Nat /\ z \in Nat /\ a + z <= Len(c)
    BY <1>3, <1>4
  <2> HIDE DEF a, z, c, d
  <2>3. CutOut(SubSeq(c, 1, a) \o SubSeq(c, a + z + 1, Len(c)), c, a, z)
    BY <2>2, RowsCut
  <2>4. CutOut(d, c, a, z)
    BY <2>1, <2>3
  <2> QED  BY <2>4 DEF CutOut, e
<1>6. \A j \in 1..(k - 1) : w[j] = v[j] /\ v[j].id + v[j].size <= a
  <2>1. \A j \in 1..(k - 1) : j \in 1..n /\ j < k
    BY <1>2, <1>4
  <2> QED  BY <1>1, <2>1, <1>3, <1>4
<1>7. ASSUME NEW j \in k..(n - 1)
      PROVE  /\ j + 1 \in 1..n
             /\ w[j].id = v[j + 1].id - z /\ w[j].size = v[j + 1].size
             /\ w[j].name = v[j + 1].name /\ a + z <= v[j + 1].id
  <2>1. j + 1 \in 1..n /\ k < j + 1
    BY <1>2, <1>4
  <2>2. v[j + 1] \in Blocks
    BY <2>1, <1>3
  <2>3. w[j] = [v[j + 1] EXCEPT !.id = v[j + 1].id - z]
    BY <1>1
  <2> QED  BY <2>1, <2>2, <2>3, <1>3, <1>4 DEF Blocks
<1>8. w \in Seq(Blocks) /\ Len(w) = n - 1 /\ w[1] = v[1] /\ n > 1
  <2>0. k \in 2..n /\ n \in Nat
    BY <1>1, <1>2
  <2>1. 1 \in 1..(k - 1) /\ n > 1
    BY <2>0
  <2> QED  BY <1>1, <2>1
<1> HIDE DEF v, w, c, d, n, e, a, z, Blocks, Names
<1>9. InOrderOfIds(w)
  <2> SUFFICES ASSUME NEW j \in 1..(n - 1), NEW l \in 1..(n - 1), j < l
               PROVE  w[j].id + w[j].size <= w[l].id
    BY <1>8 DEF InOrderOfIds
  <2>1. CASE l < k
    <3>1. j \in 1..(k - 1) /\ l \in 1..(k - 1) /\ j \in 1..n /\ l \in 1..n
      BY <2>1, <1>2, <1>4
    <3> QED  BY <3>1, <1>3, <1>6
  <2>2. CASE j < k /\ ~(l < k)
    <3>1. j \in 1..(k - 1) /\ l \in k..(n - 1) /\ j \in 1..n
      BY <2>2, <1>2, <1>4
    <3>2. w[j] = v[j] /\ v[j].id + v[j].size <= a /\ w[l].id = v[l + 1].id - z
          /\ a + z <= v[l + 1].id /\ l + 1 \in 1..n
      BY <3>1, <1>6, <1>7
    <3> QED  BY <3>1, <3>2, <1>2, <1>4
  <2>3. CASE ~(j < k)
    <3>1. j \in k..(n - 1) /\ l \in k..(n - 1)
      BY <2>3, <1>2, <1>4
    <3>2. /\ w[j].id = v[j + 1].id - z /\ w[j].size = v[j + 1].size
          /\ w[l].id = v[l + 1].id - z /\ j + 1 \in 1..n /\ l + 1 \in 1..n
      BY <3>1, <1>7
    <3>3. v[j + 1].id + v[j + 1].size <= v[l + 1].id
      BY <3>2, <1>3
    <3> QED  BY <3>2, <3>3, <1>2, <1>4
  <2> QED  BY <2>1, <2>2, <2>3
<1>10. Chained(w)
  <2> SUFFICES ASSUME NEW j \in 1..(n - 2) PROVE w[j + 1].id = w[j].id + w[j].size
    BY <1>2, <1>8 DEF Chained
  <2>1. CASE j + 1 < k
    <3>1. j \in 1..(k - 1) /\ j + 1 \in 1..(k - 1) /\ j \in 1..(n - 1)
      BY <2>1, <1>2, <1>4
    <3> QED  BY <3>1, <1>3, <1>6
  <2>2. CASE j + 1 = k
    <3>1. j \in 1..(k - 1) /\ k \in k..(n - 1) /\ j \in 1..(n - 1) /\ k \in 1..(n - 1)
      BY <2>2, <1>2, <1>4
    <3>2. w[j] = v[j] /\ w[k].id = v[k + 1].id - z /\ k + 1 \in 1..n
      BY <3>1, <1>6, <1>7
    <3>3. v[k + 1].id = a + z /\ a = v[j].id + v[j].size
      BY <2>2, <3>1, <1>3 DEF a, z
    <3> QED  BY <2>2, <3>2, <3>3, <1>4
  <2>3. CASE k < j + 1
    <3>1. j \in k..(n - 1) /\ j + 1 \in k..(n - 1) /\ j + 1 \in 1..(n - 1)
      BY <2>3, <1>2, <1>4
    <3>2. /\ w[j].id = v[j + 1].id - z /\ w[j].size = v[j + 1].size
          /\ w[j + 1].id = v[j + 1 + 1].id - z /\ j + 1 \in 1..n
      BY <3>1, <1>7
    <3>3. v[j + 1 + 1].id = v[j + 1].id + v[j + 1].size
      BY <3>1, <1>3
    <3> QED  BY <3>2, <3>3, <1>2, <1>4
  <2> QED  BY <2>1, <2>2, <2>3, <1>2, <1>4
<1>11. Labelled(w, d)
  <2> SUFFICES ASSUME NEW j \in 1..(n - 1), NEW r \in 1..w[j].size
               PROVE  d[w[j].id + r] = w[j].name
    BY <1>8 DEF Labelled
  <2>1. CASE j < k
    <3>1. j \in 1..(k - 1) /\ j \in 1..n
      BY <2>1, <1>2, <1>4
    <3>2. w[j] = v[j] /\ v[j].id + v[j].size <= a
      BY <3>1, <1>6
    <3>3. v[j].id + r \in 1..a
      BY <3>1, <3>2, <1>2, <1>4
    <3> QED  BY <3>1, <3>2, <3>3, <1>3, <1>5
  <2>2. CASE ~(j < k)
    <3>1. j \in k..(n - 1)
      BY <2>2, <1>2, <1>4
    <3>2. /\ j + 1 \in 1..n /\ w[j].id = v[j + 1].id - z /\ w[j].size = v[j + 1].size
          /\ w[j].name = v[j + 1].name /\ a + z <= v[j + 1].id
      BY <3>1, <1>7
    <3>3. w[j].id + r \in (a + 1)..Len(d) /\ w[j].id + r + z = v[j + 1].id + r
      <4>1. /\ v[j + 1].id \in Nat /\ v[j + 1].size \in Nat
            /\ v[j + 1].id + v[j + 1].size <= e
        BY <3>2, <1>2
      <4>2. r \in 1..v[j + 1].size
        BY <3>2
      <4>3. Len(d) = e - z /\ e \in Nat /\ a \in Nat /\ z \in Nat
        BY <1>2, <1>4, <1>5
      <4> DEFINE h == v[j + 1].id
                 q == w[j].id
                 len == Len(d)
                 sz == v[j + 1].size
      <4>4. /\ h \in Nat /\ sz \in Nat /\ h + sz <= e /\ r \in 1..sz
            /\ q = h - z /\ a + z <= h /\ len = e - z
        BY <3>2, <4>1, <4>2, <4>3
      <4> HIDE DEF h, q, len, sz
      <4>5. q + r \in (a + 1)..len /\ q + r + z = h + r
        BY <4>3, <4>4
      <4> QED  BY <4>5 DEF h, q, len
    <3>4. d[w[j].id + r] = c[v[j + 1].id + r]
      BY <3>3, <1>5
    <3> QED  BY <3>2, <3>4, <1>3
  <2> QED  BY <2>1, <2>2
<1>12. Len(d) = w[n - 1].id + w[n - 1].size
  <2>1. CASE k = n
    <3>1. n - 1 \in 1..(k - 1) /\ n - 1 \in 1..(n - 1) /\ n - 1 + 1 = n
      BY <2>1, <1>2, <1>8
    <3>2. w[n - 1] = v[n - 1] /\ a = v[n - 1].id + v[n - 1].size /\ e = a + z
      BY <2>1, <3>1, <1>3, <1>6 DEF a, z
    <3> QED  BY <3>2, <1>4, <1>5
  <2>2. CASE k # n
    <3>1. n - 1 \in k..(n - 1) /\ n - 1 + 1 = n
      BY <2>2, <1>2, <1>4
    <3>2. w[n - 1].id = v[n].id - z /\ w[n - 1].size = v[n].size /\ n \in 1..n
      BY <3>1, <1>7
    <3>3. v[n].id \in Nat /\ v[n].size \in Nat /\ e = v[n].id + v[n].size
      BY <3>2, <1>2, <1>3
    <3> QED  BY <3>2, <3>3, <1>4, <1>5
  <2> QED  BY <2>1, <2>2
<1>13. Layout(w, d)
  BY <1>2, <1>3, <1>5, <1>8, <1>9, <1>10, <1>11, <1>12 DEF Layout
<1> QED  BY <1>13 DEF w, d

\* A fresh State has the IMU and nothing else.
LEMMA FreshLayout ==
    Layout(<<[name |-> ImuVar, id |-> 0, size |-> ImuSize]>>, Rows(ImuVar, ImuSize))
<1> DEFINE b == [name |-> ImuVar, id |-> 0, size |-> ImuSize]
           v == <<b>>
           c == Rows(ImuVar, ImuSize)
<1>1. b \in Blocks /\ ImuVar \in Names
  BY DEF Blocks, Names
<1>2. v \in Seq(Blocks) /\ Len(v) = 1 /\ v[1] = b
  BY <1>1
<1>3. c \in Seq(Names) /\ Len(c) = ImuSize /\ \A r \in 1..ImuSize : c[r] = ImuVar
  BY <1>1 DEF Rows
<1>4. b.name = ImuVar /\ b.id = 0 /\ b.size = ImuSize
  OBVIOUS
<1> HIDE DEF b, v, c, Blocks, Names, ImuVar
<1>5. InOrderOfIds(v) /\ Chained(v)
  BY <1>2 DEF InOrderOfIds, Chained
<1>6. Labelled(v, c)
  BY <1>2, <1>3, <1>4 DEF Labelled
<1>7. Layout(v, c)
  BY <1>2, <1>3, <1>4, <1>5, <1>6 DEF Layout
<1> QED  BY <1>7 DEF v, c, b

\* A step inserts a clone or a landmark, marginalises one, replaces the State
\* or leaves variables and covariance alone.
LEMMA LayoutSteps ==
    ASSUME [Next]_vars
    PROVE  \/ UNCHANGED <<variables, cov, clones, anchor>>
           \/ \E t \in Times : CommitRecovery(t)
           \/ \E t \in Times : PropagateAndClone(t)
           \/ \E f \in Feats : MarginalizeLandmark(f)
           \/ \E f \in Feats, a \in Times : DelayedInit(f, a)
           \/ UNCHANGED <<variables, cov, clones>> /\ DOMAIN anchor' = DOMAIN anchor
           \/ MarginalizeOldClone /\ Cardinality(clones) > MaxCloneSize
<1> DEFINE Still == UNCHANGED <<variables, cov, clones, anchor>>
<1>1. UNCHANGED vars => Still
  BY DEF vars
<1>2. \A t \in Times : ZeroVelocity(t) => Still
  BY DEF ZeroVelocity
<1>3. SameTimeFrame \/ EkfUpdate => Still
  BY DEF SameTimeFrame, EkfUpdate
<1>4. \A l \in SUBSET Feats : \A dropped \in SUBSET l : SelectFeatures(l, dropped) => Still
  BY DEF SelectFeatures
<1>5. ChangeAnchors => UNCHANGED <<variables, cov, clones>> /\ DOMAIN anchor' = DOMAIN anchor
  BY DEF ChangeAnchors, Slam
<1>6. MarginalizeOldClone /\ ~(Cardinality(clones) > MaxCloneSize) => Still
  BY DEF MarginalizeOldClone
<1> HIDE DEF Still
<1>7. \/ Still
      \/ \E t \in Times : CommitRecovery(t)
      \/ \E t \in Times : PropagateAndClone(t)
      \/ \E f \in Feats : MarginalizeLandmark(f)
      \/ \E f \in Feats, a \in Times : DelayedInit(f, a)
      \/ ChangeAnchors
      \/ MarginalizeOldClone
  BY <1>1, <1>2, <1>3, <1>4 DEF Next
<1> QED  BY <1>5, <1>6, <1>7 DEF Still

\* Every step keeps the layout.
LEMMA LayoutStep ==
    ASSUME Layout(variables, cov), [Next]_vars
    PROVE  Layout(variables', cov')
<1>1. ASSUME UNCHANGED <<variables, cov>> PROVE Layout(variables', cov')
  BY <1>1
<1>2. ASSUME NEW t \in Times, CommitRecovery(t) PROVE Layout(variables', cov')
  BY <1>2, FreshLayout DEF CommitRecovery
<1>3. ASSUME NEW name \in Names, NEW size \in Nat \ {0}, Insert(name, size)
      PROVE  Layout(variables', cov')
  BY <1>3, InsertLayout DEF Insert
<1>4. ASSUME NEW t \in Times, PropagateAndClone(t) PROVE Layout(variables', cov')
  <2>1. CloneVar(t) \in Names
    BY DEF Names, Times
  <2> QED  BY <1>3, <1>4, <2>1 DEF PropagateAndClone
<1>5. ASSUME NEW f \in Feats, NEW a \in Times, DelayedInit(f, a) PROVE Layout(variables', cov')
  <2>1. LandmarkVar(f) \in Names
    BY DEF Names
  <2> QED  BY <1>3, <1>5, <2>1 DEF DelayedInit
<1>6. ASSUME NEW f \in Feats, MarginalizeLandmark(f) PROVE Layout(variables', cov')
  <2>1. LandmarkVar(f) # ImuVar
    BY DEF LandmarkVar, ImuVar
  <2> QED  BY <1>6, <2>1, MarginalizeLayout DEF MarginalizeLandmark
<1>7. ASSUME MarginalizeOldClone, Cardinality(clones) > MaxCloneSize PROVE Layout(variables', cov')
  <2>1. CloneVar(MargTimestep) # ImuVar
    BY DEF CloneVar, ImuVar
  <2> QED  BY <1>7, <2>1, MarginalizeLayout DEF MarginalizeOldClone
<1> QED  BY <1>1, <1>2, <1>4, <1>5, <1>6, <1>7, LayoutSteps

\* Every id points at the rows of its variable, always: no insertion and no
\* marginalisation of clones or landmarks, in any order and of any size, leaves
\* an id behind.
THEOREM CovarianceAlignedAlways == Spec => []CovarianceAligned
<1> DEFINE L == Layout(variables, cov)
<1>1. Init => L
  BY FreshLayout DEF Init, Fresh
<1>2. L /\ [Next]_vars => L'
  BY LayoutStep
<1>3. L => CovarianceAligned
  BY LayoutAligns
<1> HIDE DEF L
<1> QED  BY <1>1, <1>2, <1>3, PTL DEF Spec

-----------------------------------------------------------------------------
\* Variables and maps.

NameSet(v) == {v[k].name : k \in 1..Len(v)}
Distinct(v) == \A j, k \in 1..Len(v) : v[j].name = v[k].name => j = k
Named(c, s) == {ImuVar} \cup {CloneVar(t) : t \in c} \cup {LandmarkVar(f) : f \in s}

\* MapsAgree, in these terms.
Maps == Distinct(variables) /\ NameSet(variables) = Named(clones, Slam)

\* Names of clones and of landmarks tell them apart.
LEMMA NamesDiffer ==
    /\ \A t, u : CloneVar(t) = CloneVar(u) => t = u
    /\ \A f, g : LandmarkVar(f) = LandmarkVar(g) => f = g
    /\ \A t, f : CloneVar(t) # LandmarkVar(f)
    /\ \A t : CloneVar(t) # ImuVar /\ LandmarkVar(t) # ImuVar
BY DEF CloneVar, LandmarkVar, ImuVar

\* Insert adds one name.
LEMMA InsertNames ==
    ASSUME Layout(variables, cov), Distinct(variables),
           NEW name, NEW size, name \notin NameSet(variables), Insert(name, size)
    PROVE  Distinct(variables') /\ NameSet(variables') = NameSet(variables) \cup {name}
<1> DEFINE v == variables
           n == Len(v)
           b == [name |-> name, id |-> Len(cov), size |-> size]
           w == Append(v, b)
<1>1. v \in Seq(Blocks) /\ n \in Nat
  BY DEF Layout
<1>2. Len(w) = n + 1 /\ w[n + 1] = b /\ b.name = name /\ \A k \in 1..n : w[k] = v[k]
  BY <1>1
<1>3. variables' = w
  BY DEF Insert
<1> HIDE DEF v, w, b, n
<1>4. \A k \in 1..n : v[k].name # name
  BY DEF NameSet, v, n
<1>5. \A j, k \in 1..n : v[j].name = v[k].name => j = k
  BY DEF Distinct, v, n
<1>6. Distinct(w)
  <2> SUFFICES ASSUME NEW j \in 1..(n + 1), NEW k \in 1..(n + 1), w[j].name = w[k].name
               PROVE  j = k
    BY <1>2 DEF Distinct
  <2>1. (j \in 1..n \/ j = n + 1) /\ (k \in 1..n \/ k = n + 1)
    BY <1>1
  <2> QED  BY <2>1, <1>2, <1>4, <1>5
<1>7. NameSet(w) = NameSet(v) \cup {name}
  <2>1. 1..(n + 1) = 1..n \cup {n + 1}
    BY <1>1
  <2>2. NameSet(w) = {w[k].name : k \in 1..n} \cup {w[n + 1].name}
    BY <2>1, <1>2 DEF NameSet
  <2>3. {w[k].name : k \in 1..n} = {v[k].name : k \in 1..n}
    BY <1>2
  <2> QED  BY <2>2, <2>3, <1>2 DEF NameSet, n
<1> QED  BY <1>3, <1>6, <1>7 DEF v

\* Marginalize removes one name.
LEMMA MarginalizeNames ==
    ASSUME Layout(variables, cov), Distinct(variables), NEW name, name # ImuVar, Marginalize(name)
    PROVE  Distinct(variables') /\ NameSet(variables') = NameSet(variables) \ {name}
<1> DEFINE v == variables
           w == variables'
           n == Len(v)
<1>1. PICK k \in 2..n :
        LET m == v[k]
        IN  /\ m.name = name
            /\ cov' = SubSeq(cov, 1, m.id) \o SubSeq(cov, m.id + m.size + 1, Len(cov))
            /\ w \in Seq(Blocks) /\ Len(w) = n - 1
            /\ \A j \in 1..(k - 1) : w[j] = v[j]
            /\ \A j \in k..(n - 1) : w[j] = [v[j + 1] EXCEPT !.id = v[j + 1].id - m.size]
  BY MarginalizeMoves
<1>2. n \in Nat /\ v \in Seq(Blocks) /\ k \in 1..n
  BY DEF Layout
\* Where each block of w was.
<1> DEFINE from(j) == IF j < k THEN j ELSE j + 1
<1>3. ASSUME NEW j \in 1..(n - 1) PROVE from(j) \in 1..n /\ from(j) # k /\ w[j].name = v[from(j)].name
  <2>1. CASE j < k
    <3>1. j \in 1..(k - 1) /\ j \in 1..n /\ from(j) = j /\ j # k
      BY <2>1, <1>2
    <3>2. w[j] = v[j]
      BY <3>1, <1>1
    <3> QED  BY <3>1, <3>2
  <2>2. CASE ~(j < k)
    <3>1. j \in k..(n - 1) /\ j + 1 \in 1..n /\ from(j) = j + 1
      BY <2>2, <1>2
    <3>2. v[j + 1] \in Blocks
      BY <3>1, <1>2
    <3>3. w[j].name = v[j + 1].name
      BY <3>1, <3>2, <1>1 DEF Blocks
    <3> QED  BY <2>2, <3>1, <3>3, <1>2
  <2> QED  BY <2>1, <2>2
<1>4. ASSUME NEW m \in 1..n, m # k PROVE \E j \in 1..(n - 1) : from(j) = m
  <2>1. CASE m < k
    BY <2>1, <1>2
  <2>2. CASE k < m
    <3>1. m - 1 \in 1..(n - 1) /\ ~(m - 1 < k) /\ m - 1 + 1 = m
      BY <2>2, <1>2
    <3> QED  BY <3>1
  <2> QED  BY <1>4, <2>1, <2>2, <1>2
<1>5. \A m, j \in 1..(n - 1) : from(m) = from(j) => m = j
  BY <1>2
<1>6. Len(w) = n - 1 /\ v[k].name = name
  BY <1>1
<1> HIDE DEF v, w, n, from
<1>7. \A m, j \in 1..n : v[m].name = v[j].name => m = j
  BY DEF Distinct, v, n
<1>8. Distinct(w)
  BY <1>3, <1>5, <1>6, <1>7 DEF Distinct
<1>9. NameSet(w) \subseteq NameSet(v) \ {name}
  BY <1>2, <1>3, <1>6, <1>7 DEF NameSet, n
<1>10. NameSet(v) \ {name} \subseteq NameSet(w)
  <2> SUFFICES ASSUME NEW m \in 1..n, v[m].name # name PROVE v[m].name \in NameSet(w)
    BY DEF NameSet, n
  <2>1. PICK j \in 1..(n - 1) : from(j) = m
    BY <1>4, <1>6
  <2>2. w[j].name = v[m].name
    BY <1>3, <2>1
  <2> QED  BY <2>1, <2>2, <1>6 DEF NameSet
<1> QED  BY <1>8, <1>9, <1>10 DEF v, w

\* Every step keeps variables and maps together.
LEMMA MapsStep ==
    ASSUME Layout(variables, cov), Window, Maps, [Next]_vars
    PROVE  Distinct(variables') /\ NameSet(variables') = Named(clones', Slam')
<1> DEFINE Goal == Distinct(variables') /\ NameSet(variables') = Named(clones', Slam')
<1>m. Distinct(variables) /\ NameSet(variables) = Named(clones, Slam)
  BY DEF Maps
<1>1. ASSUME UNCHANGED <<variables, clones>>, DOMAIN anchor' = DOMAIN anchor PROVE Goal
  BY <1>m, <1>1 DEF Slam
<1>2. ASSUME NEW t \in Times, CommitRecovery(t) PROVE Goal
  <2>1. variables' = <<[name |-> ImuVar, id |-> 0, size |-> ImuSize]>> /\ clones' = {} /\ Slam' = {}
    BY <1>2 DEF CommitRecovery, Slam
  <2>2. Len(variables') = 1 /\ variables'[1].name = ImuVar
    BY <2>1
  <2>3. 1..1 = {1}
    OBVIOUS
  <2> QED  BY <2>1, <2>2, <2>3 DEF Distinct, NameSet, Named
<1>3. ASSUME NEW t \in Times, PropagateAndClone(t) PROVE Goal
  <2>1. t \notin clones
    BY <1>3 DEF PropagateAndClone, Window, Times
  <2>n. /\ CloneVar(t) \notin Named(clones, Slam)
        /\ Named(clones \cup {t}, Slam) = Named(clones, Slam) \cup {CloneVar(t)}
    BY <2>1, NamesDiffer DEF Named
  <2>2. CloneVar(t) \notin NameSet(variables)
    BY <1>m, <2>n, Zenon
  <2>3. Insert(CloneVar(t), PoseSize) /\ clones' = clones \cup {t} /\ Slam' = Slam
    BY <1>3 DEF PropagateAndClone, Slam
  <2>4. Distinct(variables') /\ NameSet(variables') = NameSet(variables) \cup {CloneVar(t)}
    BY <1>m, <2>2, <2>3, InsertNames
  <2> QED  BY <1>m, <2>3, <2>4, <2>n, Zenon
<1>4. ASSUME NEW f \in Feats, NEW a \in Times, DelayedInit(f, a) PROVE Goal
  <2>n. /\ LandmarkVar(f) \notin Named(clones, Slam)
        /\ Named(clones, Slam \cup {f}) = Named(clones, Slam) \cup {LandmarkVar(f)}
    BY <1>4, NamesDiffer DEF DelayedInit, Named
  <2>1. LandmarkVar(f) \notin NameSet(variables)
    BY <1>m, <2>n, Zenon
  <2>2. Insert(LandmarkVar(f), LandmarkSize) /\ clones' = clones /\ Slam' = Slam \cup {f}
    BY <1>4 DEF DelayedInit, Slam
  <2>3. Distinct(variables') /\ NameSet(variables') = NameSet(variables) \cup {LandmarkVar(f)}
    BY <1>m, <2>1, <2>2, InsertNames
  <2> QED  BY <1>m, <2>2, <2>3, <2>n, Zenon
<1>5. ASSUME NEW f \in Feats, MarginalizeLandmark(f) PROVE Goal
  <2>1. Marginalize(LandmarkVar(f)) /\ clones' = clones /\ Slam' = Slam \ {f}
    BY <1>5 DEF MarginalizeLandmark, Slam
  <2>2. Distinct(variables') /\ NameSet(variables') = NameSet(variables) \ {LandmarkVar(f)}
    BY <1>m, <2>1, MarginalizeNames, NamesDiffer
  <2>3. Named(clones, Slam \ {f}) = Named(clones, Slam) \ {LandmarkVar(f)}
    BY NamesDiffer DEF Named
  <2> QED  BY <1>m, <2>1, <2>2, <2>3, Zenon
<1>6. ASSUME MarginalizeOldClone, Cardinality(clones) > MaxCloneSize PROVE Goal
  <2> DEFINE o == MargTimestep
  <2>1. Marginalize(CloneVar(o)) /\ clones' = clones \ {o} /\ Slam' = Slam
    BY <1>6 DEF MarginalizeOldClone, Slam
  <2> HIDE DEF o
  <2>2. Distinct(variables') /\ NameSet(variables') = NameSet(variables) \ {CloneVar(o)}
    BY <1>m, <2>1, MarginalizeNames, NamesDiffer
  <2>3. Named(clones \ {o}, Slam) = Named(clones, Slam) \ {CloneVar(o)}
    BY NamesDiffer DEF Named
  <2> QED  BY <1>m, <2>1, <2>2, <2>3, Zenon
<1>7. Goal
  <2> HIDE DEF Goal
  <2> QED  BY <1>1, <1>2, <1>3, <1>4, <1>5, <1>6, LayoutSteps
<1> QED  BY <1>7

\* _variables, _clones_IMU and _features_SLAM name the same clones and
\* landmarks, each once, in every reachable state.
THEOREM MapsAgreeAlways == Spec => []MapsAgree
<1> DEFINE L == Layout(variables, cov)
<1>1. Init => L /\ Window /\ Maps
  <2> SUFFICES ASSUME Init PROVE L /\ Window /\ Maps
    OBVIOUS
  <2>1. L
    BY FreshLayout DEF Init, Fresh
  <2>2. Window
    BY FS_EmptySet DEF Init, Fresh, Window
  <2>3. variables = <<[name |-> ImuVar, id |-> 0, size |-> ImuSize]>> /\ clones = {} /\ Slam = {}
    BY DEF Init, Fresh, Slam
  <2>4. Len(variables) = 1 /\ variables[1].name = ImuVar /\ 1..1 = {1}
    BY <2>3
  <2> QED  BY <2>1, <2>2, <2>3, <2>4 DEF Maps, Distinct, NameSet, Named
<1>2. L /\ Window /\ Maps /\ [Next]_vars => (L /\ Window /\ Maps)'
  BY LayoutStep, WindowStep, MapsStep DEF Maps
<1>3. L /\ Maps => MapsAgree
  BY BlockNumbers DEF Maps, MapsAgree, Distinct, NameSet, Named
<1> HIDE DEF L
<1> QED  BY <1>1, <1>2, <1>3, PTL DEF Spec
=============================================================================
