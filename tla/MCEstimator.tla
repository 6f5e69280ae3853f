---------------------------- MODULE MCEstimator ----------------------------
(* The parts of Estimator, each on its own: a behaviour is one of one part,  *)
(* the others keep an initial state.                                         *)
EXTENDS Estimator

VARIABLE part

suite == <<part, vars, selection, camera, odometry>>

MCTicks == 0..5
\* One stream whose frames must be fed.
Stream == INSTANCE CameraPipeline WITH Cams <- {0}, Modes <- {TRUE}, MaxTime <- FrameTime + 1

SuiteInit ==
    /\ part \in {"window", "selection", "streams", "stream", "odometry"}
    /\ Init /\ Odometry!Init
    /\ Selection!Init /\ (part # "selection" => imu_data = <<>> /\ time0 = 0 /\ time1 = 1)
    /\ IF part = "stream" THEN Stream!Init ELSE Streams!Init
    /\ part # "streams" => threaded
Step(p, next) == part = p /\ next /\ UNCHANGED part
SuiteNext ==
    \/ Step("window", Next) /\ UNCHANGED <<selection, camera, odometry>>
    \/ Step("selection", Selection!Next) /\ UNCHANGED <<vars, camera, odometry>>
    \/ Step("streams", Streams!Next) /\ UNCHANGED <<vars, selection, odometry>>
    \/ Step("stream", Stream!Next) /\ UNCHANGED <<vars, selection, odometry>>
    \/ Step("odometry", Odometry!Next) /\ UNCHANGED <<vars, selection, camera>>

\* The fairness of CameraPipeline's LiveSpec.
Others == UNCHANGED <<vars, selection, odometry>>
SuiteSpec ==
    /\ SuiteInit /\ [][SuiteNext]_suite
    /\ WF_suite(Step("stream", \E r \in Stream!Times : Stream!ReceiveImu(r)) /\ Others)
    /\ WF_suite(Step("stream", Stream!Callback) /\ Others)
    /\ WF_suite(Step("stream", Stream!UpdateThread) /\ Others)
    /\ WF_suite(Step("stream", Stream!DecodeFails(0) \/ Stream!Enqueue(0)) /\ Others)

\* CameraPipeline: while the IMU runs, every queued frame is eventually fed, also
\* after an update that threw (the update thread of callback_inertial).
QueueDrains ==
    \A f \in Stream!Frames : (part = "stream" /\ f \in accepted) ~> (f \in Stream!FedSet \/ failed)
=============================================================================
