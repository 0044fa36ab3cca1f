-------------------------------- MODULE Drive --------------------------------
(***************************************************************************)
(* The robot server and the base together, with the clients that command    *)
(* the robot, the lasers and the clock.                                     *)
(*                                                                          *)
(* Between the two processes central keeps the newest velocity that waits   *)
(* for the base and the newest odometry that waits for the robot server     *)
(* (IPC_setMsgQueueLength 1, CARMEN_SUBSCRIBE_LATEST).  The clock advances  *)
(* in rounds of the main loops, 0.1 s in the code: in each both loops run   *)
(* once and handle what waits for them, unless the process is gone or the   *)
(* base is held up by the hardware.                                         *)
(***************************************************************************)
EXTENDS CarmenBase

CONSTANTS
  Commands,      \* the messages clients may send to the robot server
  FrontLimits,   \* velocities the front laser may leave
  RearLimits     \* and the rear laser; {} without one

ASSUME DriveAssumption ==
  /\ Commands \subseteq Message
  /\ FrontLimits \subseteq 0 .. MaxTv
  /\ RearLimits \subseteq -MaxTv .. 0

VARIABLES
  robot,         \* the state of the robot server, or what a new one starts with
  robotUp,
  toBase,        \* the velocity that waits for the base: a sequence, at most one
  toRobot,       \* the odometry that waits for the robot server, likewise
  robotRan,      \* the main loop of the robot server has run in this round
  baseRan,       \* and that of the base
  failing,       \* the call the base is in has failed
  asked,         \* history: the last velocity the robot server published,
  askedAge,      \*   and when it was published, up to MotionTimeout + 2 rounds
  disturbed,     \* history: a call was failing then, or has failed since
  blocked        \* history: rounds the way ahead has been blocked with the robot
                 \*   server and the base at work, up to 2

vars == <<baseVars, robot, robotUp, toBase, toRobot, robotRan, baseRan, failing,
          asked, askedAge, disturbed, blocked>>

DriveTypeOK ==
  /\ BaseTypeOK
  /\ robot \in RobotState
  /\ robotUp \in BOOLEAN
  /\ toBase \in {<<>>} \cup {<<v>> : v \in Velocity}
  /\ toRobot \in {<<>>} \cup {<<tv>> : tv \in -MaxTv .. MaxTv}
  /\ robotRan \in BOOLEAN /\ baseRan \in BOOLEAN
  /\ failing \in BOOLEAN /\ disturbed \in BOOLEAN
  /\ asked \in Velocity
  /\ askedAge \in 0 .. MotionTimeout + 2
  /\ blocked \in 0 .. 2

Init ==
  /\ BaseInit
  /\ robot = RobotStart
  /\ robotUp = TRUE
  /\ toBase = <<>> /\ toRobot = <<>>
  /\ robotRan = FALSE /\ baseRan = FALSE
  /\ failing = FALSE /\ disturbed = FALSE
  /\ asked = Zero /\ askedAge = 0
  /\ blocked = 0

BaseGone == at \in {"down", "hung"}

-----------------------------------------------------------------------------
(* The robot server. *)

\* A handler's effect: what it publishes takes the place of what waits for the
\* base; central has nobody to keep it for while the base is down.
Does_KeepsOldest(result) ==
  /\ robot' = result.robot
  /\ IF result.out = <<>>
       THEN UNCHANGED <<toBase, asked, askedAge, disturbed>>
       ELSE /\ toBase' = IF at = "down" THEN <<>>
                         ELSE IF toBase = <<>> THEN result.out ELSE toBase
            /\ asked' = result.out[1]
            /\ askedAge' = 0
            /\ disturbed' = failing
Does(result) ==
  /\ robot' = result.robot
  /\ IF result.out = <<>>
       THEN UNCHANGED <<toBase, asked, askedAge, disturbed>>
       ELSE /\ toBase' = IF at = "down" THEN <<>> ELSE result.out
            /\ asked' = result.out[1]
            /\ askedAge' = 0
            /\ disturbed' = failing

ClientCommand ==
  /\ robotUp
  /\ \E msg \in Commands, heading \in Headings : Does(Handle(robot, msg, heading))
  /\ UNCHANGED <<baseVars, robotUp, toRobot, robotRan, baseRan, failing>>

Scan ==
  /\ robotUp
  /\ \E throttled \in BOOLEAN :
       \/ \E limit \in FrontLimits : Does(FrontLaserHandler(robot, limit, throttled))
       \/ \E limit \in RearLimits : Does(RearLaserHandler(robot, limit, throttled))
  /\ UNCHANGED <<baseVars, robotUp, toRobot, robotRan, baseRan, failing>>

OdometryArrives ==
  /\ robotUp /\ toRobot # <<>>
  /\ \E way \in {0, toRobot[1]} : Does(OdometryHandler(robot, toRobot[1], way))
  /\ toRobot' = <<>>
  /\ UNCHANGED <<baseVars, robotUp, robotRan, baseRan, failing>>

RobotRound ==
  /\ robotUp /\ ~robotRan
  /\ robotRan' = TRUE
  /\ \E heading \in Headings : Does(RobotRun(robot, heading))
  /\ UNCHANGED <<baseVars, robotUp, toRobot, baseRan, failing>>

\* SIGINT: the robot is stopped on the way out.
RobotShutdown ==
  /\ robotUp
  /\ robotUp' = FALSE
  /\ toRobot' = <<>>
  /\ Does([StopRobot(robot, FALSE) EXCEPT !.robot = RobotStart])
  /\ UNCHANGED <<baseVars, robotRan, baseRan, failing>>

\* Any other end of the process.
RobotKilled ==
  /\ robotUp
  /\ robotUp' = FALSE
  /\ toRobot' = <<>>
  /\ Does(Quiet(RobotStart))
  /\ UNCHANGED <<baseVars, robotRan, baseRan, failing>>

RobotStarts ==
  /\ ~robotUp
  /\ robotUp' = TRUE
  /\ UNCHANGED <<baseVars, robot, toBase, toRobot, robotRan, baseRan, failing,
                 asked, askedAge, disturbed>>

-----------------------------------------------------------------------------
(* The base. *)

BaseTakesVelocity ==
  /\ toBase # <<>>
  /\ TakeVelocity(toBase[1])
  /\ toBase' = <<>>
  /\ UNCHANGED <<robot, robotUp, toRobot, robotRan, baseRan, failing, asked,
                 askedAge, disturbed>>

BaseTakesDirect ==
  /\ TakeDirect
  /\ UNCHANGED <<robot, robotUp, toBase, toRobot, robotRan, baseRan, failing,
                 asked, askedAge, disturbed>>

BaseRound ==
  /\ ~baseRan
  /\ baseRan' = TRUE
  /\ AnnounceReset \/ StartRound
  /\ UNCHANGED <<robot, robotUp, toBase, toRobot, robotRan, failing, asked,
                 askedAge, disturbed>>

\* At the end of a round the odometry is published, unless the driver has no new
\* data; the motors have come to the speed they are set to.
BaseCallSucceeds ==
  /\ CallSucceeds
  /\ failing' = FALSE
  /\ \/ at = "status" /\ robotUp /\ toRobot' = <<motors.tv>>
     \/ UNCHANGED toRobot
  /\ UNCHANGED <<robot, robotUp, toBase, robotRan, baseRan, asked, askedAge,
                 disturbed>>

BaseCallFails ==
  /\ CallFails
  /\ failing' = TRUE
  /\ disturbed' = TRUE
  /\ UNCHANGED <<robot, robotUp, toBase, toRobot, robotRan, baseRan, asked,
                 askedAge>>

\* Central drops what waits for a module that has gone.
BaseEnds ==
  /\ \/ BaseDies /\ toBase' = <<>>
     \/ BaseFaults /\ UNCHANGED toBase
  /\ failing' = FALSE
  /\ UNCHANGED <<robot, robotUp, toRobot, robotRan, baseRan, asked, askedAge,
                 disturbed>>

BaseRestarts ==
  /\ BaseStarts
  /\ UNCHANGED <<robot, robotUp, toBase, toRobot, robotRan, baseRan, failing,
                 asked, askedAge, disturbed>>

-----------------------------------------------------------------------------

Tick ==
  /\ robotUp => robotRan /\ toRobot = <<>>
  /\ at = "idle" => baseRan /\ toBase = <<>>
  /\ at \in Calls => failing
  /\ robotRan' = FALSE /\ baseRan' = FALSE
  /\ robot' = RobotAges(robot)
  /\ BaseAges
  /\ askedAge' = IF askedAge = MotionTimeout + 2 THEN askedAge ELSE askedAge + 1
  /\ UNCHANGED <<robotUp, toBase, toRobot, failing, asked, disturbed>>

\* The robot server and the base are at work, nothing fails, and the way is blocked.
\* A robot server started anew does not know of the velocity published before.
Blocked ==
  /\ robotUp /\ robot.front = 0
  /\ asked.tv > 0 => robot.tv > 0
  /\ ~BaseGone /\ commanded
  /\ ~failing /\ ~resetDue

\* The driver had no new data at the end of the base's round.
NoOdometry == at = "status" /\ at' = "idle" /\ toRobot' = <<>>

Step ==
  \/ ClientCommand \/ Scan \/ OdometryArrives \/ RobotRound
  \/ RobotShutdown \/ RobotKilled \/ RobotStarts
  \/ BaseTakesVelocity \/ BaseTakesDirect \/ BaseRound
  \/ BaseCallSucceeds \/ BaseCallFails \/ BaseEnds \/ BaseRestarts

Next ==
  \/ Step /\ blocked' = IF Blocked' /\ ~NoOdometry THEN blocked ELSE 0
  \/ Tick /\ blocked' = IF ~Blocked' THEN 0 ELSE IF blocked = 2 THEN 2 ELSE blocked + 1

Spec == Init /\ [][Next]_vars

-----------------------------------------------------------------------------
(* Properties. *)

\* A base that takes the robot to stand still (not moving) has stopped the motors,
\* once it has set a velocity at all: otherwise its motion time-out, which asks
\* moving first, would never stop them.
StandsStill == at = "idle" /\ commanded /\ ~moving => motors = Zero

\* The motors obey the newest velocity the robot server published, or have been
\* stopped, whenever the base has nothing left to handle: a velocity that was
\* replaced in central, or that a failing driver held up, does not stay in force.
ObeysLast ==
  at = "idle" /\ commanded /\ toBase = <<>> => motors \in {Zero, asked}

\* While the driver answers, the motors run at most one round longer than the
\* motion time-out after the last velocity was published, whatever became of
\* the robot server and its clients.
MotionBounded ==
  at = "idle" /\ commanded /\ motors # Zero /\ ~disturbed
    => askedAge <= MotionTimeout + 1

\* An obstacle that stays in front of the robot has stopped it one full round after the
\* round in which it was seen, even if the robot was still at rest when the scan was
\* handled, and however the clients and the vector in progress go on; as long as the
\* driver works and reports the odometry, and the robot server was not started anew
\* since the motors were set (the motion time-out alone stops them then).
ObstacleStops == blocked = 2 /\ at = "idle" => motors.tv <= 0

=============================================================================
