----------------------------- MODULE CarmenRobot -----------------------------
(***************************************************************************)
(* The handlers of CARMEN's robot server (src/src/robot), the last-mile     *)
(* collision avoidance between the clients that ask for motion and the base *)
(* that drives the wheels.                                                  *)
(*                                                                          *)
(* The server is single-threaded: a message handler or a round of the main  *)
(* loop runs to its end before the next.  Each is an operator from the      *)
(* server's state, a record, to [robot, out]: the state it leaves and the   *)
(* velocity it publishes to the base, as a sequence of at most one.         *)
(*                                                                          *)
(* Velocities and distances are small integers; a distance below half the   *)
(* approach distance is 0, one below the approach distance is at most Near. *)
(* Modelled is the configuration with collision avoidance and lasers on,    *)
(* sonar, bumper and the 3d controller off.                                 *)
(***************************************************************************)
EXTENDS Integers, Sequences

CONSTANTS
  MaxTv,          \* robot_max_t_vel
  MaxRv,          \* robot_max_r_vel
  AllowRear,      \* robot_allow_rear_motion
  SensorTimeout,  \* robot_sensor_timeout, in rounds of the main loops
  Near,           \* the approach distance
  MaxGone         \* bound: distances covered are not told apart above

ASSUME RobotAssumption ==
  /\ MaxTv \in Nat \ {0} /\ MaxRv \in Nat
  /\ AllowRear \in BOOLEAN
  /\ SensorTimeout \in Nat /\ Near \in Nat /\ MaxGone \in Nat

Velocity == [tv : -MaxTv .. MaxTv, rv : -MaxRv .. MaxRv]
Zero == [tv |-> 0, rv |-> 0]

\* The messages clients send.
Message ==
  [name : {"velocity"}, tv : Int, rv : Int]
    \cup [name : {"vector"}, distance : Int]
    \cup [name : {"follow"}, length : Nat, distance : Nat, sameGoal : BOOLEAN]

\* A vector is followed with the target straight ahead, almost so, off to the side,
\* or so far off that the robot turns on the spot first.
Headings == {"ahead", "slant", "arc", "turn"}

\* No laser message has been handled yet.
Never == -1

RobotState ==
  [tv : Int, rv : Int,            \* command_tv, command_rv
   following : BOOLEAN,           \* following_vector
   byVector : BOOLEAN,            \* following was started by a vector move
   final : BOOLEAN,               \* goal_is_final
   aligning : BOOLEAN,
   distance : Int,                \* vector_distance
   gone : -MaxGone .. MaxGone,    \* way from start_position, backwards below 0
   front : 0 .. MaxTv,            \* max_front_velocity
   rear : -MaxTv .. 0,            \* min_rear_velocity
   odomTv : Int,                  \* carmen_robot_latest_odometry.tv
   sensorAge : -1 .. SensorTimeout + 1]

RobotStart ==
  [tv |-> 0, rv |-> 0, following |-> FALSE, byVector |-> FALSE,
   final |-> TRUE, aligning |-> FALSE, distance |-> 0, gone |-> 0,
   front |-> 0, rear |-> 0, odomTv |-> 0, sensorAge |-> Never]

-----------------------------------------------------------------------------

Clamp(low, x, high) == IF x < low THEN low ELSE IF x > high THEN high ELSE x

Magnitude(x) == IF x < 0 THEN -x ELSE x

Quiet(r) == [robot |-> r, out |-> <<>>]

\* The translational command is cut to the limits the lasers leave, and the
\* cut one is kept as the command.
LimitedTv_Unlimited(r) == r.tv
LimitedTv(r) ==
  LET clamped == Clamp(r.rear, r.tv, r.front)
  IN  IF ~AllowRear /\ clamped < 0 THEN 0 ELSE clamped

SendBaseVelocity(r) ==
  LET limited == [r EXCEPT !.tv = LimitedTv(r)]
  IN  [robot |-> limited,
       out |-> <<[tv |-> Clamp(-MaxTv, limited.tv, MaxTv),
                  rv |-> Clamp(-MaxRv, limited.rv, MaxRv)]>>]

\* following_vector = 0.  The vector is not read again before it is set anew.
Unfollow(r) == [r EXCEPT !.following = FALSE, !.byVector = FALSE,
                         !.distance = 0, !.gone = 0]

StopRobot(r, allowRotate) ==
  SendBaseVelocity(
    [Unfollow(r) EXCEPT !.tv = 0,
                        !.rv = IF allowRotate /\ ~r.following THEN @ ELSE 0])

VelocityHandler(r, msg) ==
  SendBaseVelocity([Unfollow(r) EXCEPT !.tv = msg.tv, !.rv = msg.rv])

\* The way left: from the start it counts the same forwards and backwards, so a
\* robot that backs away from its target believes to come closer.
Displacement(r) ==
  IF r.distance = 0 THEN 0 ELSE r.distance - Magnitude(r.gone)

Half(x) == IF x < 0 THEN -(-x \div 2) ELSE x \div 2

\* The rotational command, with the target to the left.
HeadingRv(heading) ==
  CASE heading = "ahead" -> 0
    [] heading = "slant" -> MaxRv \div 4
    [] OTHER             -> MaxRv

\* The translational command towards a target that is ahead, more or less.
ApproachTv(r) ==
  IF ~r.final THEN MaxTv
  ELSE IF r.distance # 0 /\ Displacement(r) = 0 THEN -Half(r.odomTv)
  ELSE Displacement(r)

FollowVector(r, heading) ==
  IF heading = "ahead" /\ Magnitude(Displacement(r)) <= Near /\ r.aligning
    THEN StopRobot([Unfollow(r) EXCEPT !.rv = 0], FALSE)
    ELSE SendBaseVelocity(
           [r EXCEPT !.rv = HeadingRv(heading),
                     !.tv = CASE heading = "turn" -> 0
                              [] heading = "arc"  -> Magnitude(Displacement(r))
                              [] OTHER            -> ApproachTv(r)])

VectorMoveHandler(r, msg, heading) ==
  FollowVector([r EXCEPT !.following = TRUE, !.byVector = TRUE,
                         !.distance = msg.distance, !.gone = 0],
               heading)

\* The first point of the trajectory is followed; with the robot close to it, and
\* closer still if it is a new one, the robot turns into its orientation.
Aligns(r, msg) ==
  \/ msg.distance = 0
  \/ msg.distance <= Near /\ msg.sameGoal /\ r.aligning

FollowTrajectoryHandler(r, msg, heading) ==
  IF msg.length = 0
    THEN Quiet(r)
    ELSE FollowVector([r EXCEPT !.following = TRUE, !.byVector = FALSE,
                                !.distance = msg.distance, !.gone = 0,
                                !.final = (msg.length = 1),
                                !.aligning = Aligns(r, msg)],
                      heading)

Handle(r, msg, heading) ==
  CASE msg.name = "velocity" -> VelocityHandler(r, msg)
    [] msg.name = "vector"   -> VectorMoveHandler(r, msg, heading)
    [] msg.name = "follow"   -> FollowTrajectoryHandler(r, msg, heading)

-----------------------------------------------------------------------------

\* The odometry of the base: tv is the speed it reports, and the robot has moved
\* some way along its vector.  A robot that is faster than the lasers allow, and is
\* meant to be, is slowed down or stopped.
Moved(r, tv, way) ==
  [r EXCEPT !.odomTv = tv,
            !.gone = IF r.following THEN Clamp(-MaxGone, @ + way, MaxGone) ELSE @]

TooFastForward(r) == r.odomTv > 0 /\ r.front < r.odomTv /\ r.tv > r.front
TooFastBackward(r) == r.odomTv < 0 /\ r.rear > r.odomTv /\ r.tv < r.rear

OdometryHandler(r0, tv, way) ==
  LET r == Moved(r0, tv, way) IN
  IF TooFastForward(r)
    THEN IF r.front <= 0 THEN StopRobot(r, TRUE)
                         ELSE SendBaseVelocity([r EXCEPT !.tv = r.front])
  ELSE IF TooFastBackward(r)
    THEN IF r.rear >= 0 THEN StopRobot(r, TRUE)
                        ELSE SendBaseVelocity([r EXCEPT !.tv = r.rear])
  ELSE Quiet(r)

\* A laser scan.  Scans that follow each other too fast only count as a sign of
\* life.  The stop is published before the new limit is in force.
FrontLaserHandler(r0, limit, throttled) ==
  LET r == [r0 EXCEPT !.sensorAge = 0]
      done == IF limit <= 0 /\ r.odomTv > 0 THEN StopRobot(r, TRUE) ELSE Quiet(r)
  IN  IF throttled THEN Quiet(r) ELSE [done EXCEPT !.robot.front = limit]

RearLaserHandler(r0, limit, throttled) ==
  LET r == [r0 EXCEPT !.sensorAge = 0]
      done == IF limit >= 0 /\ r.odomTv < 0 THEN StopRobot(r, TRUE) ELSE Quiet(r)
  IN  IF throttled THEN Quiet(r) ELSE [done EXCEPT !.robot.rear = limit]

-----------------------------------------------------------------------------

SensorTimedOut(r) == r.sensorAge > SensorTimeout

\* One round of the main loop, carmen_robot_run.
RobotRun(r, heading) ==
  IF SensorTimedOut(r) THEN StopRobot(r, FALSE)
  ELSE IF r.following THEN FollowVector(r, heading)
  ELSE Quiet(r)

RobotAges(r) ==
  IF r.sensorAge = Never \/ SensorTimedOut(r) THEN r
  ELSE [r EXCEPT !.sensorAge = @ + 1]
=============================================================================
