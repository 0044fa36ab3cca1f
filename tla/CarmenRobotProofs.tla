-------------------------- MODULE CarmenRobotProofs --------------------------
(***************************************************************************)
(* The handlers of the robot server map its states to its states and publish *)
(* velocities within the limits, for every speed limit and every message.    *)
(* DriveProofs and MotionProofs rest on it.                                  *)
(***************************************************************************)
EXTENDS CarmenRobot, TLAPS

-----------------------------------------------------------------------------
Published == {<<>>} \cup {<<v>> : v \in Velocity}

Result == [robot : RobotState, out : Published]

\* A record with the fields of a state is a state: the provers take a handler's
\* EXCEPT of several fields apart field by field.
AsRecord(s) ==
  [tv |-> s.tv, rv |-> s.rv, following |-> s.following, byVector |-> s.byVector,
   final |-> s.final, aligning |-> s.aligning, distance |-> s.distance,
   gone |-> s.gone, front |-> s.front, rear |-> s.rear, odomTv |-> s.odomTv,
   sensorAge |-> s.sensorAge]

Fields(s) ==
  /\ s.tv \in Int /\ s.rv \in Int
  /\ s.following \in BOOLEAN /\ s.byVector \in BOOLEAN
  /\ s.final \in BOOLEAN /\ s.aligning \in BOOLEAN
  /\ s.distance \in Int /\ s.gone \in -MaxGone .. MaxGone
  /\ s.front \in 0 .. MaxTv /\ s.rear \in -MaxTv .. 0
  /\ s.odomTv \in Int /\ s.sensorAge \in -1 .. SensorTimeout + 1

\* A state is the record of its fields, and each has its type.
LEMMA FieldsOfState ==
  ASSUME NEW r \in RobotState
  PROVE  r = AsRecord(r) /\ Fields(r)
BY DEF RobotState, AsRecord, Fields

\* And conversely.
LEMMA StateOfFields ==
  ASSUME NEW s, s = AsRecord(s), Fields(s)
  PROVE  s \in RobotState
BY DEF RobotState, AsRecord, Fields

\* A handler that publishes nothing leaves a result of the right form.
LEMMA QuietType ==
  ASSUME NEW r \in RobotState
  PROVE  Quiet(r) \in Result
BY DEF Quiet, Result, Published

\* Clamp stays within its bounds, if there is anything within them.
LEMMA ClampRange ==
  ASSUME NEW low \in Int, NEW x \in Int, NEW high \in Int, low <= high
  PROVE  Clamp(low, x, high) \in low .. high
BY DEF Clamp

\* The limited command is a number.
LEMMA LimitedTvType ==
  ASSUME NEW r \in RobotState
  PROVE  LimitedTv(r) \in Int
BY ClampRange DEF LimitedTv, RobotState, Clamp

\* What is sent to the base is within the limits of the robot.
LEMMA SendType ==
  ASSUME NEW r \in RobotState
  PROVE  SendBaseVelocity(r) \in Result
<1> DEFINE limited == [r EXCEPT !.tv = LimitedTv(r)]
           v == [tv |-> Clamp(-MaxTv, limited.tv, MaxTv),
                 rv |-> Clamp(-MaxRv, limited.rv, MaxRv)]
<1>1. limited \in RobotState
  BY LimitedTvType DEF RobotState
<1>2. limited.tv \in Int /\ limited.rv \in Int
  BY <1>1 DEF RobotState
<1>3. v \in Velocity
  <2> HIDE DEF limited
  <2>1. Clamp(-MaxTv, limited.tv, MaxTv) \in -MaxTv .. MaxTv
    BY <1>2, RobotAssumption DEF Clamp
  <2>2. Clamp(-MaxRv, limited.rv, MaxRv) \in -MaxRv .. MaxRv
    BY <1>2, RobotAssumption DEF Clamp
  <2> QED BY <2>1, <2>2 DEF Velocity
<1>4. SendBaseVelocity(r) = [robot |-> limited, out |-> <<v>>]
  BY DEF SendBaseVelocity
<1> HIDE DEF limited, v
<1> QED BY <1>1, <1>3, <1>4 DEF Result, Published

\* Giving up the vector, and stopping.
LEMMA UnfollowType ==
  ASSUME NEW r \in RobotState
  PROVE  Unfollow(r) \in RobotState
<1> PICK s : s = [r EXCEPT !.following = FALSE, !.byVector = FALSE,
                         !.distance = 0, !.gone = 0]
  OBVIOUS
<1>1. Fields(s)
  BY FieldsOfState, RobotAssumption DEF AsRecord, Fields
<1>2. s = AsRecord(s)
  BY FieldsOfState DEF AsRecord
<1>3. s \in RobotState
  BY <1>1, <1>2, StateOfFields
<1> QED BY <1>3 DEF Unfollow

LEMMA StopType ==
  ASSUME NEW r \in RobotState, NEW allowRotate \in BOOLEAN
  PROVE  StopRobot(r, allowRotate) \in Result
<1> PICK u \in RobotState : u = Unfollow(r)
  BY UnfollowType
<1> PICK s : s = [u EXCEPT !.tv = 0,
                        !.rv = IF allowRotate /\ ~r.following THEN @ ELSE 0]
  OBVIOUS
<1>1. Fields(s)
  BY FieldsOfState DEF AsRecord, Fields
<1>2. s = AsRecord(s)
  BY FieldsOfState DEF AsRecord
<1>3. s \in RobotState
  BY <1>1, <1>2, StateOfFields
<1> QED BY <1>3, SendType DEF StopRobot

-----------------------------------------------------------------------------

\* The way left is a number, and so is the speed towards it.
LEMMA DisplacementType ==
  ASSUME NEW r \in RobotState
  PROVE  /\ Displacement(r) \in Int
         /\ Magnitude(Displacement(r)) \in Int
         /\ ApproachTv(r) \in Int
<1>1. r.distance \in Int /\ r.gone \in Int /\ r.odomTv \in Int
  BY DEF RobotState
<1>2. Displacement(r) \in Int
  BY <1>1 DEF Displacement, Magnitude
<1>3. -Half(r.odomTv) \in Int
  BY <1>1 DEF Half
<1> QED BY <1>2, <1>3, RobotAssumption DEF Magnitude, ApproachTv

LEMMA FollowType ==
  ASSUME NEW r \in RobotState, NEW heading \in Headings
  PROVE  FollowVector(r, heading) \in Result
<1>1. CASE heading = "ahead" /\ Magnitude(Displacement(r)) <= Near /\ r.aligning
  <2> PICK u \in RobotState : u = Unfollow(r)
    BY UnfollowType
  <2> PICK s : s = [u EXCEPT !.rv = 0]
    OBVIOUS
  <2>1. Fields(s)
    BY FieldsOfState DEF AsRecord, Fields
  <2>2. s = AsRecord(s)
    BY FieldsOfState DEF AsRecord
  <2>3. s \in RobotState
    BY <2>1, <2>2, StateOfFields
  <2> QED BY <1>1, <2>3, StopType DEF FollowVector
<1>2. CASE ~(heading = "ahead" /\ Magnitude(Displacement(r)) <= Near /\ r.aligning)
  <2> DEFINE rv == HeadingRv(heading)
             tv == CASE heading = "turn" -> 0
                     [] heading = "arc"  -> Magnitude(Displacement(r))
                     [] OTHER            -> ApproachTv(r)
  <2>1. tv \in Int /\ rv \in Int
    BY DisplacementType, RobotAssumption DEF HeadingRv
  <2> HIDE DEF tv, rv
  <2> PICK s : s = [r EXCEPT !.rv = rv, !.tv = tv]
    OBVIOUS
  <2>2. Fields(s)
    BY <2>1, FieldsOfState DEF AsRecord, Fields
  <2>3. s = AsRecord(s)
    BY FieldsOfState DEF AsRecord
  <2>4. s \in RobotState
    BY <2>2, <2>3, StateOfFields
  <2>5. FollowVector(r, heading) = SendBaseVelocity(s)
    BY <1>2 DEF FollowVector, tv, rv
  <2> QED BY <2>4, <2>5, SendType
<1> QED BY <1>1, <1>2

\* Every message leaves the robot server in one of its states.
LEMMA HandleType ==
  ASSUME NEW r \in RobotState, NEW msg \in Message, NEW heading \in Headings
  PROVE  Handle(r, msg, heading) \in Result
<1>1. CASE msg.name = "velocity"
  <2>1. msg.tv \in Int /\ msg.rv \in Int
    BY <1>1 DEF Message
  <2> PICK u \in RobotState : u = Unfollow(r)
    BY UnfollowType
  <2> PICK s : s = [u EXCEPT !.tv = msg.tv, !.rv = msg.rv]
    OBVIOUS
  <2>2. Fields(s)
    BY <2>1, FieldsOfState DEF AsRecord, Fields
  <2>3. s = AsRecord(s)
    BY FieldsOfState DEF AsRecord
  <2>4. s \in RobotState
    BY <2>2, <2>3, StateOfFields
  <2> QED BY <1>1, <2>4, SendType DEF Handle, VelocityHandler
<1>2. CASE msg.name = "vector"
  <2>1. msg.distance \in Int
    BY <1>2 DEF Message
  <2> PICK s : s = [r EXCEPT !.following = TRUE, !.byVector = TRUE,
                          !.distance = msg.distance, !.gone = 0]
    OBVIOUS
  <2>2. Fields(s)
    BY <2>1, FieldsOfState, RobotAssumption DEF AsRecord, Fields
  <2>3. s = AsRecord(s)
    BY FieldsOfState DEF AsRecord
  <2>4. s \in RobotState
    BY <2>2, <2>3, StateOfFields
  <2> QED BY <1>2, <2>4, FollowType DEF Handle, VectorMoveHandler
<1>3. CASE msg.name = "follow"
  <2>1. msg.distance \in Int /\ msg.sameGoal \in BOOLEAN
    BY <1>3 DEF Message
  <2>2. Aligns(r, msg) \in BOOLEAN /\ (msg.length = 1) \in BOOLEAN
    BY DEF Aligns
  <2>3. CASE msg.length = 0
    BY <1>3, <2>3, QuietType DEF Handle, FollowTrajectoryHandler
  <2>4. CASE msg.length # 0
    <3> PICK s : s = [r EXCEPT !.following = TRUE, !.byVector = FALSE,
                              !.distance = msg.distance, !.gone = 0,
                              !.final = (msg.length = 1),
                              !.aligning = Aligns(r, msg)]
      OBVIOUS
    <3>1. Fields(s)
      BY <2>1, <2>2, FieldsOfState, RobotAssumption DEF AsRecord, Fields
    <3>2. s = AsRecord(s)
      BY FieldsOfState DEF AsRecord
    <3>3. s \in RobotState
      BY <3>1, <3>2, StateOfFields
    <3>4. Handle(r, msg, heading) = FollowVector(s, heading)
      BY <1>3, <2>4 DEF Handle, FollowTrajectoryHandler
    <3> QED BY <3>3, <3>4, FollowType
  <2> QED BY <2>3, <2>4
<1> QED BY <1>1, <1>2, <1>3 DEF Message

-----------------------------------------------------------------------------

\* The odometry is noted, and the way covered with it.
LEMMA MovedType ==
  ASSUME NEW r \in RobotState, NEW tv \in Int, NEW way \in Int
  PROVE  Moved(r, tv, way) \in RobotState
<1> DEFINE gone == IF r.following THEN Clamp(-MaxGone, r.gone + way, MaxGone)
                   ELSE r.gone
<1>1. gone \in -MaxGone .. MaxGone
  BY FieldsOfState, RobotAssumption DEF Fields, Clamp
<1> HIDE DEF gone
<1> PICK s : s = [r EXCEPT !.odomTv = tv, !.gone = gone]
  OBVIOUS
<1>2. Fields(s)
  BY <1>1, FieldsOfState DEF AsRecord, Fields
<1>3. s = AsRecord(s)
  BY FieldsOfState DEF AsRecord
<1>4. s = Moved(r, tv, way)
  BY DEF Moved, gone
<1> QED BY <1>2, <1>3, <1>4, StateOfFields

LEMMA OdometryType ==
  ASSUME NEW r0 \in RobotState, NEW tv \in Int, NEW way \in Int
  PROVE  OdometryHandler(r0, tv, way) \in Result
<1> PICK r \in RobotState : r = Moved(r0, tv, way)
  BY MovedType
<1>1. r.front \in Int /\ r.rear \in Int
  BY FieldsOfState, RobotAssumption DEF Fields
<1>2. SendBaseVelocity([r EXCEPT !.tv = r.front]) \in Result
  <2>1. [r EXCEPT !.tv = r.front] \in RobotState
    BY <1>1 DEF RobotState
  <2> QED BY <2>1, SendType
<1>3. SendBaseVelocity([r EXCEPT !.tv = r.rear]) \in Result
  <2>1. [r EXCEPT !.tv = r.rear] \in RobotState
    BY <1>1 DEF RobotState
  <2> QED BY <2>1, SendType
<1>4. Quiet(r) \in Result /\ StopRobot(r, TRUE) \in Result
  BY QuietType, StopType
<1> QED BY <1>2, <1>3, <1>4 DEF OdometryHandler

\* A laser scan renews the sign of life and replaces the limit of its side.
LEMMA FrontLaserType ==
  ASSUME NEW r0 \in RobotState, NEW limit \in 0 .. MaxTv, NEW throttled \in BOOLEAN
  PROVE  FrontLaserHandler(r0, limit, throttled) \in Result
<1> PICK r : r = [r0 EXCEPT !.sensorAge = 0]
  OBVIOUS
<1>1. r \in RobotState
  BY RobotAssumption DEF RobotState
<1> PICK done \in Result :
      done = IF limit <= 0 /\ r.odomTv > 0 THEN StopRobot(r, TRUE) ELSE Quiet(r)
  BY <1>1, StopType, QuietType
<1> PICK q : q = [done EXCEPT !.robot.front = limit]
  OBVIOUS
<1>2. /\ q = [robot |-> q.robot, out |-> q.out]
      /\ q.robot = [done.robot EXCEPT !.front = limit]
      /\ q.out = done.out
  BY DEF Result
<1>3. done.robot \in RobotState /\ done.out \in Published
  BY DEF Result
<1>4. [done.robot EXCEPT !.front = limit] \in RobotState
  BY <1>3 DEF RobotState
<1>5. q \in Result
  BY <1>2, <1>3, <1>4 DEF Result
<1>6. FrontLaserHandler(r0, limit, throttled)
        = IF throttled THEN Quiet(r) ELSE q
  BY DEF FrontLaserHandler
<1> QED BY <1>1, <1>5, <1>6, QuietType

LEMMA RearLaserType ==
  ASSUME NEW r0 \in RobotState, NEW limit \in -MaxTv .. 0, NEW throttled \in BOOLEAN
  PROVE  RearLaserHandler(r0, limit, throttled) \in Result
<1> PICK r : r = [r0 EXCEPT !.sensorAge = 0]
  OBVIOUS
<1>1. r \in RobotState
  BY RobotAssumption DEF RobotState
<1> PICK done \in Result :
      done = IF limit >= 0 /\ r.odomTv < 0 THEN StopRobot(r, TRUE) ELSE Quiet(r)
  BY <1>1, StopType, QuietType
<1> PICK q : q = [done EXCEPT !.robot.rear = limit]
  OBVIOUS
<1>2. /\ q = [robot |-> q.robot, out |-> q.out]
      /\ q.robot = [done.robot EXCEPT !.rear = limit]
      /\ q.out = done.out
  BY DEF Result
<1>3. done.robot \in RobotState /\ done.out \in Published
  BY DEF Result
<1>4. [done.robot EXCEPT !.rear = limit] \in RobotState
  BY <1>3 DEF RobotState
<1>5. q \in Result
  BY <1>2, <1>3, <1>4 DEF Result
<1>6. RearLaserHandler(r0, limit, throttled)
        = IF throttled THEN Quiet(r) ELSE q
  BY DEF RearLaserHandler
<1> QED BY <1>1, <1>5, <1>6, QuietType

\* The main loop, and the passing of time.
LEMMA RunType ==
  ASSUME NEW r \in RobotState, NEW heading \in Headings
  PROVE  RobotRun(r, heading) \in Result
BY StopType, FollowType, QuietType DEF RobotRun

LEMMA AgesType ==
  ASSUME NEW r \in RobotState
  PROVE  RobotAges(r) \in RobotState
<1>1. CASE r.sensorAge = Never \/ SensorTimedOut(r)
  BY <1>1 DEF RobotAges
<1>2. CASE ~(r.sensorAge = Never \/ SensorTimedOut(r))
  <2>1. r.sensorAge + 1 \in -1 .. SensorTimeout + 1
    BY <1>2, FieldsOfState, RobotAssumption DEF Fields, SensorTimedOut, Never
  <2>2. [r EXCEPT !.sensorAge = r.sensorAge + 1] \in RobotState
    BY <2>1 DEF RobotState
  <2> QED BY <1>2, <2>2 DEF RobotAges
<1> QED BY <1>1, <1>2

\* A server that starts is in one of its states.
LEMMA StartType == RobotStart \in RobotState
BY RobotAssumption DEF RobotStart, RobotState, Never

-----------------------------------------------------------------------------
(* With no way ahead nothing is published that goes forward, and a handler that *)
(* publishes nothing leaves the command as it is.                              *)

Slow(result) == result.out # <<>> /\ result.out[1].tv <= 0

Holds(r, result) == Slow(result) \/ (result.out = <<>> /\ result.robot.tv = r.tv)

\* A velocity that is sent is cut to the limit of the front laser.
LEMMA SendHolds ==
  ASSUME NEW r \in RobotState, r.front = 0
  PROVE  Slow(SendBaseVelocity(r))
<1> DEFINE tv == LimitedTv(r)
<1>1. tv \in Int
  BY LimitedTvType
<1>2. tv <= 0
  <2>1. r.tv \in Int /\ r.rear \in Int /\ r.rear <= 0
    BY RobotAssumption DEF RobotState
  <2> QED BY <2>1 DEF LimitedTv, Clamp
<1>3. [r EXCEPT !.tv = LimitedTv(r)].tv = tv
  BY DEF RobotState
<1> HIDE DEF tv
<1>4. Clamp(-MaxTv, tv, MaxTv) <= 0
  BY <1>1, <1>2, RobotAssumption DEF Clamp
<1> QED BY <1>3, <1>4 DEF SendBaseVelocity, Slow

LEMMA StopHolds ==
  ASSUME NEW r \in RobotState, r.front = 0, NEW allowRotate \in BOOLEAN
  PROVE  Slow(StopRobot(r, allowRotate))
<1> PICK u \in RobotState : u = Unfollow(r)
  BY UnfollowType
<1>1. u.front = 0
  BY DEF Unfollow, RobotState
<1> PICK s : s = [u EXCEPT !.tv = 0,
                        !.rv = IF allowRotate /\ ~r.following THEN @ ELSE 0]
  OBVIOUS
<1>2. Fields(s)
  BY FieldsOfState DEF AsRecord, Fields
<1>3. s = AsRecord(s)
  BY FieldsOfState DEF AsRecord
<1>4. s \in RobotState
  BY <1>2, <1>3, StateOfFields
<1>5. s.front = 0
  BY <1>1 DEF RobotState
<1> QED BY <1>4, <1>5, SendHolds DEF StopRobot

LEMMA FollowHolds ==
  ASSUME NEW r \in RobotState, r.front = 0, NEW heading \in Headings
  PROVE  Slow(FollowVector(r, heading))
<1>1. CASE heading = "ahead" /\ Magnitude(Displacement(r)) <= Near /\ r.aligning
  <2> PICK u \in RobotState : u = Unfollow(r)
    BY UnfollowType
  <2>0. u.front = 0
    BY DEF Unfollow, RobotState
  <2> PICK s : s = [u EXCEPT !.rv = 0]
    OBVIOUS
  <2>1. Fields(s)
    BY FieldsOfState DEF AsRecord, Fields
  <2>2. s = AsRecord(s)
    BY FieldsOfState DEF AsRecord
  <2>3. s \in RobotState
    BY <2>1, <2>2, StateOfFields
  <2>4. s.front = 0
    BY <2>0 DEF RobotState
  <2> QED BY <1>1, <2>3, <2>4, StopHolds DEF FollowVector
<1>2. CASE ~(heading = "ahead" /\ Magnitude(Displacement(r)) <= Near /\ r.aligning)
  <2> DEFINE rv == HeadingRv(heading)
             tv == CASE heading = "turn" -> 0
                     [] heading = "arc"  -> Magnitude(Displacement(r))
                     [] OTHER            -> ApproachTv(r)
  <2>1. tv \in Int /\ rv \in Int
    BY DisplacementType, RobotAssumption DEF HeadingRv
  <2> HIDE DEF tv, rv
  <2> PICK s : s = [r EXCEPT !.rv = rv, !.tv = tv]
    OBVIOUS
  <2>2. Fields(s)
    BY <2>1, FieldsOfState DEF AsRecord, Fields
  <2>3. s = AsRecord(s)
    BY FieldsOfState DEF AsRecord
  <2>4. s \in RobotState
    BY <2>2, <2>3, StateOfFields
  <2>5. s.front = 0
    BY DEF RobotState
  <2>6. FollowVector(r, heading) = SendBaseVelocity(s)
    BY <1>2 DEF FollowVector, tv, rv
  <2> QED BY <2>4, <2>5, <2>6, SendHolds
<1> QED BY <1>1, <1>2

\* Whatever a client asks for.
LEMMA HandleHolds ==
  ASSUME NEW r \in RobotState, r.front = 0, NEW msg \in Message, NEW heading \in Headings
  PROVE  Holds(r, Handle(r, msg, heading))
<1>1. CASE msg.name = "velocity"
  <2>0. msg.tv \in Int /\ msg.rv \in Int
    BY <1>1 DEF Message
  <2> PICK u \in RobotState : u = Unfollow(r)
    BY UnfollowType
  <2>1. u.front = 0
    BY DEF Unfollow, RobotState
  <2> PICK s : s = [u EXCEPT !.tv = msg.tv, !.rv = msg.rv]
    OBVIOUS
  <2>2. Fields(s)
    BY <2>0, FieldsOfState DEF AsRecord, Fields
  <2>3. s = AsRecord(s)
    BY FieldsOfState DEF AsRecord
  <2>4. s \in RobotState
    BY <2>2, <2>3, StateOfFields
  <2>5. s.front = 0
    BY <2>1 DEF RobotState
  <2> QED BY <1>1, <2>4, <2>5, SendHolds DEF Handle, VelocityHandler, Holds
<1>2. CASE msg.name = "vector"
  <2>0. msg.distance \in Int
    BY <1>2 DEF Message
  <2> PICK s : s = [r EXCEPT !.following = TRUE, !.byVector = TRUE,
                            !.distance = msg.distance, !.gone = 0]
    OBVIOUS
  <2>1. Fields(s)
    BY <2>0, FieldsOfState, RobotAssumption DEF AsRecord, Fields
  <2>2. s = AsRecord(s)
    BY FieldsOfState DEF AsRecord
  <2>3. s \in RobotState
    BY <2>1, <2>2, StateOfFields
  <2>4. s.front = 0
    BY DEF RobotState
  <2> QED BY <1>2, <2>3, <2>4, FollowHolds DEF Handle, VectorMoveHandler, Holds
<1>3. CASE msg.name = "follow"
  <2>0. msg.length \in Nat /\ msg.distance \in Nat /\ msg.sameGoal \in BOOLEAN
    BY <1>3 DEF Message
  <2>1. CASE msg.length = 0
    BY <1>3, <2>1 DEF Handle, FollowTrajectoryHandler, Quiet, Holds
  <2>2. CASE msg.length # 0
    <3> PICK aligning \in BOOLEAN : aligning = Aligns(r, msg)
      BY <2>0, FieldsOfState DEF Aligns, Fields
    <3> PICK s : s = [r EXCEPT !.following = TRUE, !.byVector = FALSE,
                              !.distance = msg.distance, !.gone = 0,
                              !.final = (msg.length = 1),
                              !.aligning = aligning]
      OBVIOUS
    <3>1. Fields(s)
      BY <2>0, FieldsOfState, RobotAssumption DEF AsRecord, Fields
    <3>2. s = AsRecord(s)
      BY FieldsOfState DEF AsRecord
    <3>3. s \in RobotState
      BY <3>1, <3>2, StateOfFields
    <3>4. s.front = 0
      BY DEF RobotState
    <3>5. Handle(r, msg, heading) = FollowVector(s, heading)
      BY <1>3, <2>2 DEF Handle, FollowTrajectoryHandler
    <3> QED BY <3>3, <3>4, <3>5, FollowHolds DEF Holds
  <2> QED BY <2>1, <2>2
<1> QED BY <1>1, <1>2, <1>3 DEF Message

\* The odometry that tells of motion ahead stops the robot.
LEMMA OdometryHolds ==
  ASSUME NEW r0 \in RobotState, r0.front = 0, NEW tv \in Int, NEW way \in Int
  PROVE  /\ Holds(r0, OdometryHandler(r0, tv, way))
         /\ tv > 0 /\ r0.tv > 0 => Slow(OdometryHandler(r0, tv, way))
<1> PICK r \in RobotState : r = Moved(r0, tv, way)
  BY MovedType
<1>1. r.front = 0 /\ r.tv = r0.tv /\ r.odomTv = tv
  BY DEF Moved, RobotState
<1>2. r.rear \in Int /\ r.tv \in Int
  BY FieldsOfState, RobotAssumption DEF Fields
<1>3. Slow(StopRobot(r, TRUE))
  BY <1>1, StopHolds
<1>4. Slow(SendBaseVelocity([r EXCEPT !.tv = r.rear]))
  <2> PICK s : s = [r EXCEPT !.tv = r.rear]
    OBVIOUS
  <2>1. s \in RobotState /\ s.front = 0
    BY <1>1, <1>2 DEF RobotState
  <2> QED BY <2>1, SendHolds
<1>5. Holds(r0, Quiet(r))
  BY <1>1 DEF Quiet, Holds
<1>6. OdometryHandler(r0, tv, way) =
        IF TooFastForward(r) THEN StopRobot(r, TRUE)
        ELSE IF TooFastBackward(r)
          THEN IF r.rear >= 0 THEN StopRobot(r, TRUE)
               ELSE SendBaseVelocity([r EXCEPT !.tv = r.rear])
        ELSE Quiet(r)
  BY <1>1 DEF OdometryHandler
<1>7. tv > 0 /\ r0.tv > 0 => TooFastForward(r)
  BY <1>1 DEF TooFastForward
<1> QED BY <1>3, <1>4, <1>5, <1>6, <1>7 DEF Holds

LEMMA FrontLaserHolds ==
  ASSUME NEW r0 \in RobotState, r0.front = 0, NEW limit \in 0 .. MaxTv,
         NEW throttled \in BOOLEAN
  PROVE  Holds(r0, FrontLaserHandler(r0, limit, throttled))
<1> PICK r : r = [r0 EXCEPT !.sensorAge = 0]
  OBVIOUS
<1>1. r \in RobotState /\ r.front = 0 /\ r.tv = r0.tv
  BY RobotAssumption DEF RobotState
<1> PICK done \in Result :
      done = IF limit <= 0 /\ r.odomTv > 0 THEN StopRobot(r, TRUE) ELSE Quiet(r)
  BY <1>1, StopType, QuietType
<1>2. Holds(r0, Quiet(r))
  BY <1>1 DEF Quiet, Holds
<1>3. Holds(r0, done)
  BY <1>1, <1>2, StopHolds DEF Holds
<1> PICK q : q = [done EXCEPT !.robot.front = limit]
  OBVIOUS
<1>4. q.robot = [done.robot EXCEPT !.front = limit] /\ q.out = done.out
  BY DEF Result
<1>5. q.robot.tv = done.robot.tv
  BY <1>4 DEF Result, RobotState
<1>6. FrontLaserHandler(r0, limit, throttled) = IF throttled THEN Quiet(r) ELSE q
  BY DEF FrontLaserHandler
<1> QED BY <1>2, <1>3, <1>4, <1>5, <1>6 DEF Holds, Slow

LEMMA RearLaserHolds ==
  ASSUME NEW r0 \in RobotState, r0.front = 0, NEW limit \in -MaxTv .. 0,
         NEW throttled \in BOOLEAN
  PROVE  Holds(r0, RearLaserHandler(r0, limit, throttled))
<1> PICK r : r = [r0 EXCEPT !.sensorAge = 0]
  OBVIOUS
<1>1. r \in RobotState /\ r.front = 0 /\ r.tv = r0.tv
  BY RobotAssumption DEF RobotState
<1> PICK done \in Result :
      done = IF limit >= 0 /\ r.odomTv < 0 THEN StopRobot(r, TRUE) ELSE Quiet(r)
  BY <1>1, StopType, QuietType
<1>2. Holds(r0, Quiet(r))
  BY <1>1 DEF Quiet, Holds
<1>3. Holds(r0, done)
  BY <1>1, <1>2, StopHolds DEF Holds
<1> PICK q : q = [done EXCEPT !.robot.rear = limit]
  OBVIOUS
<1>4. q.robot = [done.robot EXCEPT !.rear = limit] /\ q.out = done.out
  BY DEF Result
<1>5. q.robot.tv = done.robot.tv
  BY <1>4 DEF Result, RobotState
<1>6. RearLaserHandler(r0, limit, throttled) = IF throttled THEN Quiet(r) ELSE q
  BY DEF RearLaserHandler
<1> QED BY <1>2, <1>3, <1>4, <1>5, <1>6 DEF Holds, Slow

LEMMA RunHolds ==
  ASSUME NEW r \in RobotState, r.front = 0, NEW heading \in Headings
  PROVE  Holds(r, RobotRun(r, heading))
BY StopHolds, FollowHolds DEF RobotRun, Quiet, Holds

\* Time changes neither the command nor the limit.
LEMMA AgesKeeps ==
  ASSUME NEW r \in RobotState
  PROVE  RobotAges(r).tv = r.tv /\ RobotAges(r).front = r.front
BY DEF RobotAges, RobotState
=============================================================================
