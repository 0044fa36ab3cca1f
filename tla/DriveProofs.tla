----------------------------- MODULE DriveProofs -----------------------------
(***************************************************************************)
(* Proofs about the robot server and the base, for every set of commands     *)
(* and laser limits, every speed limit and every time-out.                   *)
(*                                                                          *)
(* CarmenRobotProofs says what a handler leaves and publishes, which gives   *)
(* DriveTypeOK.  StandsStill and ObeysLast follow from what is known of the  *)
(* motors at each call the base may be in (BaseInv) and of the velocity on   *)
(* its way (DriveInv).                                                       *)
(***************************************************************************)
EXTENDS Drive, CarmenRobotProofs

-----------------------------------------------------------------------------
(* What is known at each call of the base. *)

\* The base alone: with moving unset the motors stand still, or are about to.
BaseInv ==
  /\ at \in {"idle", "status", "direct"} /\ commanded /\ ~moving => motors = Zero
  /\ at = "setVelocity" /\ ~moving => taken = Zero
  /\ at = "decelerate" => taken = Zero
  /\ at = "accelerate" => moving
  /\ BaseGone => ~commanded

\* With the robot server: the newest velocity is waiting, being passed on, or set.
DriveInv ==
  /\ toBase # <<>> => toBase = <<asked>>
  /\ at \in {"decelerate", "accelerate", "setVelocity"} /\ toBase = <<>>
       => taken = asked
  /\ at \in {"idle", "status", "direct", "timeoutDecelerate"}
       /\ commanded /\ toBase = <<>>
       => motors \in {Zero, asked}

DriveIInv == DriveTypeOK /\ BaseInv /\ DriveInv

LEMMA InitInv == Init => DriveIInv
<1> SUFFICES ASSUME Init PROVE DriveIInv
  OBVIOUS
<1>1. Zero \in Velocity
  BY RobotAssumption DEF Zero, Velocity
<1>2. DriveTypeOK
  <2>1. BaseTypeOK
    <3>1. taken \in Velocity /\ motors \in Velocity
      BY <1>1 DEF Init, BaseInit
    <3>2. motionAge \in 0 .. MotionTimeout + 1
      BY BaseAssumption DEF Init, BaseInit
    <3>3. moving \in BOOLEAN /\ resetDue \in BOOLEAN /\ commanded \in BOOLEAN
      BY DEF Init, BaseInit
    <3>4. at \in Calls \cup {"idle", "down", "hung"}
      BY DEF Init, BaseInit
    <3> QED BY <3>1, <3>2, <3>3, <3>4 DEF BaseTypeOK
  <2>2. robot \in RobotState
    BY StartType DEF Init
  <2>3. /\ asked \in Velocity
        /\ askedAge \in 0 .. MotionTimeout + 2
        /\ blocked \in 0 .. 2
    BY <1>1, BaseAssumption DEF Init
  <2>4. /\ robotUp \in BOOLEAN /\ robotRan \in BOOLEAN /\ baseRan \in BOOLEAN
        /\ failing \in BOOLEAN /\ disturbed \in BOOLEAN
    BY DEF Init
  <2>5. /\ toBase \in {<<>>} \cup {<<v>> : v \in Velocity}
        /\ toRobot \in {<<>>} \cup {<<tv>> : tv \in -MaxTv .. MaxTv}
    BY DEF Init
  <2> QED BY <2>1, <2>2, <2>3, <2>4, <2>5 DEF DriveTypeOK
<1>3. BaseInv /\ DriveInv
  BY DEF Init, BaseInit, BaseInv, DriveInv, BaseGone
<1> QED BY <1>2, <1>3 DEF DriveIInv

\* A handler of the robot server leaves the base alone; what it publishes is then
\* the newest velocity, and waits for the base.
LEMMA DoesInv ==
  ASSUME DriveIInv, NEW result \in Result, Does(result), UNCHANGED baseVars,
         UNCHANGED failing, robotUp' \in BOOLEAN,
         toRobot' \in {<<>>} \cup {<<tv>> : tv \in -MaxTv .. MaxTv},
         robotRan' \in BOOLEAN, baseRan' \in BOOLEAN, blocked' \in 0 .. 2
  PROVE  DriveIInv'
<1>1. BaseTypeOK' /\ BaseInv'
  BY DEF DriveIInv, DriveTypeOK, BaseTypeOK, BaseInv, BaseGone, baseVars
<1>2. robot' \in RobotState
  BY DEF Does, Result
<1>3. CASE result.out = <<>>
  <2>1. UNCHANGED <<toBase, asked, askedAge, disturbed>>
    BY <1>3 DEF Does
  <2>2. DriveTypeOK'
    BY <1>1, <1>2, <2>1 DEF DriveIInv, DriveTypeOK
  <2>3. DriveInv'
    BY <2>1 DEF DriveIInv, DriveInv, baseVars
  <2> QED BY <1>1, <2>2, <2>3 DEF DriveIInv
<1>4. CASE result.out # <<>>
  <2> PICK v \in Velocity : result.out = <<v>>
    BY <1>4 DEF Result, Published
  <2>1. /\ toBase' = IF at = "down" THEN <<>> ELSE <<v>>
        /\ asked' = v
        /\ askedAge' = 0
        /\ disturbed' = failing
    BY <1>4 DEF Does
  <2>2. DriveTypeOK'
    BY <1>1, <1>2, <2>1, BaseAssumption DEF DriveIInv, DriveTypeOK
  <2>3. DriveInv'
    BY <2>1 DEF DriveIInv, DriveInv, BaseInv, BaseGone, baseVars
  <2> QED BY <1>1, <2>2, <2>3 DEF DriveIInv
<1> QED BY <1>3, <1>4

\* Every step that is not one of the base's calls.
LEMMA RobotStep ==
  ASSUME DriveIInv, blocked' \in 0 .. 2,
         \/ ClientCommand \/ Scan \/ OdometryArrives \/ RobotRound
         \/ RobotShutdown \/ RobotKilled \/ RobotStarts
  PROVE  DriveIInv'
<1>0. /\ robot \in RobotState /\ robotUp \in BOOLEAN
      /\ toRobot \in {<<>>} \cup {<<tv>> : tv \in -MaxTv .. MaxTv}
      /\ robotRan \in BOOLEAN /\ baseRan \in BOOLEAN
  BY DEF DriveIInv, DriveTypeOK
<1>1. CASE ClientCommand
  <2> PICK msg \in Commands, heading \in Headings : Does(Handle(robot, msg, heading))
    BY <1>1 DEF ClientCommand
  <2>1. Handle(robot, msg, heading) \in Result
    BY <1>0, HandleType, DriveAssumption
  <2> QED BY <1>0, <1>1, <2>1, DoesInv DEF ClientCommand
<1>2. CASE Scan
  <2> PICK throttled \in BOOLEAN :
        \/ \E limit \in FrontLimits : Does(FrontLaserHandler(robot, limit, throttled))
        \/ \E limit \in RearLimits : Does(RearLaserHandler(robot, limit, throttled))
    BY <1>2 DEF Scan
  <2>1. PICK result \in Result : Does(result)
    BY <1>0, FrontLaserType, RearLaserType, DriveAssumption
  <2> QED BY <1>0, <1>2, <2>1, DoesInv DEF Scan
<1>3. CASE OdometryArrives
  <2> PICK way \in {0, toRobot[1]} : Does(OdometryHandler(robot, toRobot[1], way))
    BY <1>3 DEF OdometryArrives
  <2>1. toRobot[1] \in Int /\ way \in Int
    BY <1>0, <1>3, RobotAssumption DEF OdometryArrives
  <2>2. OdometryHandler(robot, toRobot[1], way) \in Result
    BY <1>0, <2>1, OdometryType
  <2> QED BY <1>0, <1>3, <2>2, DoesInv DEF OdometryArrives
<1>4. CASE RobotRound
  <2> PICK heading \in Headings : Does(RobotRun(robot, heading))
    BY <1>4 DEF RobotRound
  <2>1. RobotRun(robot, heading) \in Result
    BY <1>0, RunType
  <2> QED BY <1>0, <1>4, <2>1, DoesInv DEF RobotRound
<1>5. CASE RobotShutdown
  <2> PICK stopped \in Result : stopped = StopRobot(robot, FALSE)
    BY <1>0, StopType
  <2> PICK result : result = [stopped EXCEPT !.robot = RobotStart]
    OBVIOUS
  <2>1. result \in Result
    BY StartType DEF Result
  <2>2. Does(result)
    BY <1>5 DEF RobotShutdown
  <2> QED BY <1>0, <1>5, <2>1, <2>2, DoesInv DEF RobotShutdown
<1>6. CASE RobotKilled
  <2>1. Quiet(RobotStart) \in Result
    BY StartType, QuietType
  <2> QED BY <1>0, <1>6, <2>1, DoesInv DEF RobotKilled
<1>7. CASE RobotStarts
  <2>1. DriveTypeOK'
    BY <1>7 DEF RobotStarts, DriveIInv, DriveTypeOK, BaseTypeOK, baseVars
  <2>2. BaseInv' /\ DriveInv'
    BY <1>7 DEF RobotStarts, DriveIInv, BaseInv, DriveInv, BaseGone, baseVars
  <2> QED BY <2>1, <2>2 DEF DriveIInv
<1> QED BY <1>1, <1>2, <1>3, <1>4, <1>5, <1>6, <1>7

-----------------------------------------------------------------------------
(* The steps of the base, one at a time. *)

\* A call that succeeds is followed by the next of its handler.
LEMMA SucceedsInv ==
  ASSUME DriveIInv, BaseCallSucceeds, blocked' \in 0 .. 2
  PROVE  DriveIInv'
<1>0. /\ at \in Calls
      /\ at' = AfterCall[at]
      /\ moving' = (moving /\ at # "decelerate")
      /\ commanded' = (commanded \/ at \in {"setVelocity", "timeoutStop"})
      /\ UNCHANGED <<toBase, asked, askedAge, disturbed, robot, robotUp, resetDue,
                     robotRan, baseRan>>
      /\ failing' = FALSE
  BY DEF BaseCallSucceeds, CallSucceeds
<1>1. /\ motors' = CASE at = "setVelocity" -> taken
                     [] at = "timeoutStop" -> Zero
                     [] OTHER              -> motors
      /\ motionAge' = IF at = "setVelocity" THEN 0 ELSE motionAge
      /\ taken' = IF at = "setVelocity" THEN Zero ELSE taken
      /\ toRobot' = <<motors.tv>> \/ UNCHANGED toRobot
  BY DEF BaseCallSucceeds, CallSucceeds
<1>2. /\ at \in {"decelerate", "accelerate"} => at' = "setVelocity"
      /\ at = "timeoutDecelerate" => at' = "timeoutStop"
      /\ at = "timeoutStop" => at' = "status"
      /\ at \in {"setVelocity", "status", "direct"} => at' = "idle"
  BY <1>0 DEF AfterCall, Calls
<1>3. DriveTypeOK'
  <2>1. Zero \in Velocity /\ motors.tv \in -MaxTv .. MaxTv
    BY RobotAssumption DEF Zero, Velocity, DriveIInv, DriveTypeOK, BaseTypeOK
  <2>2. at' \in Calls \cup {"idle", "down", "hung"}
    BY <1>0, <1>2 DEF Calls
  <2>3. taken' \in Velocity /\ motors' \in Velocity
    BY <1>1, <2>1 DEF DriveIInv, DriveTypeOK, BaseTypeOK
  <2>4. motionAge' \in 0 .. MotionTimeout + 1
    BY <1>1, BaseAssumption DEF DriveIInv, DriveTypeOK, BaseTypeOK
  <2>5. moving' \in BOOLEAN /\ commanded' \in BOOLEAN
    BY <1>0
  <2>6. BaseTypeOK'
    BY <1>0, <2>2, <2>3, <2>4, <2>5 DEF DriveIInv, DriveTypeOK, BaseTypeOK
  <2>7. toRobot' \in {<<>>} \cup {<<tv>> : tv \in -MaxTv .. MaxTv}
    BY <1>1, <2>1 DEF DriveIInv, DriveTypeOK
  <2> QED BY <1>0, <2>6, <2>7 DEF DriveIInv, DriveTypeOK
<1>4. BaseInv'
  BY <1>0, <1>1, <1>2 DEF DriveIInv, BaseInv, BaseGone, Calls
<1>5. DriveInv'
  BY <1>0, <1>1, <1>2 DEF DriveIInv, BaseInv, DriveInv, Calls
<1> QED BY <1>3, <1>4, <1>5 DEF DriveIInv

\* The other steps of the base.
LEMMA BaseStep ==
  ASSUME DriveIInv, blocked' \in 0 .. 2,
         \/ BaseTakesVelocity \/ BaseTakesDirect \/ BaseRound
         \/ BaseCallSucceeds \/ BaseCallFails \/ BaseEnds \/ BaseRestarts
  PROVE  DriveIInv'
<1>0. DriveTypeOK /\ BaseTypeOK /\ BaseInv /\ DriveInv
  BY DEF DriveIInv, DriveTypeOK
<1>z. Zero \in Velocity
  BY RobotAssumption DEF Zero, Velocity
<1>1. CASE BaseTakesVelocity
  <2>0. toBase[1] = asked /\ toBase' = <<>>
    BY <1>0, <1>1 DEF BaseTakesVelocity, DriveInv
  <2>1. /\ at = "idle" /\ taken' = asked
        /\ at' = CASE asked = Zero /\ moving  -> "decelerate"
                   [] asked # Zero /\ ~moving -> "accelerate"
                   [] OTHER                   -> "setVelocity"
        /\ moving' = (moving \/ asked # Zero)
        /\ UNCHANGED <<motionAge, resetDue, commanded, motors>>
    BY <1>1, <2>0 DEF BaseTakesVelocity, TakeVelocity
  <2>2. BaseTypeOK'
    BY <1>0, <2>1 DEF BaseTypeOK, DriveTypeOK, Calls
  <2>3. DriveTypeOK'
    BY <1>0, <1>1, <2>0, <2>2 DEF BaseTakesVelocity, DriveTypeOK
  <2>4. BaseInv' /\ DriveInv'
    BY <1>0, <1>1, <2>0, <2>1 DEF BaseTakesVelocity, BaseInv, DriveInv, BaseGone
  <2> QED BY <2>3, <2>4 DEF DriveIInv
<1>2. CASE BaseTakesDirect
  <2>1. DriveTypeOK'
    BY <1>0, <1>2 DEF BaseTakesDirect, TakeDirect, DriveTypeOK, BaseTypeOK, Calls
  <2>2. BaseInv' /\ DriveInv'
    BY <1>0, <1>2 DEF BaseTakesDirect, TakeDirect, BaseInv, DriveInv, BaseGone
  <2> QED BY <2>1, <2>2 DEF DriveIInv
<1>3. CASE BaseRound
  <2>1. CASE AnnounceReset
    <3>1. DriveTypeOK'
      BY <1>0, <1>3, <2>1 DEF BaseRound, AnnounceReset, DriveTypeOK, BaseTypeOK
    <3>2. BaseInv' /\ DriveInv'
      BY <1>0, <1>3, <2>1 DEF BaseRound, AnnounceReset, BaseInv, DriveInv, BaseGone
    <3> QED BY <3>1, <3>2 DEF DriveIInv
  <2>2. CASE StartRound
    <3>0. moving' \in BOOLEAN
      BY <2>2 DEF StartRound
    <3>1. DriveTypeOK'
      BY <1>0, <1>3, <2>2, <3>0
         DEF BaseRound, StartRound, DriveTypeOK, BaseTypeOK, Calls
    <3>2. BaseInv' /\ DriveInv'
      BY <1>0, <1>3, <2>2 DEF BaseRound, StartRound, BaseInv, DriveInv, BaseGone
    <3> QED BY <3>1, <3>2 DEF DriveIInv
  <2> QED BY <1>3, <2>1, <2>2 DEF BaseRound
<1>4. CASE BaseCallSucceeds
  BY <1>4, SucceedsInv
<1>5. CASE BaseCallFails
  <2>0. motors' \in {motors, Zero} /\ resetDue' \in BOOLEAN /\ motionAge' \in {0, motionAge}
    BY <1>0, <1>5 DEF BaseCallFails, CallFails, Initialized, BaseTypeOK
  <2>1. DriveTypeOK'
    BY <1>0, <1>5, <1>z, <2>0, BaseAssumption
       DEF BaseCallFails, CallFails, DriveTypeOK, BaseTypeOK
  <2>2. BaseInv' /\ DriveInv'
    BY <1>0, <1>5, <2>0
       DEF BaseCallFails, CallFails, BaseInv, DriveInv, BaseGone, Calls
  <2> QED BY <2>1, <2>2 DEF DriveIInv
<1>6. CASE BaseEnds
  <2>0. /\ at' \in {"down", "hung"}
        /\ motors' \in {motors, Zero}
        /\ taken' = Zero /\ moving' = FALSE /\ commanded' = FALSE
        /\ motionAge' = MotionTimeout + 1 /\ resetDue' = TRUE
        /\ toBase' \in {<<>>, toBase}
    BY <1>6 DEF BaseEnds, BaseDies, BaseFaults, Initialized, Forgotten
  <2>1. DriveTypeOK'
    <3>1. BaseTypeOK'
      <4>1. taken' \in Velocity /\ motors' \in Velocity
        BY <1>0, <1>z, <2>0 DEF BaseTypeOK
      <4>2. motionAge' \in 0 .. MotionTimeout + 1
        BY <2>0, BaseAssumption
      <4>3. moving' \in BOOLEAN /\ resetDue' \in BOOLEAN /\ commanded' \in BOOLEAN
        BY <2>0
      <4>4. at' \in Calls \cup {"idle", "down", "hung"}
        BY <2>0
      <4> QED BY <4>1, <4>2, <4>3, <4>4 DEF BaseTypeOK
    <3>2. toBase' \in {<<>>} \cup {<<v>> : v \in Velocity}
      BY <1>0, <2>0 DEF DriveTypeOK
    <3>3. UNCHANGED <<robot, robotUp, toRobot, robotRan, baseRan, asked, askedAge,
                      disturbed>> /\ failing' = FALSE
      BY <1>6 DEF BaseEnds
    <3> QED BY <1>0, <3>1, <3>2, <3>3 DEF DriveTypeOK
  <2>2. BaseInv' /\ DriveInv'
    BY <1>0, <1>6, <2>0 DEF BaseEnds, BaseInv, DriveInv, BaseGone
  <2> QED BY <2>1, <2>2 DEF DriveIInv
<1>7. CASE BaseRestarts
  <2>0. /\ at = "down" /\ at' = "idle" /\ motors' \in {motors, Zero}
        /\ UNCHANGED <<taken, moving, motionAge, resetDue, commanded>>
    BY <1>7 DEF BaseRestarts, BaseStarts, Initialized
  <2>1. DriveTypeOK'
    BY <1>0, <1>7, <1>z, <2>0 DEF BaseRestarts, DriveTypeOK, BaseTypeOK
  <2>2. BaseInv' /\ DriveInv'
    BY <1>0, <1>7, <2>0 DEF BaseRestarts, BaseInv, DriveInv, BaseGone
  <2> QED BY <2>1, <2>2 DEF DriveIInv
<1> QED BY <1>1, <1>2, <1>3, <1>4, <1>5, <1>6, <1>7

-----------------------------------------------------------------------------

LEMMA TickInv ==
  ASSUME DriveIInv, Tick, blocked' \in 0 .. 2
  PROVE  DriveIInv'
<1>0. DriveTypeOK /\ BaseTypeOK /\ BaseInv /\ DriveInv
  BY DEF DriveIInv, DriveTypeOK
<1>1. robot' \in RobotState
  BY <1>0, AgesType DEF Tick, DriveTypeOK
<1>2. motionAge' \in 0 .. MotionTimeout + 1
  BY <1>0, BaseAssumption DEF Tick, BaseAges, TimedOut, BaseTypeOK
<1>3. askedAge' \in 0 .. MotionTimeout + 2
  BY <1>0, BaseAssumption DEF Tick, DriveTypeOK
<1>4. BaseTypeOK'
  BY <1>0, <1>2 DEF Tick, BaseAges, BaseTypeOK
<1>5. DriveTypeOK'
  BY <1>0, <1>1, <1>3, <1>4 DEF Tick, DriveTypeOK
<1>6. BaseInv' /\ DriveInv'
  BY <1>0 DEF Tick, BaseAges, BaseInv, DriveInv, BaseGone
<1> QED BY <1>5, <1>6 DEF DriveIInv

LEMMA NextInv == DriveIInv /\ [Next]_vars => DriveIInv'
<1> SUFFICES ASSUME DriveIInv, [Next]_vars PROVE DriveIInv'
  OBVIOUS
<1>1. CASE Next
  <2>1. blocked \in 0 .. 2
    BY DEF DriveIInv, DriveTypeOK
  <2>2. blocked' \in 0 .. 2
    <3>1. CASE blocked' = IF Blocked' /\ ~NoOdometry THEN blocked ELSE 0
      BY <2>1, <3>1
    <3>2. CASE blocked' = IF ~Blocked' THEN 0 ELSE IF blocked = 2 THEN 2 ELSE blocked + 1
      BY <2>1, <3>2
    <3> QED BY <1>1, <3>1, <3>2 DEF Next
  <2> QED BY <1>1, <2>2, RobotStep, BaseStep, TickInv DEF Next, Step
<1>2. CASE UNCHANGED vars
  <2>1. DriveTypeOK'
    <3>1. BaseTypeOK'
      BY <1>2 DEF vars, baseVars, DriveIInv, DriveTypeOK, BaseTypeOK
    <3>2. UNCHANGED <<robot, robotUp, toBase, toRobot, robotRan, baseRan, failing,
                      asked, askedAge, disturbed, blocked>>
      BY <1>2 DEF vars
    <3> QED BY <3>1, <3>2 DEF DriveIInv, DriveTypeOK
  <2>2. BaseInv' /\ DriveInv'
    BY <1>2 DEF vars, baseVars, DriveIInv, BaseInv, DriveInv, BaseGone
  <2> QED BY <2>1, <2>2 DEF DriveIInv
<1> QED BY <1>1, <1>2

LEMMA Invariant == Spec => []DriveIInv
BY InitInv, NextInv, PTL DEF Spec

\* The robot server and the base keep to their types, and the speeds sent to the base
\* to the limits of the robot.
THEOREM DriveTyped == Spec => []DriveTypeOK
BY Invariant, PTL DEF DriveIInv

\* A base that takes the robot to stand still has stopped its motors.
THEOREM MotorsStandStill == Spec => []StandsStill
<1>1. DriveIInv => StandsStill
  BY DEF DriveIInv, BaseInv, StandsStill
<1> QED BY <1>1, Invariant, PTL

\* The motors obey the newest velocity published, or have been stopped.
THEOREM MotorsObeyLast == Spec => []ObeysLast
<1>1. DriveIInv => ObeysLast
  BY DEF DriveIInv, DriveInv, ObeysLast
<1> QED BY <1>1, Invariant, PTL

-----------------------------------------------------------------------------
(* How long the motors run after the last velocity. *)

Undisturbed == ~disturbed /\ ~BaseGone

Running == Undisturbed /\ commanded /\ motors # Zero

\* As long as the driver answers, no time passes while a velocity is handled
\* (Prompt).  The motors' age is then no less than that of the last velocity, and
\* the round in which it exceeds the time-out stops them (Counted); only the
\* announcement of a reset can put that off, and it does so in the first round.
Prompt ==
  Undisturbed /\ (toBase # <<>> \/ at \in {"decelerate", "accelerate", "setVelocity"})
    => askedAge = 0

Counted ==
  Running =>
    /\ askedAge <= motionAge \/ TimedOut
    /\ askedAge <= MotionTimeout + 1
    /\ baseRan /\ at \notin {"timeoutDecelerate", "timeoutStop"}
         => askedAge <= MotionTimeout
    /\ resetDue => askedAge = 0 \/ (askedAge = 1 /\ ~baseRan)

Timely ==
  /\ failing => disturbed
  /\ at = "down" => toBase = <<>>
  /\ Prompt
  /\ Counted

\* A velocity is young when it is published, and nothing else changes.
LEMMA DoesTimely ==
  ASSUME DriveIInv, Timely, NEW result \in Result, Does(result), UNCHANGED baseVars,
         UNCHANGED <<failing, baseRan>>
  PROVE  Timely'
<1>1. CASE result.out = <<>>
  BY <1>1 DEF Does, Timely, Prompt, Counted, Running, Undisturbed, BaseGone, TimedOut,
              baseVars
<1>2. CASE result.out # <<>>
  <2>1. /\ toBase' = IF at = "down" THEN <<>> ELSE result.out
        /\ askedAge' = 0
        /\ disturbed' = failing
    BY <1>2 DEF Does
  <2>2. (failing => disturbed)' /\ (at = "down" => toBase = <<>>)' /\ Prompt'
    BY <2>1 DEF Timely, Prompt, baseVars
  <2>3. motionAge' \in Nat /\ MotionTimeout \in Nat
    BY BaseAssumption DEF baseVars, DriveIInv, DriveTypeOK, BaseTypeOK
  <2>4. Counted'
    BY <2>1, <2>3 DEF Counted
  <2> QED BY <2>2, <2>4 DEF Timely
<1> QED BY <1>1, <1>2

\* What the handlers of the robot server publish is a result.
LEMMA RobotStepIsResult ==
  ASSUME DriveIInv,
         \/ ClientCommand \/ Scan \/ OdometryArrives \/ RobotRound
         \/ RobotShutdown \/ RobotKilled
  PROVE  /\ \E result \in Result : Does(result)
         /\ UNCHANGED baseVars /\ UNCHANGED <<failing, baseRan>>
<1>0. /\ robot \in RobotState
      /\ toRobot \in {<<>>} \cup {<<tv>> : tv \in -MaxTv .. MaxTv}
  BY DEF DriveIInv, DriveTypeOK
<1>1. CASE ClientCommand
  <2> PICK msg \in Commands, heading \in Headings : Does(Handle(robot, msg, heading))
    BY <1>1 DEF ClientCommand
  <2>1. Handle(robot, msg, heading) \in Result
    BY <1>0, HandleType, DriveAssumption
  <2> QED BY <1>1, <2>1 DEF ClientCommand
<1>2. CASE Scan
  <2> PICK throttled \in BOOLEAN :
        \/ \E limit \in FrontLimits : Does(FrontLaserHandler(robot, limit, throttled))
        \/ \E limit \in RearLimits : Does(RearLaserHandler(robot, limit, throttled))
    BY <1>2 DEF Scan
  <2>1. \E result \in Result : Does(result)
    BY <1>0, FrontLaserType, RearLaserType, DriveAssumption
  <2> QED BY <1>2, <2>1 DEF Scan
<1>3. CASE OdometryArrives
  <2> PICK way \in {0, toRobot[1]} : Does(OdometryHandler(robot, toRobot[1], way))
    BY <1>3 DEF OdometryArrives
  <2>1. toRobot[1] \in Int /\ way \in Int
    BY <1>0, <1>3, RobotAssumption DEF OdometryArrives
  <2>2. OdometryHandler(robot, toRobot[1], way) \in Result
    BY <1>0, <2>1, OdometryType
  <2> QED BY <1>3, <2>2 DEF OdometryArrives
<1>4. CASE RobotRound
  <2> PICK heading \in Headings : Does(RobotRun(robot, heading))
    BY <1>4 DEF RobotRound
  <2>1. RobotRun(robot, heading) \in Result
    BY <1>0, RunType
  <2> QED BY <1>4, <2>1 DEF RobotRound
<1>5. CASE RobotShutdown
  <2> PICK stopped \in Result : stopped = StopRobot(robot, FALSE)
    BY <1>0, StopType
  <2> PICK result : result = [stopped EXCEPT !.robot = RobotStart]
    OBVIOUS
  <2>1. result \in Result
    BY StartType DEF Result
  <2> QED BY <1>5, <2>1 DEF RobotShutdown
<1>6. CASE RobotKilled
  <2>1. Quiet(RobotStart) \in Result
    BY StartType, QuietType
  <2> QED BY <1>6, <2>1 DEF RobotKilled
<1> QED BY <1>1, <1>2, <1>3, <1>4, <1>5, <1>6

LEMMA RobotStepTimely ==
  ASSUME DriveIInv, Timely,
         \/ ClientCommand \/ Scan \/ OdometryArrives \/ RobotRound
         \/ RobotShutdown \/ RobotKilled \/ RobotStarts
  PROVE  Timely'
<1>1. CASE RobotStarts
  BY <1>1 DEF RobotStarts, Timely, Prompt, Counted, Running, Undisturbed, BaseGone,
              TimedOut, baseVars
<1>2. CASE ~RobotStarts
  BY <1>2, RobotStepIsResult, DoesTimely
<1> QED BY <1>1, <1>2

LEMMA BaseStepTimely ==
  ASSUME DriveIInv, Timely, MotionTimeout > 0,
         \/ BaseTakesVelocity \/ BaseTakesDirect \/ BaseRound
         \/ BaseCallSucceeds \/ BaseCallFails \/ BaseEnds \/ BaseRestarts
  PROVE  Timely'
<1>0. /\ motionAge \in Nat /\ MotionTimeout \in Nat /\ askedAge \in Nat
      /\ BaseInv
  BY BaseAssumption DEF DriveIInv, DriveTypeOK, BaseTypeOK
<1>1. CASE BaseTakesVelocity
  <2>1. /\ at = "idle" /\ toBase # <<>> /\ toBase' = <<>>
        /\ at' \in {"decelerate", "accelerate", "setVelocity"}
        /\ UNCHANGED <<motionAge, resetDue, commanded, motors, failing, baseRan,
                       askedAge, disturbed>>
    BY <1>1 DEF BaseTakesVelocity, TakeVelocity
  <2> QED BY <1>0, <2>1 DEF Timely, Prompt, Counted, Running, Undisturbed, BaseGone,
                            TimedOut
<1>2. CASE BaseTakesDirect
  BY <1>2 DEF BaseTakesDirect, TakeDirect, Timely, Prompt, Counted, Running, Undisturbed,
              BaseGone, TimedOut
<1>3. CASE BaseRound
  <2>0. /\ ~baseRan /\ baseRan' = TRUE /\ at = "idle"
        /\ UNCHANGED <<toBase, failing, askedAge, disturbed, motionAge, commanded, motors>>
    BY <1>3 DEF BaseRound, AnnounceReset, StartRound
  <2>1. CASE AnnounceReset
    BY <1>0, <2>0, <2>1
       DEF AnnounceReset, Timely, Prompt, Counted, Running, Undisturbed, BaseGone, TimedOut
  <2>2. CASE StartRound
    <3>1. /\ ~resetDue /\ ~resetDue'
          /\ at' = IF moving /\ TimedOut THEN "timeoutDecelerate" ELSE "status"
      BY <2>2 DEF StartRound
    <3>2. Running => moving
      BY <1>0, <2>0 DEF BaseInv, Running
    <3> QED BY <1>0, <2>0, <3>1, <3>2
            DEF Timely, Prompt, Counted, Running, Undisturbed, BaseGone, TimedOut
  <2> QED BY <1>3, <2>1, <2>2 DEF BaseRound
<1>4. CASE BaseCallSucceeds
  <2>0. /\ at \in Calls /\ at' = AfterCall[at] /\ failing' = FALSE
        /\ commanded' = (commanded \/ at \in {"setVelocity", "timeoutStop"})
        /\ motors' = CASE at = "setVelocity" -> taken
                       [] at = "timeoutStop" -> Zero
                       [] OTHER              -> motors
        /\ motionAge' = IF at = "setVelocity" THEN 0 ELSE motionAge
        /\ UNCHANGED <<toBase, askedAge, disturbed, resetDue, baseRan>>
    BY <1>4 DEF BaseCallSucceeds, CallSucceeds
  <2>1. /\ at \in {"decelerate", "accelerate"} => at' = "setVelocity"
        /\ at = "timeoutDecelerate" => at' = "timeoutStop"
        /\ at = "timeoutStop" => at' = "status"
        /\ at \in {"setVelocity", "status", "direct"} => at' = "idle"
    BY <2>0 DEF AfterCall, Calls
  <2>2. at \in Calls => ~BaseGone
    BY DEF Calls, BaseGone
  <2>3. CASE at = "setVelocity"
    <3>1. Undisturbed' => askedAge' = 0
      BY <2>0, <2>2, <2>3 DEF Timely, Prompt, Undisturbed
    <3> QED BY <1>0, <2>0, <2>1, <2>3, <3>1 DEF Timely, Prompt, Counted, Running
  <2>4. CASE at = "timeoutStop"
    <3>1. motors' = Zero
      BY <2>0, <2>4
    <3> QED BY <2>0, <2>1, <2>2, <2>4, <3>1
            DEF Timely, Prompt, Counted, Running, Undisturbed
  <2>5. CASE at \notin {"setVelocity", "timeoutStop"}
    <3>1. UNCHANGED <<commanded, motors, motionAge>>
      BY <1>0, <2>0, <2>5 DEF DriveIInv, DriveTypeOK, BaseTypeOK
    <3> QED BY <1>0, <2>0, <2>1, <2>2, <2>5, <3>1
            DEF Timely, Prompt, Counted, Running, Undisturbed, TimedOut, Calls
  <2> QED BY <2>3, <2>4, <2>5
<1>5. CASE BaseCallFails
  <2>1. at \in Calls /\ at' = at /\ disturbed' = TRUE
    BY <1>5 DEF BaseCallFails, CallFails
  <2> QED BY <2>1 DEF Timely, Prompt, Counted, Running, Undisturbed, Calls
<1>6. CASE BaseEnds
  <2>1. /\ at' \in {"down", "hung"} /\ (at' = "down" => toBase' = <<>>)
        /\ failing' = FALSE
    BY <1>6 DEF BaseEnds, BaseDies, BaseFaults
  <2> QED BY <2>1 DEF Timely, Prompt, Counted, Running, Undisturbed, BaseGone
<1>7. CASE BaseRestarts
  <2>1. /\ at = "down" /\ at' = "idle" /\ ~commanded /\ toBase = <<>>
        /\ UNCHANGED <<commanded, toBase, failing, disturbed>>
    BY <1>0, <1>7 DEF BaseRestarts, BaseStarts, BaseInv, BaseGone, Timely
  <2> QED BY <2>1 DEF Timely, Prompt, Counted, Running
<1> QED BY <1>1, <1>2, <1>3, <1>4, <1>5, <1>6, <1>7

\* A round passes only with the base at rest and its own round behind it.
LEMMA TickTimely ==
  ASSUME DriveIInv, Timely, MotionTimeout > 0, Tick
  PROVE  Timely'
<1>0. /\ motionAge \in Nat /\ MotionTimeout \in Nat /\ askedAge \in Nat
      /\ at \in Calls \cup {"idle", "down", "hung"} /\ BaseInv
  BY BaseAssumption DEF DriveIInv, DriveTypeOK, BaseTypeOK
<1>1. /\ at = "idle" => baseRan /\ toBase = <<>>
      /\ at \in Calls => failing
      /\ baseRan' = FALSE
      /\ motionAge' = IF TimedOut THEN motionAge ELSE motionAge + 1
      /\ askedAge' = IF askedAge = MotionTimeout + 2 THEN askedAge ELSE askedAge + 1
      /\ UNCHANGED <<at, moving, resetDue, commanded, motors, toBase, failing, disturbed>>
  BY DEF Tick, BaseAges
<1>2. Undisturbed' => at = "idle" /\ Undisturbed
  BY <1>0, <1>1 DEF Timely, Undisturbed, BaseGone
<1>3. Prompt'
  BY <1>1, <1>2 DEF Prompt
<1>4. Counted'
  <2> SUFFICES ASSUME Running' PROVE
        /\ askedAge' <= motionAge' \/ TimedOut'
        /\ askedAge' <= MotionTimeout + 1
        /\ resetDue' => askedAge' = 0 \/ (askedAge' = 1 /\ ~baseRan')
    BY <1>1, <1>0 DEF Counted
  <2>1. Running /\ at = "idle" /\ baseRan
    BY <1>1, <1>2 DEF Running
  <2>2. /\ askedAge <= motionAge \/ TimedOut
        /\ askedAge <= MotionTimeout
        /\ resetDue => askedAge = 0
    BY <2>1 DEF Timely, Counted
  <2>3. askedAge' = askedAge + 1
    BY <1>0, <1>1, <2>2
  <2> QED BY <1>0, <1>1, <2>2, <2>3 DEF TimedOut
<1> QED BY <1>1, <1>3, <1>4 DEF Timely

\* While the driver answers, the motors run at most one round longer than the motion
\* time-out after the last velocity that was published, provided the time-out is at least
\* a round: with none the announcement of a reset could take its place.
THEOREM MotionIsBounded ==
  ASSUME MotionTimeout > 0
  PROVE  Spec => []MotionBounded
<1>1. Init => Timely
  BY DEF Init, BaseInit, Timely, Prompt, Counted, Running, Undisturbed
<1>2. DriveIInv /\ Timely /\ [Next]_vars => Timely'
  <2> SUFFICES ASSUME DriveIInv, Timely, [Next]_vars PROVE Timely'
    OBVIOUS
  <2>1. CASE Next
    BY <2>1, RobotStepTimely, BaseStepTimely, TickTimely DEF Next, Step
  <2>2. CASE UNCHANGED vars
    BY <2>2 DEF vars, baseVars, Timely, Prompt, Counted, Running, Undisturbed, BaseGone,
                TimedOut
  <2> QED BY <2>1, <2>2
<1>3. Timely => MotionBounded
  BY DEF Timely, Counted, Running, Undisturbed, BaseGone, MotionBounded
<1> QED BY <1>1, <1>2, <1>3, Invariant, PTL DEF Spec

-----------------------------------------------------------------------------
(* How an obstacle stops the robot. *)

PassingOn == {"decelerate", "accelerate", "setVelocity"}

\* Neither the motors nor what is on its way to them goes forward.
Halted ==
  /\ motors.tv <= 0
  /\ toBase # <<>> => toBase[1].tv <= 0
  /\ at \in PassingOn => taken.tv <= 0

\* The robot goes forward and the robot server has not heard so in this round, but
\* will: the base's round is to come, or ends with a report of the odometry.
Going ==
  /\ asked.tv > 0 /\ robot.tv > 0
  /\ motors = asked /\ toBase = <<>> /\ at \notin PassingOn
  /\ toRobot \in {<<>>, <<asked.tv>>}
  /\ baseRan => \/ at \in {"timeoutDecelerate", "timeoutStop", "status"}
                \/ toRobot # <<>>

HaltInv ==
  blocked # 0 =>
    /\ Blocked
    /\ Halted \/ (blocked = 1 /\ (asked.tv <= 0 \/ Going))

\* In front of an obstacle the robot server publishes nothing that goes forward, and
\* after a report that the robot does go forward it publishes something.
LEMMA RobotStepHolds ==
  ASSUME DriveIInv, robot.front = 0,
         ClientCommand \/ Scan \/ OdometryArrives \/ RobotRound
  PROVE  \E result \in Result :
           /\ Does(result)
           /\ Holds(robot, result)
           /\ OdometryArrives /\ toRobot[1] > 0 /\ robot.tv > 0 => Slow(result)
           /\ OdometryArrives \/ UNCHANGED toRobot
<1>0. /\ robot \in RobotState
      /\ toRobot \in {<<>>} \cup {<<tv>> : tv \in -MaxTv .. MaxTv}
  BY DEF DriveIInv, DriveTypeOK
<1>1. CASE OdometryArrives
  <2> PICK way \in {0, toRobot[1]} : Does(OdometryHandler(robot, toRobot[1], way))
    BY <1>1 DEF OdometryArrives
  <2>1. toRobot[1] \in Int /\ way \in Int
    BY <1>0, <1>1, RobotAssumption DEF OdometryArrives
  <2>2. OdometryHandler(robot, toRobot[1], way) \in Result
    BY <1>0, <2>1, OdometryType
  <2> QED BY <1>0, <1>1, <2>1, <2>2, OdometryHolds
<1>2. CASE ~OdometryArrives /\ ClientCommand
  <2> PICK msg \in Commands, heading \in Headings : Does(Handle(robot, msg, heading))
    BY <1>2 DEF ClientCommand
  <2>1. Handle(robot, msg, heading) \in Result /\ Holds(robot, Handle(robot, msg, heading))
    BY <1>0, HandleType, HandleHolds, DriveAssumption
  <2> QED BY <1>2, <2>1 DEF ClientCommand
<1>3. CASE ~OdometryArrives /\ Scan
  <2> PICK throttled \in BOOLEAN :
        \/ \E limit \in FrontLimits : Does(FrontLaserHandler(robot, limit, throttled))
        \/ \E limit \in RearLimits : Does(RearLaserHandler(robot, limit, throttled))
    BY <1>3 DEF Scan
  <2>1. \E result \in Result : Does(result) /\ Holds(robot, result)
    BY <1>0, FrontLaserType, RearLaserType, FrontLaserHolds, RearLaserHolds,
       DriveAssumption
  <2> QED BY <1>3, <2>1 DEF Scan
<1>4. CASE ~OdometryArrives /\ RobotRound
  <2> PICK heading \in Headings : Does(RobotRun(robot, heading))
    BY <1>4 DEF RobotRound
  <2>1. RobotRun(robot, heading) \in Result /\ Holds(robot, RobotRun(robot, heading))
    BY <1>0, RunType, RunHolds
  <2> QED BY <1>4, <2>1 DEF RobotRound
<1> QED BY <1>1, <1>2, <1>3, <1>4

LEMMA RobotStepHalt ==
  ASSUME DriveIInv, HaltInv, blocked # 0, blocked' = blocked, Blocked',
         \/ ClientCommand \/ Scan \/ OdometryArrives \/ RobotRound
         \/ RobotShutdown \/ RobotKilled \/ RobotStarts
  PROVE  HaltInv'
<1>0. /\ robot \in RobotState /\ asked \in Velocity
      /\ robot.front = 0 /\ robotUp /\ robotUp' /\ at # "down"
  BY DEF DriveIInv, DriveTypeOK, HaltInv, Blocked, BaseGone
<1>1. ClientCommand \/ Scan \/ OdometryArrives \/ RobotRound
  BY <1>0 DEF RobotShutdown, RobotKilled, RobotStarts
<1>2. UNCHANGED <<at, taken, motors, baseRan>>
  BY <1>1 DEF ClientCommand, Scan, OdometryArrives, RobotRound, baseVars
<1> PICK result \in Result :
      /\ Does(result)
      /\ Holds(robot, result)
      /\ OdometryArrives /\ toRobot[1] > 0 /\ robot.tv > 0 => Slow(result)
      /\ OdometryArrives \/ UNCHANGED toRobot
  BY <1>0, <1>1, RobotStepHolds
<1>3. CASE Slow(result)
  <2>1. toBase' = result.out /\ asked' = result.out[1] /\ result.out[1].tv <= 0
    BY <1>0, <1>3 DEF Does, Slow
  <2>2. Halted => Halted'
    BY <1>2, <2>1 DEF Halted
  <2>3. asked'.tv <= 0
    BY <2>1
  <2> QED BY <2>2, <2>3 DEF HaltInv
<1>4. CASE ~Slow(result)
  <2>1. /\ UNCHANGED <<toBase, asked>> /\ robot'.tv = robot.tv
    BY <1>4 DEF Does, Holds
  <2>2. Halted => Halted'
    BY <1>2, <2>1 DEF Halted
  <2>3. Going => Going'
    <3> SUFFICES ASSUME Going PROVE Going'
      OBVIOUS
    <3>1. UNCHANGED toRobot
      <4> SUFFICES ASSUME OdometryArrives PROVE FALSE
        OBVIOUS
      <4>1. toRobot = <<asked.tv>>
        BY DEF Going, OdometryArrives
      <4>2. toRobot[1] > 0 /\ robot.tv > 0
        BY <4>1 DEF Going
      <4> QED BY <1>4, <4>2
    <3> QED BY <1>2, <2>1, <3>1 DEF Going
  <2> QED BY <2>1, <2>2, <2>3 DEF HaltInv
<1> QED BY <1>3, <1>4

LEMMA BaseStepHalt ==
  ASSUME DriveIInv, HaltInv, blocked # 0, blocked' = blocked, Blocked', ~NoOdometry,
         \/ BaseTakesVelocity \/ BaseTakesDirect \/ BaseRound
         \/ BaseCallSucceeds \/ BaseCallFails \/ BaseEnds \/ BaseRestarts
  PROVE  HaltInv'
<1>0. /\ ~BaseGone /\ ~BaseGone' /\ ~failing' /\ ~resetDue
      /\ motors \in Velocity /\ asked \in Velocity
  BY DEF HaltInv, Blocked, DriveIInv, DriveTypeOK, BaseTypeOK
<1>1. UNCHANGED <<asked, robot>>
  BY DEF BaseTakesVelocity, BaseTakesDirect, BaseRound, BaseCallSucceeds,
         BaseCallFails, BaseEnds, BaseRestarts
<1>2. SUFFICES (Halted => Halted') /\ (Going => Going' \/ Halted')
  BY <1>1 DEF HaltInv
<1>3. CASE BaseTakesVelocity
  <2>1. /\ toBase # <<>> /\ toBase' = <<>> /\ taken' = toBase[1]
        /\ UNCHANGED motors
    BY <1>3 DEF BaseTakesVelocity, TakeVelocity
  <2> QED BY <2>1 DEF Halted, Going
<1>4. CASE BaseTakesDirect
  <2>1. at = "idle" /\ at' = "direct" /\ UNCHANGED <<taken, motors, toBase, toRobot, baseRan>>
    BY <1>4 DEF BaseTakesDirect, TakeDirect
  <2> QED BY <1>1, <2>1 DEF Halted, Going, PassingOn
<1>5. CASE BaseRound
  <2>1. /\ at = "idle" /\ at' \in {"timeoutDecelerate", "status"}
        /\ UNCHANGED <<taken, motors, toBase, toRobot>>
    BY <1>0, <1>5 DEF BaseRound, AnnounceReset, StartRound
  <2> QED BY <1>1, <2>1 DEF Halted, Going, PassingOn
<1>6. CASE BaseCallSucceeds
  <2>0. /\ at \in Calls /\ at' = AfterCall[at]
        /\ UNCHANGED <<toBase, baseRan>>
    BY <1>6 DEF BaseCallSucceeds, CallSucceeds
  <2>1. /\ at \in {"decelerate", "accelerate"} => at' = "setVelocity"
        /\ at = "timeoutDecelerate" => at' = "timeoutStop"
        /\ at = "timeoutStop" => at' = "status"
        /\ at \in {"setVelocity", "status", "direct"} => at' = "idle"
    BY <2>0 DEF AfterCall, Calls
  <2>2. /\ motors' = CASE at = "setVelocity" -> taken
                       [] at = "timeoutStop" -> Zero
                       [] OTHER              -> motors
        /\ taken' = IF at = "setVelocity" THEN Zero ELSE taken
    BY <1>6 DEF BaseCallSucceeds, CallSucceeds
  <2>3. \/ at = "status" /\ toRobot' = <<motors.tv>>
        \/ UNCHANGED toRobot
    BY <1>6 DEF BaseCallSucceeds
  <2>4. CASE at = "setVelocity"
    <3>1. motors' = taken /\ at' = "idle"
      BY <2>1, <2>2, <2>4
    <3> QED BY <2>0, <2>4, <3>1 DEF Halted, Going, PassingOn
  <2>5. CASE at = "timeoutStop"
    <3>1. motors'.tv = 0 /\ at' = "status"
      BY <2>1, <2>2, <2>5 DEF Zero
    <3> QED BY <2>0, <3>1 DEF Halted, Going, PassingOn
  <2>6. CASE at \notin {"setVelocity", "timeoutStop"}
    <3>1. UNCHANGED <<motors, taken>>
      BY <1>0, <2>2, <2>6 DEF DriveIInv, DriveTypeOK, BaseTypeOK
    <3>2. Halted => Halted'
      BY <2>0, <2>1, <2>6, <3>1 DEF Halted, PassingOn, Calls
    <3>3. Going => Going'
      <4> SUFFICES ASSUME Going PROVE Going'
        OBVIOUS
      <4>1. at \in {"timeoutDecelerate", "status", "direct"}
        BY <2>0, <2>6 DEF Going, PassingOn, Calls
      <4>2. CASE at = "status"
        <5>1. toRobot' # <<>> /\ at' = "idle"
          BY <2>1, <4>2 DEF NoOdometry
        <5> QED BY <1>1, <2>0, <2>3, <3>1, <5>1 DEF Going, PassingOn
      <4>3. CASE at # "status"
        BY <1>1, <2>0, <2>1, <2>3, <3>1, <4>1, <4>3 DEF Going, PassingOn
      <4> QED BY <4>2, <4>3
    <3> QED BY <3>2, <3>3
  <2> QED BY <2>4, <2>5, <2>6
<1>7. CASE BaseCallFails \/ BaseEnds \/ BaseRestarts
  BY <1>0, <1>7 DEF BaseCallFails, BaseEnds, BaseDies, BaseFaults, BaseRestarts,
                    BaseStarts, BaseGone
<1> QED BY <1>3, <1>4, <1>5, <1>6, <1>7

\* When a round passes in front of an obstacle, all is handled: the motors run at the
\* newest velocity or stand still.
LEMMA TickHalt ==
  ASSUME DriveIInv, HaltInv, Tick, Blocked',
         blocked' = IF blocked = 2 THEN 2 ELSE blocked + 1
  PROVE  HaltInv'
<1>0. /\ robot \in RobotState /\ asked \in Velocity /\ motors \in Velocity
      /\ at \in Calls \cup {"idle", "down", "hung"}
      /\ blocked \in 0 .. 2
      /\ toRobot \in {<<>>} \cup {<<tv>> : tv \in -MaxTv .. MaxTv}
      /\ DriveInv
  BY DEF DriveIInv, DriveTypeOK, BaseTypeOK
<1>1. /\ UNCHANGED <<at, taken, motors, commanded, failing, asked, toBase, toRobot, robotUp>>
      /\ robot' = RobotAges(robot)
      /\ baseRan' = FALSE
  BY DEF Tick, BaseAges
<1>2. robot'.tv = robot.tv
  BY <1>0, <1>1, AgesKeeps
<1>3. at = "idle" /\ commanded /\ toBase = <<>> /\ toRobot = <<>> /\ baseRan
  BY <1>0, <1>1 DEF Tick, Blocked, BaseGone
<1>4. motors \in {Zero, asked}
  BY <1>0, <1>3 DEF DriveInv
<1>5. motors.tv <= 0 => Halted'
  BY <1>1, <1>3 DEF Halted, PassingOn
<1>6. CASE motors.tv <= 0
  BY <1>5, <1>6 DEF HaltInv
<1>7. CASE ~(motors.tv <= 0)
  <2>1. motors = asked /\ asked.tv > 0
    BY <1>0, <1>4, <1>7 DEF Zero, Velocity
  <2>2. ~Halted /\ ~Going
    BY <1>3, <1>7 DEF Halted, Going
  <2>3. blocked = 0
    BY <1>0, <2>1, <2>2 DEF HaltInv, Velocity
  <2>4. robot'.tv > 0
    BY <1>1, <2>1 DEF Blocked
  <2>5. Going'
    BY <1>1, <1>3, <2>1, <2>4 DEF Going, PassingOn
  <2> QED BY <2>3, <2>5 DEF HaltInv
<1> QED BY <1>6, <1>7

\* An obstacle that stays in front has stopped the robot one full round after the round in
\* which it was seen, for every time-out and whatever clients command meanwhile.
THEOREM ObstacleHalts == Spec => []ObstacleStops
<1>1. Init => HaltInv
  BY DEF Init, HaltInv
<1>2. DriveIInv /\ HaltInv /\ [Next]_vars => HaltInv'
  <2> SUFFICES ASSUME DriveIInv, HaltInv, [Next]_vars, blocked' # 0 PROVE HaltInv'
    BY DEF HaltInv
  <2>1. CASE Step /\ blocked' = IF Blocked' /\ ~NoOdometry THEN blocked ELSE 0
    <3>1. Blocked' /\ ~NoOdometry /\ blocked' = blocked /\ blocked # 0
      BY <2>1
    <3> QED BY <2>1, <3>1, RobotStepHalt, BaseStepHalt DEF Step
  <2>2. CASE Tick /\ blocked' = IF ~Blocked' THEN 0 ELSE IF blocked = 2 THEN 2 ELSE blocked + 1
    BY <2>2, TickHalt
  <2>3. CASE UNCHANGED vars
    BY <2>3 DEF vars, baseVars, HaltInv, Halted, Going, Blocked, BaseGone
  <2> QED BY <2>1, <2>2, <2>3 DEF Next
<1>3. HaltInv => ObstacleStops
  BY DEF HaltInv, Halted, ObstacleStops
<1> QED BY <1>1, <1>2, <1>3, Invariant, PTL DEF Spec
=============================================================================
