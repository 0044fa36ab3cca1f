------------------------------- MODULE Motion -------------------------------
(***************************************************************************)
(* Autonomous motion: users set goals and send the navigator off and stop    *)
(* it, the navigator sends the robot server along its path, and central      *)
(* queues the messages of both.                                              *)
(*                                                                          *)
(* The base and the lasers are out of this composition (Drive has them): the *)
(* velocities the robot server publishes go nowhere and nothing is in its    *)
(* way.  What the navigator hears from the sensors is handled when it comes; *)
(* it says nothing the order of the commands would matter for.               *)
(***************************************************************************)
EXTENDS CarmenRobot, CarmenNavigator, IpcCentral

CONSTANT Trajectories   \* what the navigator may send, as CarmenRobot takes it

ASSUME MotionAssumption == Trajectories \subseteq {msg \in Message : msg.name = "follow"}

VARIABLES
  nav,         \* the state of the navigator, or what a new one starts with
  navUp,
  navQueue,    \* central's queue for the navigator
  robot,       \* the state of the robot server, likewise
  robotUp,
  robotQueue,
  lastStop     \* history: "none" if no stop was published, or a go since; else what
               \*   became of it: "kept", or it "overtook" a go in central or its
               \*   effect a trajectory, or "lost", as the navigator was gone or died

vars == <<nav, navUp, navQueue, robot, robotUp, robotQueue, lastStop>>

Go == [name |-> "go"]
Stop == [name |-> "stop"]
SetGoal == [name |-> "set_goal"]

NavMessage == {Go, Stop, SetGoal}

RobotMessage == {StopMessage, FollowMessage}

\* A robot server with nothing in its way.
RobotReady == [RobotStart EXCEPT !.front = MaxTv]

QueueTypeOK(queue, messages) ==
  /\ queue.attending \in messages \cup {Nobody}
  /\ \A i \in DOMAIN queue.pending : queue.pending[i] \in messages

MotionTypeOK ==
  /\ nav \in NavState
  /\ QueueTypeOK(navQueue, NavMessage)
  /\ robot \in RobotState
  /\ QueueTypeOK(robotQueue, RobotMessage)
  /\ navUp \in BOOLEAN /\ robotUp \in BOOLEAN
  /\ lastStop \in {"none", "kept", "overtook", "lost"}

Init ==
  /\ nav = NavStart /\ navUp = TRUE /\ navQueue = IdleQueue
  /\ robot = RobotReady /\ robotUp = TRUE /\ robotQueue = IdleQueue
  /\ lastStop = "none"

-----------------------------------------------------------------------------
(* Users: the navigator panel, missions and programs. *)

ToNav(queue, msg) == IF navUp THEN Arrive(queue, msg) ELSE queue

UserGoes ==
  /\ navQueue' = ToNav(navQueue, Go)
  /\ lastStop' = "none"
  /\ UNCHANGED <<nav, navUp, robot, robotUp, robotQueue>>

UserStops ==
  /\ navQueue' = ToNav(navQueue, Stop)
  /\ lastStop' = CASE ~navUp -> "lost"
                   [] navUp /\ "go" \in Overtaken(navQueue, Stop) -> "overtook"
                   [] OTHER -> "kept"
  /\ UNCHANGED <<nav, navUp, robot, robotUp, robotQueue>>

UserSetsGoal ==
  /\ navQueue' = ToNav(navQueue, SetGoal)
  /\ UNCHANGED <<nav, navUp, robot, robotUp, robotQueue, lastStop>>

\* exec_carmen_navigate, which a mission calls again and again.
MissionNavigates ==
  /\ navQueue' = ToNav(ToNav(navQueue, SetGoal), Go)
  /\ lastStop' = "none"
  /\ UNCHANGED <<nav, navUp, robot, robotUp, robotQueue>>

-----------------------------------------------------------------------------
(* The navigator. *)

\* A handler publishes at most one message to the robot server.
Publishes(result) ==
  /\ nav' = result.nav
  /\ robotQueue' = IF result.out = <<>> \/ ~robotUp THEN robotQueue
                   ELSE Arrive(robotQueue, result.out[1])

NavHandles ==
  /\ navQueue.attending # Nobody
  /\ CASE navQueue.attending = Go ->
            \E way \in WaysOf(nav) : Publishes(GoHandler(nav, way))
       [] navQueue.attending = Stop ->
            Publishes(StopHandler(nav))
       [] navQueue.attending = SetGoal ->
            \E another \in BOOLEAN, reach \in Reaches :
              Publishes(GoalHandler(nav, another, reach))
  /\ navQueue' = Finish(navQueue)
  /\ lastStop' = IF /\ navQueue.attending = Stop
                    /\ lastStop = "kept"
                    /\ "follow" \in Overtaken(robotQueue, StopMessage)
                   THEN "overtook" ELSE lastStop
  /\ UNCHANGED <<navUp, robot, robotUp>>

NavHearsPosition ==
  /\ navUp /\ nav.autonomous
  /\ \E way \in WaysOf(nav) : Publishes(PositionHandler(nav, way))
  /\ UNCHANGED <<navUp, navQueue, robot, robotUp, lastStop>>

NavHearsLaser ==
  /\ navUp
  /\ \E isFront \in BOOLEAN, reach \in Reaches :
       Publishes(LaserHandler(nav, isFront, reach))
  /\ UNCHANGED <<navUp, navQueue, robot, robotUp, lastStop>>

TimePasses ==
  /\ nav' = PlanAges(nav)
  /\ UNCHANGED <<navUp, navQueue, robot, robotUp, robotQueue, lastStop>>

\* SIGINT or any other end: the robot server is not told.
NavEnds ==
  /\ navUp
  /\ navUp' = FALSE
  /\ nav' = NavStart
  /\ navQueue' = IdleQueue
  /\ lastStop' = IF lastStop = "none" THEN "none" ELSE "lost"
  /\ UNCHANGED <<robot, robotUp, robotQueue>>

NavStarts ==
  /\ ~navUp
  /\ navUp' = TRUE
  /\ UNCHANGED <<nav, navQueue, robot, robotUp, robotQueue, lastStop>>

-----------------------------------------------------------------------------
(* The robot server. *)

Received(msg) == IF msg = FollowMessage THEN Trajectories ELSE {msg}

RobotHandles ==
  /\ robotQueue.attending # Nobody
  /\ \E heading \in Headings, msg \in Received(robotQueue.attending) :
       robot' = Handle(robot, msg, heading).robot
  /\ robotQueue' = Finish(robotQueue)
  /\ UNCHANGED <<nav, navUp, navQueue, robotUp, lastStop>>

RobotRound ==
  /\ robotUp
  /\ \E heading \in Headings : robot' = RobotRun(robot, heading).robot
  /\ UNCHANGED <<nav, navUp, navQueue, robotUp, robotQueue, lastStop>>

RobotEnds ==
  /\ robotUp
  /\ robotUp' = FALSE
  /\ robot' = RobotReady
  /\ robotQueue' = IdleQueue
  /\ UNCHANGED <<nav, navUp, navQueue, lastStop>>

RobotStarts ==
  /\ ~robotUp
  /\ robotUp' = TRUE
  /\ UNCHANGED <<nav, navUp, navQueue, robot, robotQueue, lastStop>>

-----------------------------------------------------------------------------

Next ==
  \/ UserGoes \/ UserStops \/ UserSetsGoal \/ MissionNavigates
  \/ NavHandles \/ NavHearsPosition \/ NavHearsLaser \/ TimePasses
  \/ NavEnds \/ NavStarts
  \/ RobotHandles \/ RobotRound
  \/ RobotEnds \/ RobotStarts

\* Handlers return, the front laser keeps sending, and time passes.  Nobody has to
\* command anything, the robot server's loop may be held up, and what has ended
\* need not be started again.
Fairness ==
  /\ WF_vars(NavHandles) /\ WF_vars(NavHearsLaser) /\ WF_vars(TimePasses)
  /\ WF_vars(RobotHandles)

Spec == Init /\ [][Next]_vars
FairSpec == Spec /\ Fairness

-----------------------------------------------------------------------------
(* Properties. *)

\* Central never keeps a message waiting for an idle receiver, and never more
\* messages of a name than the receiver asked for.
QueuesKept ==
  \A queue \in {navQueue, robotQueue} : WithinLimit(queue) /\ WaitsOnlyBehind(queue)

Settled == navQueue = IdleQueue /\ robotQueue = IdleQueue

AtRest == ~nav.autonomous /\ ~robot.following

\* Once every message is handled, a stop that was the users' last word has ended
\* the autonomous motion in both processes, except one that overtook.
StopSticks == Settled /\ lastStop = "kept" => AtRest

\* A stop takes effect, if nothing happens to it on its way.
StopTakesEffect == lastStop = "kept" ~> (AtRest \/ lastStop # "kept")

\* A goal that is set during autonomous motion is planned for in the end, however
\* soon after another plan it came.
GoalTakenUp ==
  (nav.autonomous /\ nav.goalSet) ~> (~nav.autonomous \/ nav.current)

\* A navigator that ends its autonomous motion on a report of the robot's position,
\* a goal reached, has a path to that goal, or to the free point nearest to it.
ReachedIsCurrent ==
  [][nav.autonomous /\ ~nav'.autonomous /\ navUp' /\ navQueue' = navQueue
       => nav.accessible \/ nav.current]_vars
=============================================================================
