--------------------------- MODULE CarmenNavigator ---------------------------
(***************************************************************************)
(* The handlers of CARMEN's navigator (src/src/navigator): it plans a path   *)
(* to the goal it was given and, while it is autonomous, sends the robot     *)
(* server along it.                                                          *)
(*                                                                          *)
(* The navigator is single-threaded.  Each handler is an operator from its   *)
(* state, a record, to [nav, out]: the state it leaves and the messages it   *)
(* publishes to the robot server, a sequence.  What depends on the map and   *)
(* the robot's place in it is an argument: reach, how near to the goal a     *)
(* plan can lead, and way, what the extraction of a path comes to.           *)
(* Modelled is the shipped configuration: plan_to_nearest_free_point on.     *)
(***************************************************************************)
EXTENDS Integers, Sequences

CONSTANT MapUpdates   \* navigator_map_update_obstacles or _freespace is on

ASSUME NavigatorAssumption == MapUpdates \in BOOLEAN

\* The robot can get to the goal, to a free point near it at best, or nowhere.
Reaches == {"goal", "nearby", "nowhere"}

\* No path, a robot at its end, and a path ahead.
Ways == {"none", "arrived", "ahead"}

NavState ==
  [autonomous : BOOLEAN,   \* autonomous_status
   goalSet : BOOLEAN,      \* goal_set
   current : BOOLEAN,      \* the value function was made for requested_goal
   havePlan : BOOLEAN,
   accessible : BOOLEAN,   \* goal_is_accessible
   recent : BOOLEAN]       \* planned less than 1/replan_frequency ago

NavStart ==
  [autonomous |-> FALSE, goalSet |-> FALSE, current |-> FALSE,
   havePlan |-> FALSE, accessible |-> FALSE, recent |-> FALSE]

StopMessage == [name |-> "velocity", tv |-> 0, rv |-> 0]

\* The points of the trajectory are left open.
FollowMessage == [name |-> "follow"]

-----------------------------------------------------------------------------
(* The planner. *)

\* plan: an early return leaves the value function of an earlier goal.
Plan_NeverAgain(nav, reach) ==
  IF nav.havePlan
    THEN nav
    ELSE [nav EXCEPT !.current = TRUE, !.recent = TRUE,
                     !.accessible = (reach = "goal"),
                     !.havePlan = (reach # "nowhere")]
Plan(nav, reach) ==
  IF nav.recent
    THEN nav
    ELSE [nav EXCEPT !.current = TRUE, !.recent = TRUE,
                     !.accessible = (reach = "goal"),
                     !.havePlan = (reach # "nowhere")]

\* The value function may lead from the robot to the end of the path or not; one
\* that was made for another goal leads there if the goal is on its way.
WaysOf(nav) == IF nav.havePlan THEN Ways ELSE {"none"}

-----------------------------------------------------------------------------

Silent(nav) == [nav |-> nav, out |-> <<>>]

\* generate_next_motion_command.  A path that ends is reported as a goal reached.
MotionCommand(nav, way) ==
  CASE way = "arrived" ->
         [nav |-> [nav EXCEPT !.autonomous = FALSE],
          out |-> <<StopMessage>>]
    [] way = "none" ->
         [nav |-> nav, out |-> <<StopMessage>>]
    [] way = "ahead" ->
         [nav |-> nav, out |-> <<FollowMessage>>]

\* carmen_navigator_start_autonomous, whether there is a goal or not.
GoHandler(nav, way) ==
  MotionCommand([nav EXCEPT !.autonomous = TRUE], way)

\* carmen_navigator_stop_autonomous
StopHandler_Silent(nav) == Silent([nav EXCEPT !.autonomous = FALSE])
StopHandler(nav) ==
  [nav |-> [nav EXCEPT !.autonomous = FALSE],
   out |-> <<StopMessage>>]

\* carmen_planner_update_goal, to another goal or the same again.
GoalHandler(nav, another, reach) ==
  Silent(Plan([nav EXCEPT !.goalSet = TRUE, !.current = @ /\ ~another], reach))

\* The odometry and the position localize reports.
PositionHandler(nav, way) ==
  IF nav.autonomous THEN MotionCommand(nav, way)
                    ELSE Silent(nav)

\* The lasers update the map, the front one only during autonomous motion, and
\* with it the plan.
LaserHandler(nav, isFront, reach) ==
  IF MapUpdates /\ (isFront => nav.autonomous) /\ nav.goalSet
    THEN Silent(Plan(nav, reach))
    ELSE Silent(nav)

\* 1/replan_frequency has passed since the last plan.
PlanAges(nav) == [nav EXCEPT !.recent = FALSE]
=============================================================================
