---------------------------- MODULE CnpPremission ----------------------------
(***************************************************************************)
(* The Contract Net Protocol before a mission                              *)
(* (CNP_Server_Manager::PremissionCNPBidding): the planner hands over      *)
(* tasks, their constraints and the robots' constraints, and gets back     *)
(* which robot does which task and how well that went.  One call is one    *)
(* behaviour; a step is one turn of one of its loops.                      *)
(*                                                                         *)
(* What a robot has is abstracted to the constraints it is seen to break   *)
(* and a grade for each kind of task.  The kinds differ in the constraints *)
(* they look at (the CalculateBid of the eleven CNP...Task classes):       *)
(*   - TrackTask refuses a robot for a medium, a kind of target and a time *)
(*     that do not suit it, and only halves its bid for the lack of        *)
(*     stealth;                                                            *)
(*   - InterceptTask, InspectTask and ObserveTask refuse it for a time that *)
(*     does not suit it too, and every robot for every other constraint,   *)
(*     because the test of the time stands outside the test of the name;   *)
(*   - EODTask and the six kinds about sensors look at no constraint.      *)
(* What remains of a bid, from sensors, discounts and the distance, is the *)
(* grade; one below 0 is 0 here.                                           *)
(***************************************************************************)
EXTENDS Naturals, FiniteSets, SequencesExt

CONSTANTS
  RobotIds,      \* the robots of a mission
  KnownNames,    \* CNP_TASK_NAMES
  OtherNames,    \* names a task may come with that are not in the table
  Constraints,   \* what a task may ask of a robot
  Heeded,        \* for each name, the constraints it refuses a robot for that breaks them
  Barring,       \* for each name, the constraints it refuses every robot for
  MaxGrade,      \* grades are 0..MaxGrade
  MaxTasks       \* bound of the instance: tasks in a call

ASSUME PremissionAssumption ==
  /\ RobotIds \subseteq Nat /\ IsFiniteSet(RobotIds)
  /\ KnownNames \cap OtherNames = {}
  /\ Heeded \in [KnownNames -> SUBSET Constraints]
  /\ Barring \in [KnownNames -> SUBSET Constraints]
  /\ MaxGrade \in Nat /\ MaxTasks \in Nat

VARIABLES
  tasks,          \* ListOfCNPTasks with the constraints given for each; the id is the place
  robots,         \* ListOfCNPRobotConstraints, by robot; one without constraints is not in it
  phase,          \* which of the loops runs
  at,             \* its iterator
  currentTasks,   \* tasks with all constraints of their name
  currentRobots,  \* the robots that may still get a task, by rising id
  mapping,        \* robotTaskMapping: pairs of a robot and a task's id
  status          \* of the output

vars == <<tasks, robots, phase, at, currentTasks, currentRobots, mapping, status>>
input == <<tasks, robots>>

TaskInfo == [name : KnownNames \cup OtherNames, needs : SUBSET Constraints]
Task == [id : 1..MaxTasks, name : KnownNames, constraints : SUBSET Constraints]
Robot == [breaks : SUBSET Constraints, grade : [KnownNames -> 0..MaxGrade]]
Statuses == {"normal", "excessive", "incomplete", "excessive_incomplete"}

Inputs == UNION {[1..n -> TaskInfo] : n \in 0..MaxTasks}
Fleets == UNION {[R -> Robot] : R \in SUBSET RobotIds}

\* instantiateCNPTask_ looks the name up in its table.
KnownTask(name) == name \in KnownNames

\* Constraints are attached by name, so tasks of one name share them all.
ConstraintsOf_OfFirst(name) ==
  tasks[CHOOSE j \in DOMAIN tasks : tasks[j].name = name].needs
ConstraintsOf(name) ==
  UNION {tasks[j].needs : j \in {k \in DOMAIN tasks : tasks[k].name = name}}

\* What a task of a name has against a robot, if it is among its constraints.
Objections(r, name) == (Heeded[name] \cap robots[r].breaks) \cup Barring[name]

BidOnTask(r, task) ==
  IF task.constraints \cap Objections(r, task.name) = {}
    THEN robots[r].grade[task.name] ELSE 0

\* The places in currentRobots whose bid exceeds dLargestBid, which stays 0.
Bidders_ButLast(task) ==
  {i \in DOMAIN currentRobots :
     i < Len(currentRobots) /\ BidOnTask(currentRobots[i], task) > 0}
Bidders(task) ==
  {i \in DOMAIN currentRobots : BidOnTask(currentRobots[i], task) > 0}

\* selectedRbtIter after the loop over the robots: each one that bids takes it over.
Selected(task) == CHOOSE i \in Bidders(task) : \A j \in Bidders(task) : j <= i

\* The robot that was selected is erased from the list.
Remaining_All(i) == currentRobots
Remaining(i) == RemoveAt(currentRobots, i)

\* A second task that nobody takes finds the status of the first and drops the
\* word about the robots.
StatusUnassigned_Excess ==
  IF status = "excessive" THEN "excessive_incomplete" ELSE status
StatusUnassigned ==
  IF status = "excessive" THEN "excessive_incomplete" ELSE "incomplete"

Init ==
  /\ tasks \in Inputs
  /\ robots \in Fleets
  /\ phase = "tasks"
  /\ at = 1
  /\ currentTasks = <<>>
  /\ currentRobots = <<>>
  /\ mapping = {}
  /\ status = "normal"

InstantiateTask ==
  /\ phase = "tasks"
  /\ at \in DOMAIN tasks
  /\ KnownTask(tasks[at].name)
  /\ currentTasks' = Append(currentTasks,
       [id |-> at, name |-> tasks[at].name, constraints |-> ConstraintsOf(tasks[at].name)])
  /\ at' = at + 1
  /\ UNCHANGED <<input, phase, currentRobots, mapping, status>>

SkipUnknownTask ==
  /\ phase = "tasks"
  /\ at \in DOMAIN tasks
  /\ ~KnownTask(tasks[at].name)
  /\ at' = at + 1
  /\ UNCHANGED <<input, phase, currentTasks, currentRobots, mapping, status>>

ListRobots ==
  /\ phase = "tasks"
  /\ at \notin DOMAIN tasks
  /\ \E list \in [1..Cardinality(DOMAIN robots) -> DOMAIN robots] :
       /\ Range(list) = DOMAIN robots
       /\ \A i, j \in DOMAIN list : i < j => list[i] < list[j]
       /\ currentRobots' = list
  /\ status' = IF Len(currentTasks) < Len(currentRobots') THEN "excessive" ELSE status
  /\ phase' = "bids"
  /\ at' = 1
  /\ UNCHANGED <<input, currentTasks, mapping>>

AssignTask ==
  /\ phase = "bids"
  /\ at \in DOMAIN currentTasks
  /\ Bidders(currentTasks[at]) # {}
  /\ LET i == Selected(currentTasks[at]) IN
       /\ mapping' = mapping \cup {<<currentRobots[i], currentTasks[at].id>>}
       /\ currentRobots' = Remaining(i)
  /\ at' = at + 1
  /\ UNCHANGED <<input, phase, currentTasks, status>>

LeaveTask ==
  /\ phase = "bids"
  /\ at \in DOMAIN currentTasks
  /\ Bidders(currentTasks[at]) = {}
  /\ status' = StatusUnassigned
  /\ at' = at + 1
  /\ UNCHANGED <<input, phase, currentTasks, currentRobots, mapping>>

Next == InstantiateTask \/ SkipUnknownTask \/ ListRobots \/ AssignTask \/ LeaveTask

Spec == Init /\ [][Next]_vars

-----------------------------------------------------------------------------
\* The call has gone through all tasks and returns.
Returned == phase = "bids" /\ at \notin DOMAIN currentTasks

\* The tasks bids were collected for, and the robot and tasks that were matched.
Considered == {currentTasks[i] : i \in {j \in DOMAIN currentTasks : phase = "bids" /\ j < at}}
Busy == {p[1] : p \in mapping}
Given == {p[2] : p \in mapping}
Left == {currentRobots[i] : i \in DOMAIN currentRobots}

(* Types of the input, the loops' state and the output. *)
TypeOK ==
  /\ tasks \in Inputs
  /\ robots \in Fleets
  /\ phase \in {"tasks", "bids"}
  /\ at \in Nat
  /\ currentTasks \in Seq(Task)
  /\ currentRobots \in Seq(DOMAIN robots)
  /\ mapping \subseteq (DOMAIN robots) \X (1..MaxTasks)
  /\ status \in Statuses

(* The multimap handed to the planner is a matching: a robot gets one task and *)
(* a task goes to one robot, and a robot is either matched or still to be had. *)
OneTaskOneRobot ==
  /\ \A p, q \in mapping : p[1] = q[1] <=> p[2] = q[2]
  /\ Busy \cap Left = {}
  /\ phase = "bids" => Busy \cup Left = DOMAIN robots

(* The greedy assignment is maximal: a task that was left to nobody has no     *)
(* robot that could do it among those that go without, whatever was assigned   *)
(* after it.                                                                   *)
NobodyLeftWilling ==
  \A task \in Considered : task.id \notin Given =>
    \A r \in Left : BidOnTask(r, task) = 0

\* The robots a mapping gives a task before this one, and the others that would do
\* this one.
TakenBefore(map, id) == {p[1] : p \in {q \in map : q[2] < id}}
Contenders(map, task) ==
  {r \in DOMAIN robots \ TakenBefore(map, task.id) : BidOnTask(r, task) > 0}
Takers(map, id) == {p[1] : p \in {q \in map : q[2] = id}}

\* A mapping that follows the two lists for the tasks gone through.
FollowsOrder(map) ==
  \A task \in Considered :
    Takers(map, task.id) =
      {r \in Contenders(map, task) : \A q \in Contenders(map, task) : q <= r}

(* The mapping is the one the order of the two lists determines, whatever the  *)
(* bids are as long as they are positive: of the robots that did not get an    *)
(* earlier task the last that can do a task gets it, and only if there is none *)
(* the task goes to nobody.  This is what the code does, not what it is meant  *)
(* to do: the comment at cnp_server_manager.cpp:184 has the highest bidder get *)
(* the task, but dLargestBid stays 0 and bids are not compared with each other. *)
LastContenderTakes == FollowsOrder(mapping)

(* A robot that is given a task breaks none of the constraints that were       *)
(* listed for that very task and that its kind heeds, though constraints are   *)
(* attached by the name of a task only.                                        *)
AssignedMeetNeeds ==
  \A p \in mapping :
    LET task == tasks[p[2]] IN
    task.needs \cap Heeded[task.name] \cap robots[p[1]].breaks = {}

(* The planner reports the status to the user: it tells of unassigned tasks    *)
(* exactly when there are some among those it knows, and "normal" stands for a *)
(* mapping in which every robot has a task too.                                *)
StatusTellsOutcome ==
  Returned =>
    /\ status \in {"incomplete", "excessive_incomplete"}
         <=> \E task \in Considered : task.id \notin Given
    /\ status = "normal" => Left = {}
=============================================================================
