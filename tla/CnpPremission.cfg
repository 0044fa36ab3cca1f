\* A call returns: there is nothing to do after its last task.
SPECIFICATION Spec
CONSTANTS
  RobotIds <- TwoRobots
  KnownNames <- Names
  OtherNames <- Others
  Constraints <- Asked
  Heeded <- HeededByKind
  Barring <- BarredByKind
  MaxGrade = 1
  MaxTasks = 3
INVARIANT OneTaskOneRobot
INVARIANT NobodyLeftWilling
INVARIANT AssignedMeetNeeds
INVARIANT StatusTellsOutcome
CHECK_DEADLOCK FALSE
