------------------------------ MODULE MCMotion ------------------------------
(* Small instances of Motion for TLC. *)
EXTENDS Motion

Trajectory(length, distance) ==
  [name |-> "follow", length |-> length, distance |-> distance, sameGoal |-> FALSE]

ToTheGoal == {Trajectory(1, 0)}
OnTheWay == {Trajectory(2, 1), Trajectory(1, 0)}
=============================================================================
