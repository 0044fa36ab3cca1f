---------------------------- MODULE MCCnpServer ----------------------------
(* Small instances of CnpServer for TLC. *)
EXTENDS CnpServer

TwoRobots == {1, 2}
OneTask == {1}
TwoTasks == {1, 2}
=============================================================================
