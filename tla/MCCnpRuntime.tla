---------------------------- MODULE MCCnpRuntime ----------------------------
(* Small instances of CnpRuntime, and of CnpLease about it, for TLC. *)
EXTENDS CnpLease

TwoRobots == {1, 2}
ThreeRobots == {1, 2, 3}
OneManager == {1}
OneTask == {1}
TwoTasks == {1, 2}

\* Constraints are copied from variable to variable and steer nothing, so runs
\* whose properties do not mention them may take states that differ in them alone
\* as one.
WithoutConstraints ==
  <<contracts, awardList, cnpTaskID, paused, timerArmed, phase, offeredTask,
    biddingTask, wonTask, executingTask, auctionFailed, queue, news>>
=============================================================================
