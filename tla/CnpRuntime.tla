------------------------------ MODULE CnpRuntime ------------------------------
(***************************************************************************)
(* The runtime Contract Net Protocol as a whole: the console of CnpServer  *)
(* and robots that run the exec_cnp_* functions of                         *)
(* hardware_drivers/robot_side_com.c on the state kept by RobotCNP         *)
(* (hardware_drivers/robot_cnp.cc).                                        *)
(*                                                                         *)
(* A robot talks to the console in two ways.  SendMessage returns at once  *)
(* and the message waits in the robot's connection, queue[r], in order.    *)
(* Query blocks until the reply is there; it travels behind whatever the   *)
(* robot sent before, so a query is a step taken when queue[r] is empty.   *)
(* Broadcast reaches the other robots directly, one connection per pair,   *)
(* news[s][r].  The only key of the robots' databases that the protocol    *)
(* itself reads back is CNP_TASK_AUCTION_FAILED; the completion and reneg  *)
(* keys steer only the mission and are left out.                           *)
(*                                                                         *)
(* The mission, a finite-state machine drawn by the user in CfgEdit, is    *)
(* not part of the sources.  phase[r] is the state of the mission the CNP  *)
(* behaviours are made for: get a task, bid, wait for the end of the       *)
(* auction, start what was won, finish or reneg it, start over.            *)
(***************************************************************************)
EXTENDS CnpServer

CONSTANTS
  Managers,          \* the robots whose missions inject tasks and ask for failures
  MaxQueue,          \* bound on the messages under way from a robot
  MaxNews,           \* bound on the broadcasts under way between two robots
  RenegeBeforeStart  \* whether a mission may reneg what it won but not started

ASSUME RuntimeAssumption ==
  /\ Managers \subseteq Robots
  /\ MaxQueue \in Nat
  /\ MaxNews \in Nat
  /\ RenegeBeforeStart \in BOOLEAN

VARIABLES
  phase,            \* where the mission of a robot is
  offeredTask,      \* the reply to MSG_GetTask held inside one call
  biddingTask,      \* currentBiddingTaskInfo_.taskID
  biddingTaskConstraints,  \* the task currentBiddingTaskConstraints_ describes
  wonTask,          \* wonTaskInfo_.taskID
  executingTask,    \* currentExecutingTaskInfo_.taskID
  auctionFailed,    \* the robot's database holds CNP_TASK_AUCTION_FAILED = 1
  queue,            \* messages under way to the console
  news              \* CNP_TASK_AUCTION_FAILED broadcasts under way

robotVars == <<phase, offeredTask, biddingTask, biddingTaskConstraints, wonTask,
               executingTask, auctionFailed>>
vars == <<serverVars, robotVars, queue, news>>

Phases == {"idle", "offered", "bidding", "won", "executing"}

Message ==
  [type : {"inject"}, task : Tasks]
  \cup [type : {"bid"}, task : Tasks, bid : Bids]
  \cup [type : {"complete", "reneg"}, task : Tasks \cup {NoTask}]

RuntimeInit ==
  /\ Init
  /\ phase = [r \in Robots |-> "idle"]
  /\ offeredTask = [r \in Robots |-> NoTask]
  /\ biddingTask = [r \in Robots |-> NoTask]
  /\ biddingTaskConstraints = [r \in Robots |-> NoTask]
  /\ wonTask = [r \in Robots |-> NoTask]
  /\ executingTask = [r \in Robots |-> NoTask]
  /\ auctionFailed = [r \in Robots |-> FALSE]
  /\ queue = [r \in Robots |-> <<>>]
  /\ news = [s \in Robots |-> [r \in Robots |-> <<>>]]

(***************************************************************************)
(* Communication.                                                          *)
(***************************************************************************)
SendMessage(r, m) ==
  /\ Len(queue[r]) < MaxQueue
  /\ queue' = [queue EXCEPT ![r] = Append(@, m)]

\* what a Query waits for: the console has handled all that r sent before
Drained(r) == queue[r] = <<>>

\* exec_broadcast_value with THIS_ROBOT: the own database first, then the rest
Broadcast(r, value) ==
  /\ \A p \in Robots \ {r} : Len(news[r][p]) < MaxNews
  /\ auctionFailed' = [auctionFailed EXCEPT ![r] = value]
  /\ news' = [news EXCEPT ![r] =
                [p \in Robots |-> IF p = r THEN @[p] ELSE Append(@[p], value)]]

\* MSG_NewState from s reaches the database of r
ReceiveNews(s, r) ==
  /\ news[s][r] # <<>>
  /\ auctionFailed' = [auctionFailed EXCEPT ![r] = Head(news[s][r])]
  /\ news' = [news EXCEPT ![s][r] = Tail(@)]
  /\ UNCHANGED <<serverVars, queue, phase, offeredTask, biddingTask,
                 biddingTaskConstraints, wonTask, executingTask>>

\* The console takes the next message of r.
Receive(r) ==
  /\ queue[r] # <<>>
  /\ queue' = [queue EXCEPT ![r] = Tail(@)]
  /\ LET m == Head(queue[r]) IN
       \/ m.type = "inject" /\ Inject(m.task)
       \/ m.type = "bid" /\ ReceiveOffer(r, m.task, m.bid)
       \/ m.type = "reneg" /\ CancelTask(r, m.task)
       \/ m.type = "complete" /\ CompleteTask(m.task)
  /\ UNCHANGED <<robotVars, news>>

(***************************************************************************)
(* exec_send_cnp_task_constraints (CNP_INJECT_TASK): clear the failure     *)
(* flag of every robot, then send the task to the console.                 *)
(***************************************************************************)
InjectTask(r, t) ==
  /\ r \in Managers
  /\ phase[r] # "offered"
  /\ Broadcast(r, FALSE)
  /\ SendMessage(r, [type |-> "inject", task |-> t])
  /\ UNCHANGED <<serverVars, phase, offeredTask, biddingTask,
                 biddingTaskConstraints, wonTask, executingTask>>

(***************************************************************************)
(* exec_cnp_got_a_bidding_task (CNP_GOT_A_TASK): one query for the task,   *)
(* another for the constraints, and between the two the console goes on.   *)
(* checkForTask offers the eligible task with the lowest id.               *)
(***************************************************************************)
GetTask(r) ==
  /\ phase[r] = "idle"
  /\ Drained(r)
  /\ Eligible(r) # {}
  /\ offeredTask' = [offeredTask EXCEPT ![r] = Min(Eligible(r))]
  /\ phase' = [phase EXCEPT ![r] = "offered"]
  /\ UNCHANGED <<serverVars, queue, news, biddingTask, biddingTaskConstraints,
                 wonTask, executingTask, auctionFailed>>

\* the second query and setCurrentBiddingTask, which resets the won task
GetTaskConstraints(r) ==
  /\ phase[r] = "offered"
  /\ biddingTask' = [biddingTask EXCEPT ![r] = offeredTask[r]]
  /\ biddingTaskConstraints' = [biddingTaskConstraints EXCEPT ![r] = taskConstraints]
  /\ wonTask' = [wonTask EXCEPT ![r] = NoTask]
  /\ offeredTask' = [offeredTask EXCEPT ![r] = NoTask]
  /\ phase' = [phase EXCEPT ![r] = "bidding"]
  /\ UNCHANGED <<serverVars, queue, news, executingTask, auctionFailed>>

\* exec_cnp_bid_on_task (CNP_BID_ON_TASK), as often as the mission runs it
BidOnTask(r, bid) ==
  /\ phase[r] = "bidding"
  /\ SendMessage(r, [type |-> "bid", task |-> biddingTask[r], bid |-> bid])
  /\ UNCHANGED <<serverVars, robotVars, news>>

(***************************************************************************)
(* exec_cnp_is_auction_ended (CNP_IS_AUCTION_ENDED).  A failure flag in    *)
(* the database ends the auction as lost, without a query and whichever    *)
(* auction it was about; otherwise the award the console names decides,    *)
(* and without one the auction goes on.                                    *)
(***************************************************************************)
\* resetCurrentBiddingTask(ROBOTCNP_BIDDING_LOST)
LoseBidding(r) ==
  /\ phase' = [phase EXCEPT ![r] = "idle"]
  /\ wonTask' = [wonTask EXCEPT ![r] = NoTask]
  /\ biddingTask' = [biddingTask EXCEPT ![r] = NoTask]

\* the reply to MSG_GetAward names another robot, or the asking one
SaysLost_Unlisted(r) == AwardedRobot(biddingTask[r]) # r
SaysLost(r) == AwardedRobot(biddingTask[r]) \notin {NoRobot, r}
SaysWon_Anyone(r) == AwardedRobot(biddingTask[r]) # NoRobot
SaysWon(r) == AwardedRobot(biddingTask[r]) = r

SeeAuctionFailed(r) ==
  /\ phase[r] = "bidding"
  /\ auctionFailed[r]
  /\ auctionFailed' = [auctionFailed EXCEPT ![r] = FALSE]
  /\ LoseBidding(r)
  /\ UNCHANGED <<serverVars, queue, news, offeredTask, biddingTaskConstraints,
                 executingTask>>

SeeAuctionLost(r) ==
  /\ phase[r] = "bidding"
  /\ ~auctionFailed[r]
  /\ Drained(r)
  /\ SaysLost(r)
  /\ LoseBidding(r)
  /\ UNCHANGED <<serverVars, queue, news, offeredTask, biddingTaskConstraints,
                 executingTask, auctionFailed>>

\* resetCurrentBiddingTask(ROBOTCNP_BIDDING_WON)
SeeAuctionWon(r) ==
  /\ phase[r] = "bidding"
  /\ ~auctionFailed[r]
  /\ Drained(r)
  /\ SaysWon(r)
  /\ phase' = [phase EXCEPT ![r] = "won"]
  /\ wonTask' = [wonTask EXCEPT ![r] = biddingTask[r]]
  /\ biddingTask' = [biddingTask EXCEPT ![r] = NoTask]
  /\ UNCHANGED <<serverVars, queue, news, offeredTask, biddingTaskConstraints,
                 executingTask, auctionFailed>>

(***************************************************************************)
(* exec_cnp_is_auction_failed (CNP_IS_AUCTION_FAILED), asked by a manager  *)
(* that waits for the outcome of an auction: the first to ask takes the    *)
(* failure off the console's list and tells the others.                    *)
(***************************************************************************)
AskAuctionFailed(r) ==
  /\ r \in Managers
  /\ phase[r] \in {"idle", "bidding"}
  /\ Drained(r)
  /\ ReportFailure
  /\ Broadcast(r, TRUE)
  /\ UNCHANGED <<queue, phase, offeredTask, biddingTask, biddingTaskConstraints,
                 wonTask, executingTask>>

\* exec_notify_cnp_won_task_started: setWonTaskExecuted
NotifyStarted(r) ==
  /\ phase[r] = "won"
  /\ executingTask' = [executingTask EXCEPT ![r] = wonTask[r]]
  /\ phase' = [phase EXCEPT ![r] = "executing"]
  /\ UNCHANGED <<serverVars, queue, news, offeredTask, biddingTask,
                 biddingTaskConstraints, wonTask, auctionFailed>>

(***************************************************************************)
(* exec_cnp_cancel_task, called by exec_notify_cnp_task_completed and      *)
(* exec_notify_cnp_task_reneged: it reports the executing task, which is   *)
(* NoTask when the won task was never started.                             *)
(***************************************************************************)
CancelExecuting_Keeps(r, type) ==
  /\ SendMessage(r, [type |-> type, task |-> executingTask[r]])
  /\ phase' = [phase EXCEPT ![r] = "idle"]
  /\ UNCHANGED <<serverVars, news, offeredTask, biddingTask, executingTask,
                 biddingTaskConstraints, wonTask, auctionFailed>>
CancelExecuting(r, type) ==
  /\ SendMessage(r, [type |-> type, task |-> executingTask[r]])
  /\ executingTask' = [executingTask EXCEPT ![r] = NoTask]
  /\ phase' = [phase EXCEPT ![r] = "idle"]
  /\ UNCHANGED <<serverVars, news, offeredTask, biddingTask,
                 biddingTaskConstraints, wonTask, auctionFailed>>

NotifyCompleted(r) ==
  /\ phase[r] = "executing"
  /\ CancelExecuting(r, "complete")

NotifyReneged(r) ==
  /\ phase[r] = "executing" \/ (RenegeBeforeStart /\ phase[r] = "won")
  /\ CancelExecuting(r, "reneg")

ConsoleStep ==
  \/ \E r \in Robots : Receive(r)
  \/ (CheckExpire \/ TogglePause) /\ UNCHANGED <<robotVars, queue, news>>

RobotStep(r) ==
  \/ \E t \in Tasks : InjectTask(r, t)
  \/ GetTask(r) \/ GetTaskConstraints(r)
  \/ \E bid \in Bids : BidOnTask(r, bid)
  \/ SeeAuctionFailed(r) \/ SeeAuctionLost(r) \/ SeeAuctionWon(r)
  \/ AskAuctionFailed(r)
  \/ NotifyStarted(r) \/ NotifyCompleted(r) \/ NotifyReneged(r)
  \/ \E s \in Robots : ReceiveNews(s, r)

RuntimeNext == ConsoleStep \/ \E r \in Robots : RobotStep(r)

RuntimeSpec == RuntimeInit /\ [][RuntimeNext]_vars

\* The console's event loop serves every connection and the timer, IPT
\* delivers, and a robot's behaviours are run again on every cycle of its
\* mission.  Strong fairness where a query waits for the robot's own messages:
\* the robot is inside Query meanwhile and sends nothing.
RuntimeFairness ==
  /\ WF_vars(CheckExpire /\ UNCHANGED <<robotVars, queue, news>>)
  /\ \A r \in Robots :
       /\ WF_vars(Receive(r))
       /\ WF_vars(GetTaskConstraints(r))
       /\ SF_vars(SeeAuctionFailed(r) \/ SeeAuctionLost(r) \/ SeeAuctionWon(r))
       /\ WF_vars(NotifyStarted(r))
       /\ \A s \in Robots : WF_vars(ReceiveNews(s, r))

FairRuntimeSpec == RuntimeSpec /\ RuntimeFairness

-----------------------------------------------------------------------------
(***************************************************************************)
(* Properties.                                                             *)
(***************************************************************************)
\* Every robot variable, message and broadcast is of the kind the code sends.
RuntimeTypeOK ==
  /\ TypeOK
  /\ phase \in [Robots -> Phases]
  /\ offeredTask \in [Robots -> Tasks \cup {NoTask}]
  /\ biddingTask \in [Robots -> Tasks \cup {NoTask}]
  /\ biddingTaskConstraints \in [Robots -> Tasks \cup {NoTask}]
  /\ wonTask \in [Robots -> Tasks \cup {NoTask}]
  /\ executingTask \in [Robots -> Tasks \cup {NoTask}]
  /\ auctionFailed \in [Robots -> BOOLEAN]
  /\ queue \in [Robots -> Seq(Message)]
  /\ news \in [Robots -> [Robots -> Seq(BOOLEAN)]]

\* Robot r believes that task t is its own: it saw its award, and has not
\* given the task back.
Owner(r, t) ==
  \/ phase[r] = "won" /\ wonTask[r] = t
  \/ executingTask[r] = t

\* No two robots ever believe they own the same task, whatever the robots
\* bid, reneg, complete or inject again, and whatever is still under way.
SingleOwner ==
  \A t \in Tasks : \A r, q \in Robots : Owner(r, t) /\ Owner(q, t) => r = q

\* A message that gives t back, under way from its owner.
Releases(m, t) == m.type \in {"complete", "reneg"} /\ m.task = t
ReleaseSent(r, t) == \E i \in 1..Len(queue[r]) : Releases(queue[r][i], t)

\* As long as a robot owns t, or its message giving t back is under way, the
\* award the console would name for t is that robot's: nobody else can come
\* to believe it won before the console has heard of the release.
ClaimsAwarded ==
  \A r \in Robots, t \in Tasks :
    Owner(r, t) \/ ReleaseSent(r, t) => AwardedRobot(t) = r

\* A robot gives a task back once: never while it still owns it, and never
\* with two messages under way.
ReleasedOnce ==
  \A r \in Robots, t \in Tasks :
    /\ Owner(r, t) => ~ReleaseSent(r, t)
    /\ \A i, j \in 1..Len(queue[r]) :
         Releases(queue[r][i], t) /\ Releases(queue[r][j], t) => i = j

\* No robot holds the contract of a task it is excluded from, although the
\* console accepts every offer without consulting the exclusions: an excluded
\* robot is not told of the task, and nothing it sent before can count later.
ExcludedNeverHolds ==
  \A t \in DOMAIN executingContracts :
    executingContracts[t].robot \notin executingContracts[t].excl

\* Who owns a task in its own eyes holds its contract in the console's.
OwnersHoldContracts ==
  \A r \in Robots, t \in Tasks :
    Owner(r, t) => /\ t \in DOMAIN executingContracts
                   /\ executingContracts[t].robot = r

\* The award list and Executing_Contracts, two records of the same decision
\* kept by two classes, agree.
AwardsMatchContracts ==
  \A t \in Tasks :
    AwardedRobot(t) =
      IF t \in DOMAIN executingContracts THEN executingContracts[t].robot ELSE NoRobot

\* A contract ends only by its holder's own message, and then either the task
\* is up for auction again without that robot or it is gone altogether.
ContractEnded ==
  \A t \in DOMAIN executingContracts \ DOMAIN executingContracts' :
    LET holder == executingContracts[t].robot IN
      /\ queue[holder] # <<>> /\ Releases(Head(queue[holder]), t)
      /\ AwardedRobot(t)' = NoRobot
      /\ \/ /\ t \in DOMAIN openContracts'
            /\ openContracts'[t].excl = {holder}
         \/ t \notin DOMAIN openContracts' \cup DOMAIN reneggedContracts'

ContractsEndProperly == [][ContractEnded]_vars

\* A bidder that reads a lost award off the console gives up an auction that
\* is over and that it did not win.
LossIsReal ==
  \A r \in Robots :
    phase[r] = "bidding" /\ phase'[r] = "idle" /\ ~auctionFailed[r]
      => LET t == biddingTask[r] IN
           /\ t \notin DOMAIN openContracts
           /\ t \in DOMAIN executingContracts /\ executingContracts[t].robot # r

LossesAreReal == [][LossIsReal]_vars

\* "A trigger that returns true if the auction is ended": a robot that bids
\* for a task somebody was awarded stops waiting for the end of the auction.
BiddersLearnOutcome ==
  \A r \in Robots, t \in Tasks :
    phase[r] = "bidding" /\ biddingTask[r] = t /\ t \in DOMAIN executingContracts
      ~> phase[r] # "bidding"
=============================================================================
