# A formal model of MissionLab / CARMEN

This directory holds TLA+ modules that model parts of the robot mission system
in `src/`, the TLC configurations that check them on small instances, and
theorems about them that TLAPS proves for every instance. Paths below are
relative to `src/src/`.

## 1. The system

MissionLab runs robot missions. A user draws a mission as a finite-state
machine in `cfgedit`; it is compiled (`cdl`, `cnl`) to a robot executable that
runs its behaviours on every cycle and links `hardware_drivers/robot_side_com.c`
to talk to the others. `mlab` is the operator's console: one X Toolkit event
loop that draws the robots, serves their messages and keeps the shared state.
The processes of MissionLab talk over IPT (`ipt`), a vendored library with
ordered connections. The CARMEN half of the repository (`robot`, `base`,
`navigator`, `localize`, `param_daemon`, ...) are processes of their own that
talk over IPC (`ipc`), whose message server `central` every one of them is
connected to.

### Components

| component | state | operations | what makes it correct |
|---|---|---|---|
| **Runtime CNP, console** `cnp/cnp_server.cpp`, `mlab/mlab_cnp.cc`, `csc_cnp_*` in `mlab/console_side_com.c` | maps of open, executing and reneged contracts; award list; last injected task and its constraints; expiry timer | inject, offer a task, take a bid, decide an auction, name the winner, cancel and reinject, complete | one contract per task; exclusions follow a task through its life; highest bid wins; every auction is decided |
| **Runtime CNP, robots** `exec_cnp_*` in `hardware_drivers/robot_side_com.c`, `hardware_drivers/robot_cnp.cc`, `libcnl/CNP_*.cnl` | the task being bid for, won, executed; a key-value database per robot | get a task, bid, ask for the end of the auction, start, complete, reneg, inject, broadcast a failure | no two robots own one task; owner, award and contract agree; nobody waits for an outcome for ever |
| **Premission CNP** `cnp/cnp_server_manager.cpp` | the lists of one call: tasks with their constraints, robots not yet taken, the mapping, the status | one greedy allocation before the mission | a robot at most one task and a task at most one robot, of a kind that does not refuse it; nobody who would do a task goes without while it is left; the status tells what was left |
| **Process control** `proccontrol/proccontrol.c` | a table of processes with wanted and believed state, pid, age of the last heartbeat; signal handlers | start, stop, replace when silent, restart on exit, publish the table, kill all on a signal | one process per entry, no kill of another's pid, no process forgotten; what is wanted comes back unless it ended by itself with code 0, what is not wanted stops |
| **Watchdog** `proccontrol/watchdog.c` | the pid of one child | restart for ever, end on a clean exit or a signal | the child comes back unless it ended cleanly, and never outlives the watchdog |
| **Robot server** `robot/` | the command, the vector or trajectory being followed, the velocities the lasers leave, odometry, age of the sensors | velocity, vector and trajectory commands; odometry and laser messages; a round of its loop; SIGINT | never drives into an obstacle it sees, stops when sensors cease |
| **Base** `base/base_main.c` | the call of the driver it is in, `moving`, age of the last velocity | pass a velocity on, stop after the motion time-out, announce a reset, initialize the hardware again when a call fails | the motors obey the last velocity, and stop when velocities cease |
| **Navigator** `navigator/` | goal, plan, autonomous status | set a goal, go, stop, plan again, send the robot server along the path | a stop ends the motion; the plan followed is for the goal that was set |
| **Central** `ipc/` | per receiver the message that is out and those that wait | queue up to a limit per message name, replace the oldest, send the next | no receiver waits for nothing, no limit is exceeded, the last command is the one in force |
| **Parameter daemon** `param_daemon/` | the daemon's table; in each module the list of installed parameters and the variables behind them | read the file, set, answer, publish a change; install, subscribe, handle a change | a module that was told of a value ends up with it |
| **Laser server** `laser/` | a ring buffer with its semaphore, a stop flag, a thread per laser, the count of scans each needs to time its laser | read a scan, add it, overwrite the oldest, wait, take and publish; start and stop the lasers; SIGINT | scans are published in order, each once; nobody sleeps while there are some; a server told to stop ends |
| Localisation `localize/`, planners `path_planner/`, `dstar/` | particles, cost maps | filters and searches | numeric; not modelled |
| Behaviours `comm_behavior/`, `cbr_behavioral_select/`, `qlearn/`, `terrain/`, `hmap/` | weights, maps | numeric selection and motion vectors | numeric; not modelled |
| Case-based planner and wizards `cbrplanner/`, `cbrwizard/`, `assistantDialog/` | case libraries | retrieval, dialogs | I/O; not modelled |
| Mission languages `cfgedit/`, `cdl/`, `cnl/`, `cmdli/`, `MPPC/`, `acdl_plus/`, `load_*`, `write_cdl/` | syntax trees | parse, translate | sequential compilers; not modelled |
| Drivers `hardware_drivers/`, `base/`, `camera/`, `gps/`, `imu/`, `pantilt/`, ... | device state | device protocols | hardware; not modelled |
| Tools `logger/`, `logtools/`, `mapeditor/`, `vasco/`, `telop/`, `robotgui/`, `simulator/`, ... | files, windows | I/O, drawing | not modelled |
| Transport `ipt/`, `ipcAdapter/`, the rest of `ipc/` | connections | send, query, broadcast | libraries; ordered connections, modelled by their use |

### How they interact in the runtime protocol

A *manager* robot injects a task (`MSG_CNP_TaskConstraintsData`). The console
opens a contract that stays open for 20 ticks of its 100 ms timer. Robots poll
for a task (`MSG_GetTask`, then `MSG_GetTaskConstraints`), bid (`MSG_BidTask`)
and poll for the end (`MSG_GetAward`). When the ticks are used up the console
moves the contract to the executing ones and puts an award in its list; with
no offers it forgets the task and lists an award `{-2,-2,-2}`, which the first
manager to ask takes off and broadcasts to the others as
`CNP_TASK_AUCTION_FAILED`. The winner starts, and ends with one `MSG_CancelTask`:
either the task is complete and forgotten, or it is reneged and opened again
without that robot.

`SendMessage` does not wait; `Query` waits for the reply, behind all the robot
sent before. Between two calls of one robot the console serves all others, the
operator may pause it, and broadcasts between robots overtake each other. That
is where the hard behaviour is: polls that come after what they poll for has
been erased, flags of one auction read in the next, variables for "the current
task" where there are several, and releases that cross with questions.

### How a robot is driven

Users and missions tell the navigator to set a goal, to go and to stop. While it
is autonomous it publishes, on every report of the position, a velocity of 0 or
a trajectory. The robot server follows the trajectory from its own loop, cuts
each velocity to what the lasers leave, and publishes it for the base, which
sets the motors. Anybody else may publish velocities and vectors too.

Every message goes through central. It hands a receiver one message at a time and
keeps the others; a CARMEN module asks for a limit of 1 message per name, so a new
message takes the place of the older one, *in front of* messages of other names
that came between them. So the order of two commands may change, and a command
that is replaced is never seen. Each of the processes may be killed at any time;
the base may be held up for as long as its hardware does not answer. What keeps
the robot safe then are time-outs: the sensor time-out of the robot server and
the motion time-out of the base, which work only if both processes are right
about whether the motors run.

### How parameters reach the modules

`param_daemon` reads the file of parameters and answers queries; every module
installs its parameters one by one as it starts, and puts the answers into
variables of its own. What is set later the daemon publishes, as messages of one
name for all parameters, which wait in central up to a limit of 100; at the limit
the oldest is lost, whatever parameter it is about. An answer does not pass
through that queue, so it may get ahead of older changes; and while a module
waits for an answer it handles changes, also of parameters it has not installed yet,
which it passes over. Queries go by the full name of a parameter, changes by two
words, module and variable, into which the daemon split it at the first underscore.

### How the laser server hands on scans

`laser` has a thread for each laser. It reads the scans of its laser, drops those that
only serve to estimate the period, and adds the others to a ring buffer under a mutex;
the main thread waits for a semaphore, takes the first scan and publishes it. The
semaphore is posted after the mutex is released, and the size of the ring is looked at
before the mutex is taken. What keeps the ring sound is the account of the two: one post
for each scan that did not take another's place.

### How tasks are allocated before a mission

`cbrplanner` calls `PremissionCNPBidding` with the tasks of a mission, the
constraints of tasks and the constraints of robots, and shows the user the mapping
and the status it returns. Constraints are attached by the *name* of a task, tasks
with a name that is not known are dropped, and each task is given away for good
before the next is looked at.

### How process control interacts with its children

`proccontrol` is one thread: IPC calls `process_timer` five times a second and
message handlers in between. Its children and the operating system do not wait
for it. A child may end, hang or be stopped between any two statements; a
heartbeat it sent may be served after it hung or was replaced; the pid it had may
be given to the next child once it was waited for; and a signal may run
`pc_handle_signal`, which never returns, in the middle of the timer call. While
it forks, the signals have their default action.

## 2. The modules

| module | models |
|---|---|
| `CnpServer` | the console: contracts, award list, timer, pause button, one action per message handler and timer outcome |
| `CnpRuntime` | the robots and the connections, composed with the console by EXTENDS |
| `TaskLease` | abstract specification: what the protocol promises of a task |
| `CnpLease` | the refinement mapping from `CnpRuntime` to `TaskLease` |
| `CnpPremission` | one call of `PremissionCNPBidding` |
| `ProcControl` | proccontrol, its children, the clock and signals |
| `Supervision` | abstract specification: what is started, killed and waited for, and when |
| `ProcSupervision` | the refinement mapping from `ProcControl` to `Supervision` |
| `IpcCentral` | central's queue for one receiver, as operators |
| `CarmenRobot` | the handlers and the loop of the robot server, as operators on its state |
| `CarmenBase` | the base, its calls of the driver, their failures, its end and restart |
| `Drive` | robot server, base, clients, lasers and clock together (EXTENDS `CarmenBase`) |
| `CarmenNavigator` | the handlers of the navigator, as operators on its state |
| `Motion` | users, navigator, robot server and central's queues together (EXTENDS `CarmenRobot`, `CarmenNavigator`, `IpcCentral`) |
| `ParamServer` | the daemon's table, the modules' copies of it and central's queues of changes (EXTENDS `IpcCentral`) |
| `ChangeFeed` | abstract specification: a line of changes for each hearer that drops its oldest when it is full |
| `ParamFeed` | the refinement mapping from `ParamServer` to `ChangeFeed` |
| `LaserServer` | the laser server: its threads, the ring buffer, the semaphore, stop and join |
| `ScanFeed` | abstract specification: a line of scans that drops its oldest when it is full |
| `LaserFeed` | the refinement mapping from `LaserServer` to `ScanFeed` |
| `MC...` | small sets for TLC: `MCCnpServer`, `MCCnpRuntime`, `MCCnpPremission`, `MCProcControl`, `MCDrive`, `MCMotion`, `MCParamServer`, `MCLaserServer` |
| `...Proofs` | theorems and their proofs: `CnpProofs` (console, protocol and refinement), `CnpPremissionProofs`, `ProcControlProofs`, `CarmenRobotProofs`, `DriveProofs`, `MotionProofs` (with the lemmas about central's queue), `ParamServerProofs`, `LaserServerProofs` (each with the refinement of its component, where there is one) |

### CnpServer

The variables carry the names of the code. `openContracts`,
`executingContracts` and `reneggedContracts` are the three `std::map`s of
`CNP_Server` as functions whose domain is the key set; `awardList`,
`cnpTaskID`, `taskConstraints` are `cnpAwardList_`, `cnpTaskID_` and the task
`currentCNPTaskConstraints_` describes; `timerArmed` says whether an Xt
time-out is pending. The console has one thread, so a handler with all it calls
is one action:

| action | code |
|---|---|
| `Inject` | `saveCurrentCNPTaskConstraints` and `Inject_Task` |
| `ReceiveOffer` | `csc_cnp_task_bid`, `Match_TaskOffer` |
| `CancelTask` | `cancelTask`: erase the award, `Cancel_Task`, `ReinjectTask` |
| `CompleteTask` | `completeTask`, `Remove_Task` |
| `ReportFailure` | `getAward` for `{-2,-2,-2}` |
| `Tick`, `TickAward`, `TickFailure`, `TickPaused` | `cbCheckExpire_`, `Check_Expire`, `Award_Task`: the timer fires and nothing runs out, the first contract to run out is awarded, it fails for lack of offers, or the console is paused |
| `TogglePause` | `gt_toggle_pause_execution` |

`Next` lets every robot send every message at any time. Whatever is proved from
`Spec` therefore holds whatever the robots do.

Abstracted: `Iteration` is 1 in all contracts (`DEFAULT_ITERATION`), so it and
the `NEW_INFO` branch are left out; the text of a task and of its constraints
is left out, a constraint list being known by its task; a bid is a natural,
0 standing for every bid that makes `TaskAccept` false. `Find_MaxBidder` is the loop
of the code over the offers by rising robot id, with the bid and the bidder it keeps,
as a recursive function. It returns a pointer into a local copy that has been destroyed;
the model takes the bidder that was there, which its caller copies at once. `update++; if (update != 10)` in `Check_Expire` never throttles
(`update` is 0 or 1), so every call ticks.

### CnpRuntime

`queue[r]` is the connection of robot `r` to the console, `news[s][r]` the one
from `s` to `r`. A `Query` is a step of the robot taken when `queue[r]` is
empty; `exec_cnp_got_a_bidding_task`, which makes two, is two actions
(`GetTask`, `GetTaskConstraints`) with `offeredTask` as its local variable.
`exec_cnp_is_auction_ended` is three actions for its three outcomes; when it
answers that the auction is not over nothing changes. `Receive` dispatches as
the console's handler table does.

Missions are the user's and not in the sources. `phase[r]` is the state of the
mission the CNP behaviours are written for: idle, in the middle of getting a
task, bidding, won, executing. A mission may bid repeatedly, complete or reneg,
inject at any time, and (with `RenegeBeforeStart`) reneg what it won before it
started it. Tasks have one of the five types `setCurrentBiddingTask` accepts.
Of the database keys only `CNP_TASK_AUCTION_FAILED` is kept, as
`auctionFailed`: a key that is absent and a key with value 0 act alike. The
keys about completed and reneged tasks steer the mission alone. The pause
button also halts the robots (`send_robots_pause_state`); the model lets them
go on, which only adds behaviours.

### TaskLease and CnpLease

`TaskLease` knows no auctions, bids, messages or polls. A task has a lease, which
is `NoRobot` or the robot it went to; the robots that believe they own it
(`owners`); and those whose return of it is under way (`returning`). A lease may
pass to another robot in one step only, in which the last holder's return is
heard. `CnpLease` reads these off the protocol: the lease is what the console
would answer to `MSG_GetAward`, an owner is a robot in phase `won` or
`executing`, a return is a `MSG_CancelTask` in its queue.

### ProcControl

`requested`, `state`, `pid` and `silence` are `requested_state`, `state`, `pid`
and the time since `last_heartbeat` of `process_info_t`, as functions of the
entry; `killed`, `updated` and `forked` are the local variables `process_killed`,
`update_pidtable` and `spawned_pid`. `published` is the `active` column of the
last published table, and `handlers` says whether `pc_handle_signal` is
installed. The timer call is cut where it looks at the world or changes it, since
there the children and signals come between: `pc` is the place and `at` the `i`
of the loop.

| action | code |
|---|---|
| `VisitIdle`, `VisitMissing`, `VisitUnwanted`, `VisitSilent`, `VisitRunning` | the five ways through the first conditions of the loop body, to the fork, the kill or the `waitpid` they lead to |
| `Wait` | the blocking `waitpid` at the end of `kill_process`; the entry is done, or is being replaced and goes on to the fork |
| `Fork`, `Record` | `start_process` up to the fork, and from its return to `start_signal_handlers` |
| `StillThere`, `Reap`, `MarkDead` | the `waitpid` with `WNOHANG`: nothing to report; a child that ended; the assignments behind it, whatever the way it ended |
| `BeginTimer`, `Again`, `EndTimer` | the call by IPC, another pass of `do ... while (process_killed)`, the publication |
| `SetRequested`, `HandleHeartbeat` | `moduleset_handler`, `groupset_handler`, `heartbeat_handler` |
| `Signal`, `ExitKill`, `ExitWait`, `ExitSkip`, `ExitDone` | `pc_handle_signal`, or the default action where it is not installed |
| `Finish`, `Hang`, `Stop`, `Continue`, `Die`, `SendHeartbeat`, `Elapse` | the children and the clock |

The branch for `WIFSTOPPED` is not an action: without `WUNTRACED`, `waitpid` does
not tell of stopped children, so the branch is dead and a stopped child that
sends no heartbeats stays stopped. Abstracted: a child is the process that was forked,
a shell; what a shell does with its own children is not modelled. `fork`
succeeds; module names are unique, so a heartbeat is its entry's; a requested
state is 0 or 1. A second signal while `pc_handle_signal` runs would run it again
inside, to kill what is left and exit, as the first would have. The output of
the children and the reconnection to IPC are left out.

### Supervision and ProcSupervision

`Supervision` has no table, no timer call and no places in it. An entry is wanted or not
and has a `crew`, the processes forked for it that were not waited for. A start begins
(`Prepare`) only for a wanted entry with no crew, a kill needs a cause (`Kill`), what is
collected belongs to the entry it is collected for, and the supervisor either leaves, with
nothing at work, or is lost, which can happen only in the middle of a start or while it
has no crew (`GetLost`). `ProcSupervision` reads this off `ProcControl`: `Crew` from which
process each pid really is, and not from the table, so a table that were wrong would
show; `Quiet` from `silence`; `Starting` and `Duty` from `pc`.

### CnpPremission

A behaviour is one call, from any input; a step is one turn of one of its loops.
`phase` tells the loop and `at` its iterator; `currentTasks`, `currentRobots`,
`mapping` and `status` are `CurrentTasks_`, `CurrentRobots_`, `robotTaskMapping`
and the status of the output.

| action | code |
|---|---|
| `InstantiateTask`, `SkipUnknownTask` | the loop over `ListOfCNPTasks` with `instantiateCNPTask_` and the loop that attaches the constraints of that name |
| `ListRobots` | the loop that lists the robots that came with constraints, and the first status |
| `AssignTask`, `LeaveTask` | a turn of the bidding loop with a robot selected and erased from the list, and one without |

A task computes a bid from the robot's constraints, and the eleven kinds of task do so
differently. `TrackTask` bids 0 for a robot whose medium, reach or times do not suit, and
only halves the bid of one that is not stealthy. `InterceptTask`, `InspectTask` and
`ObserveTask` look at constraints too, but bid 0 for every robot as soon as the task has
a constraint other than the time, because the test of the time stands outside the test
of the constraint's name. The others look at no constraint. The model keeps what the assignment
tells apart: which constraints a robot breaks (one it says nothing about is not broken,
unless the code takes silence for it, as with the time); for each kind those it refuses such a
robot for (`Heeded`) and those it refuses every robot for (`Barring`); and a grade per kind, where 0
stands for every bid that is not positive, so discounts and distance are in it. A task's id
is its place in the list, as in the code. A robot that came without constraints is not in the map and so
not in the call.

### IpcCentral

The state of a receiver is a record of the message that is out (`attending`) and
the list of those that wait (`pending`). `Arrive` and `Finish` are what central
does when a message for it comes in and when its handler has returned;
`AddPending` is the limit, with the replacement of the oldest. Priorities,
locks and reservations are left out: no CARMEN module uses them.

### CarmenRobot, CarmenBase and Drive

`CarmenRobot` writes each handler as an operator from the server's state to the
state it leaves and the velocity it publishes, calls included
(`StopRobot`, `FollowVector`, `SendBaseVelocity`). Velocities and distances are
small integers. Which way the target of a vector lies (`Headings`) and what the
lasers leave are arguments. The configuration is that with collision avoidance
and lasers on; sonar, bumper and the 3d controller off.

`CarmenBase` cuts each handler at the calls of the driver, since one that fails is
repeated, with a new initialization before it, until it succeeds; `at` is
the call the base is in. `motors` is the hardware. A SIGSEGV stops the motors and
leaves the process neither ended nor going on (`BaseFaults`); any other end
leaves them to the driver, which stops them or lets them run on.

`Drive` composes them. `toBase` and `toRobot` are the one velocity and the
one odometry message that may wait. Time passes in rounds of the main loops,
0.1 s: `Tick` waits until both loops have run and have handled what waited, except
for a process that is gone or held up by its hardware. `asked`, `askedAge`,
`disturbed` and `blocked` are history: they are written beside the code's
variables, and no guard but `Next`'s bookkeeping reads them.

### CarmenNavigator and Motion

`CarmenNavigator` is written like `CarmenRobot`. Of the plan it keeps whether
there is one, whether it was made for the goal that is set (`current`), whether it
leads to the goal itself or to the free point nearest to it (`accessible`), and
whether it is too young to be made again (`recent`). What the planner finds is an
argument.

`Motion` puts the queues of `IpcCentral` between users, navigator and robot
server. One name, `set_goal`, stands for the three messages that set a goal, with
triplets and by name of a place. `MissionNavigates` is `exec_carmen_navigate`,
which publishes a goal and a go; a step between the two is covered by `UserSetsGoal`
followed by `UserGoes`. Laser and position messages are handled as they come. The
base and the lasers of the robot server are in `Drive`, so here nothing is in its
way. `lastStop` is history: what became of the last stop.

### ParamServer

`value` is `param_list`. `client[c]` is the state of a module: `place` the entry of
its list that `carmen_param_install_params` is at, `reply` the daemon's answer about
it, `copy` the variables, `known` and `followed` the entries of
`installed_parameters` and those with `subscribe` set, `heard` whether the module
has subscribed to the message, `queue` what central has for it. `told` is history:
the names under which the present value was the last word sent to the module, and was
neither lost in central nor passed over. Only the properties and other history read it.

A parameter is one full name, by which the daemon looks it up (`lookup_name`, whatever the
case). A module has it under a *name*, the pair of module and variable of its entry, which
makes the full name (`Joined`) in a query. Several pairs make the same full name, and the one in a
change is what `set_param` made of it at the first underscore (`Split`): `Published` sends that,
and `HandleChange` finds an entry only if it has that very pair. `navigator_panel` has ten
parameters under the module `navigator_panel` (`navigator_panel.c:284-303`), the changes come from
`navigator`, and none is ever applied.

| action | code |
|---|---|
| `SetParam` | `set_param_ipc`, and each line of the file after `reread_command`: `set_param` and `publish_new_param` |
| `Answer`, `AnswerNotFound` | `get_param_int` and its like, the module waiting in its query |
| `Install`, `InstallFromCommandLine` | a round of `carmen_param_install_params`, `install_parameter` |
| `Subscribe` | `carmen_param_subscribe_int` and its like |
| `HandleChange` | `change_handler` |
| `DaemonEnds`, `DaemonStarts`, `ClientStarts`, `ClientEnds` | processes end and are started again |

The types are abstracted to which values each admits (`Convertible`): a value of
another type leaves the variable as it is. A daemon that starts reads the file
before it is connected and so publishes nothing. A list may have a name twice:
`simulator` installs three names for the front laser and again for the rear one
(`simulator.c:597-604`, `619-626`). `get_table_entry` finds the first entry only, so
`copy` is its variable, and `later` that of an entry behind it, which keeps the
value it was installed with whatever is set.

`ChangeFeed` has a line of changes for each hearer, where central has a message that is
out and a bounded list in which one message is replaced in place by another. `ParamFeed`
takes `attending` and `pending` together as the line and `heard` as who hears. Of queries,
copies and lists nothing is left: this is what a subscription promises, to any module.

### LaserServer, ScanFeed and LaserFeed

`readings`, `head`, `tail`, `size` are the fields of `carmen_laser_queue`, `semaphore` the
value of its semaphore, `hasToStop` is `carmen_laser_has_to_stop`. `thread[l]` and `main` say
where the threads are, `m` is the local of `main`, which keeps the last scan when nothing was
taken.

| action | code |
|---|---|
| `Starts` | `f_start`, tried several times; one that fails sets the stop flag and ends the thread |
| `Checks`, `HearsNothing`, `Stops` | the loop of `calibrate_and_start_laser_fn`: the flag, a call of `f_handle` without a scan, `f_stop` |
| `Calibrates` | `carmen_laser_calibrate_timestamp_recover_handler`: 101 scans, 100 periods |
| `Enqueues`, `PostsSemaphore` | `carmen_laser_enqueue_correct`, `carmen_laser_message_queue_add` in and behind its mutex |
| `MainChecks`, `MainWaits`, `MainLooks`, `MainTakes`, `MainPublishes`, `MainJoins` | the loop of `main`, `sem_wait`, the look at the size, the locked part of `carmen_laser_message_queue_get`, the publication, the joins and the end |
| `Interrupt` | `sigquit_handler`, from when it is installed |

What is done under the mutex is one step: a size of one more than the ring holds is
seen by a main thread that looks at it meanwhile, but all it asks is whether it is 0.
A scan is its laser and its number. The readings, the mending of timestamps
and the flipping of scans are left out, as are lock files and the opening of devices. Queue
and semaphore are never initialized (`carmen_laser_message_queue_init` has no caller); as
static data they start as zeros, which the pthread library takes as an open mutex
and a semaphore of 0.

`ScanFeed` has one line of scans. `LaserFeed` reads it off the ring: the `size` scans from
`head` on.

## 3. What is checked

| run | instance | shows |
|---|---|---|
| `server_two` | 2 robots, 2 tasks, bids 0..2, 2 ticks, 3 awards, pause | `OneContractPerTask`, `ExclusionsMatchRecord`, `NoSilentHandover`, `AwardsGoToHighestBid`, and under fairness `AuctionsDecided` |
| `runtime_one` | 2 robots, both managers, 1 task, 2 messages per queue, pause | `OwnersHoldContracts`, `AwardsMatchContracts`, `ContractsEndProperly`, `LossesAreReal` |
| `runtime_two` | 2 robots, 1 manager, 2 tasks, 1 message per queue, reneging before the start | `SingleOwner`, `ClaimsAwarded`, `ReleasedOnce`, `ExcludedNeverHolds`, and `LeaseKept`: the protocol implements `TaskLease` |
| `premission` | every fleet of up to 2 robots, every list of up to 3 tasks, three kinds of task | `OneTaskOneRobot`, `NobodyLeftWilling`, `AssignedMeetNeeds`, `StatusTellsOutcome` |
| `proc` | 2 entries, the first watched, 2 pids, signals, fairness | `OneInstance`, `PidsAreOwn`, `ChildrenKnown`, `PublishedIsCurrent`, `WantedComesBack`, `UnwantedStops`, `HungIsReplaced`, and `SupervisionKept`: proccontrol implements `Supervision` |
| `drive` | commands go, stop and a vector, front and rear laser, a motion time-out of one round | `StandsStill`, `ObeysLast`, `MotionBounded`, `ObstacleStops` |
| `motion` | a queue limit of 1, map updates on, fairness | `StopSticks`, `StopTakesEffect`, `GoalTakenUp` |
| `params` | 1 module, 2 parameters (a number, listed twice, and a text, listed under other words than those of its changes), 2 values, a queue limit of 2, module and daemon restart, fairness | `CopiesCurrent`, `CatchesUp`, and `FeedsKept`: daemon, central and modules implement `ChangeFeed` |
| `laser` | 2 lasers, a ring of 2, 3 scans of each and 1 more for calibration, SIGINT, fairness | `WokenFindsScan`, `ScansMoveOn`, `StopEnds`, and `FeedKept`: the ring implements `ScanFeed` |
| `runtime_reneg` | as `runtime_two` without reneging before the start | *violated*: `OwnersHoldContracts` |
| `runtime_loser` | 1 manager, 1 task, fairness | *violated*: `BiddersLearnOutcome` |
| `motion_reached` | map updates off | *violated*: `ReachedIsCurrent` |

The type invariant of every module is proved (section 4) and not repeated in a run. Nor are
three invariants that are theorems too: `HandledExitLeavesNone`, which `SupervisionKept`
says more than; `QueuesKept`, to which a run with its limits hardly adds; and
`LastContenderTakes`, which describes what the premission code does and not what it is meant to do.

What the properties say is in the comments above them. Those of the motion
modules in short. `StandsStill`: the base's motion time-out asks `moving` first, so a
base that wrongly took the robot to stand would never stop it; it never does, whatever
call of the driver fails where. `ObeysLast`: a velocity that was replaced in
central or held up by a failing driver does not stay in force. `MotionBounded`:
after the last velocity, the motors run at most one round longer than the
time-out, whatever became of the robot server. `ObstacleStops`: an obstacle that
stays in front has stopped the robot one full round after the round it was seen in,
while the driver works and reports the odometry. It does not claim that of a robot
server that was started anew while the motors run: it does not know of the velocity
in force and publishes no stop, and only the motion time-out ends the motion. `StopSticks`: once all messages
are handled a stop that was the last word has ended the motion in both processes,
unless it took over the slot of an older message and so overtook the go it was meant
to end (`lastStop` is `"overtook"` then) or the navigator was gone.
`GoalTakenUp`: a goal set within the replanning period of the one before is
planned for in the end, as the front laser asks for a plan again.

`WantedComesBack`: the comment at `proccontrol.c:222-223` has a process restarted if its exit code
is not 0, and the code restarts it in any case (`proccontrol.c:224-238`). The property claims the restart only
for an entry none of whose processes has ended with code 0, where both agree.

`CopiesCurrent`: a module that has handled all changes has the daemon's value of
each name it follows, in the variable of the first entry, whatever was lost, overtaken or passed
over, unless the last word about that very name was (`told`); `CatchesUp`: it comes to that, or
the word is no longer good, once parameters are no longer set. Of a name that is not the one in the changes
the property says only that what the module was told as it started holds until the parameter is set; then the module is not
told, and the copy stays wrong. Of a second entry of a name it says nothing.

`FeedsKept`: whatever happens in central's slots, a module that has subscribed handles the
changes in the order in which the values were stored, each with the value it was stored
with and once, and what it misses was the oldest in a full line.

`SupervisionKept`: the processes there are, and not the table, say that proccontrol does only
what it is to do: it starts none before the last one of the entry was waited for, kills
none that is wanted and was heard of, and leaves at work only what a signal in the
middle of a start made it lose.

`NobodyLeftWilling`: whatever robots were given away for, a task left to nobody has no robot
left that bids on it. `AssignedMeetNeeds`: constraints are attached by name, and bids are made
on what was attached; still a robot breaks nothing that was asked for the very task it
is given, as far as the kind of task heeds it. A robot may well break what its kind does not heed.

`WokenFindsScan`: the main thread looks at the size once, without the mutex, and decrements
it in any case; it is never 0 then. `ScansMoveOn`: no scan stays in the ring with the main
thread asleep. `StopEnds`: a server told to stop ends, or is *deserted*: all lasers have
stopped, and the main thread sits in `sem_wait`, which nobody posts any more. The second does
happen, and TLC finds it when the property leaves it out: the flag is looked at before
the wait only (`laser.c:606`), `signal` installs a handler after which the wait is restarted,
and no laser need send a scan between the signal and the end of its thread. A laser that
cannot be started ends in the same way, with the main thread waiting for the first scan. The
process then goes on, without a laser, and its device locks stay.

What the three violations say of the code:

* **Reneging with several tasks** (`mlab_cnp.cc:107`). `cancelTask` erases the
  award of the task in the message but cancels the contract of `cnpTaskID_`,
  the task injected last. With two tasks the contract of a robot that is still
  executing is moved to the reneged ones. With one task at a time
  (`runtime_one`) owners, awards and contracts always agree.
* **A late loser** (`mlab_cnp.cc:127`). Completing or reneging erases the award;
  a loser that asks afterwards is told, for ever, that the auction goes on.
* **A goal that is not planned for** (`planner.c:261`). A goal set within
  `1/replan_frequency` of the last plan is taken but not planned for. With map
  updates off nothing plans for it later, and the robot's arrival at the free point
  near the earlier goal is reported as the goal reached.

Ownership survives the first: `SingleOwner` holds with several tasks too,
because it rests on the award list, which is searched by the message's task.

Where the code departs from its comments or its evident purpose, with no violation run of its own:

* Before a mission the task goes to the last robot in the list that bids, as `dLargestBid` is
  set to 0 (`cnp_server_manager.cpp:192`) and never raised (`:206`). The comment at
  `cnp_server_manager.cpp:184-185` says "Assigning the task to the highest bidder".
  `MappingIsGreedy` proves what the code does instead, for every input.
* `CNPInterceptTask`, `CNPInspectTask` and `CNPObserveTask` test `available_time` outside the `if` on
  `MISSION_OCCURANCE_TIME` (`CNPObserveTask.cpp:99-111`): a task of these kinds with any other constraint is
  refused by every robot. `CNPEODTask.cpp:298` sets the bid to 1 after all constraints were looked at,
  and the kinds about sensors look at none.
* Changes of the parameters of `navigator_panel` are never applied, and those of the simulator's
  rear laser only to the front one (see `ParamServer` in section 2).
* proccontrol restarts a child that ended with exit code 0 too (`proccontrol.c:224`), contrary to the
  comment at `proccontrol.c:222-223`, "If so and the code != 0, restart it".

Known from reading as well: a flipped scan is reversed with an index
one too high, so its first reading comes from behind the last (`laser.c:641`); a tick of the expiry timer that finds
the console paused is the last one (`mlab_cnp.cc:241` returns before the line that
re-arms it), which `AuctionsDecided` excepts; the constraints sent for a task are
those of the last injection, whichever task is offered (`mlab_cnp.cc:433`); a
failure broadcast names no task (`robot_side_com.c:2326`); the premission status
loses the word about idle robots when a second task is left
(`cnp_server_manager.cpp:216`), and a task can be left although an allocation
of all exists. A change handled before its parameter is installed is passed over
(`param_interface.c:1312`); a daemon that is started again publishes nothing of
what it read, and nobody subscribes to its message that it started; the limit of
100 changes (`param_interface.c:1236`) is for all parameters, while a file read again
may publish several hundred. Parameters that are set for ever can keep a
change from ever being handled, each new one taking the place at the end and dropping
the one that is first, which is why `CatchesUp` asks that they cease. With a motion time-out of 0 the motors
run a round longer than `MotionBounded` allows when the base announces a reset in the
round in which it would have noticed the time-out.

### Bounds

`RoomForAward` stops injections and cancels when the awards listed and those
the open contracts may add reach `MaxAwards`; it is larger than what the tasks
need at once, so failures and awards of one task in a row fit. `MaxQueue` and
`MaxNews` bound the messages under way. One message per queue suffices for the
races of `runtime_two`, which are between a message of one robot and the polls
of another; `runtime_one` has two, for races between a robot's own messages.
Two robots and bids 0..2 give every winner-loser pair, ties, and a bid that is
replaced by a lower one.
`ExpireTicks` is 20 in the code; 1 or 2 in the instances. The value matters in
one place: `Check_Expire` returns at the first contract that runs out, so with
more tasks than `ExpireTicks` that are reopened at once every time, the last one
could be starved. `AuctionsDecided` is checked with as many tasks as ticks and
holds for the same reason in the code up to 20 tasks. The proofs use no bound:
they hold for any value of all of them.

`runtime_two` takes states that differ in constraints alone as one (`VIEW
WithoutConstraints`): constraints are copied along and steer nothing, and no
property of that run mentions them.

In `proc` pids are used again as soon as their process was waited for, and there
are as many as entries: fewer would let a fork wait for a pid, more only delay
the reuse. `silence` stops counting once it exceeds `HeartbeatLimit`, after which
its value does not matter. Two entries give a process that is repaired while
another fails; the safety properties of this run are also proved for every table.
`CHECK_DEADLOCK FALSE` is set for proccontrol because it really ends, on a
signal; in every other place it may go on.

In `drive` one forward speed, a motion time-out of one round, a sensor time-out
below one and an approach distance of 0 give every comparison in the handlers
both outcomes; larger ones repeat them. `MaxGone` bounds the way covered along a
vector, which `Displacement` compares with a target at distance 1. `askedAge`
stops one round above what `MotionBounded` allows, `blocked` at 2 rounds, all that
`ObstacleStops` needs. No command of the run drives the robot backwards, so the
rear laser only changes its limit there and never has to stop the robot: that
handler mirrors the front one, and the proofs cover both for every speed.

In `motion` the queue limit is 1, which every handler modelled asks for. Three
names in the navigator's queue and two in the robot server's give every order and
every replacement, and bound the queues without further limits. One trajectory,
to the goal, is enough to see who follows when.

In `params` one module is enough, since modules do not affect each other. A limit of 2
lets a change be lost, be replaced by one of the same parameter, and wait behind
one of the other. One value of the two is not a number. The number is listed twice; the
text has two names, the one in the module's list and the one in the changes, which
the module may subscribe to by itself. The run has 276,742 states and takes a minute and a half.

In `premission` two robots and three tasks give more tasks than robots, more
robots than tasks, two tasks left, and two tasks of one name. There is one constraint that
is broken or not, and one kind of task for each way of looking at it: one that refuses who
breaks it, one that refuses everybody for it, one that does not look; and a name that is
not known. Grades 0..1 suffice where
only the sign matters, which is everywhere (the size of a bid is read and never kept).
The run has 1,183,744 states; any number of robots is in the proofs.
`CHECK_DEADLOCK FALSE` is set because a call returns.

In `laser` a ring of 2 is full, empty and wrapped around within the 3 scans of each laser, and
two lasers are what it takes to be between mutex and post at once. The code has 4096
slots and 101 scans of calibration; the proofs hold for all. `CHECK_DEADLOCK FALSE` is set
because the server ends, or waits for scans that the bound does not allow.

### Fairness

`FairSpec` asks that the timer callback runs when it is armed: Xt fires
time-outs in its event loop. `FairRuntimeSpec` adds that the console serves each
connection, that broadcasts arrive, and that a robot's behaviours are run again
(the mission executive runs them on every cycle). The polls for the outcome get
strong fairness because they wait until the robot's own messages are handled,
and the robot that waits inside `Query` sends nothing. No fairness is assumed of
what the user decides: to inject, bid, complete, reneg or pause.

`FairSpec` of `ProcControl` asks that IPC fires the periodic timer, that
proccontrol runs on within a timer call and within its signal handler, that a
child killed with `SIGKILL` dies, and that time passes. Nothing is assumed of the
children, which may fail at any time and as often as they like, nor of messages
and signals. The timer call need not end: two entries that fail in turns keep it
in its loop, and no message is served meanwhile; the liveness properties hold all
the same.

`FairSpec` of `Motion` asks that the navigator and the robot server handle the
messages central hands them, that the front laser keeps sending, and that time
passes. Nothing is assumed of users and missions, of the position reports, of the
loop of the robot server, nor that a process that ended is started again.

`FairSpec` of `ParamServer` asks that a module handles the changes central hands it.
Nothing is assumed of the daemon, of queries, or of a process that ended.

`FairSpec` of `LaserServer` asks that the main thread and each laser's are scheduled. A call
of `f_handle` returns, since the devices time out; `f_start` gives up after some tries, and
`f_stop` repeats until the device has answered, which is taken to happen. That a laser sends
scans is not assumed, nor that anybody presses Ctrl-C.

## 4. What is proved

TLAPS checks the following for all robots, tasks, bids, ticks and bounds, and for
all process tables and pids, from the assumptions named in the modules (robot and
task ids are naturals, there are finitely many; the watched entries and those a
message is about are entries of the table; time-outs and limits are naturals, and
commands, limits and trajectories any sets of those the modules allow; the two words the
daemon splits a name into make that name again).

| theorem | says |
|---|---|
| `TypeCorrect` | `Spec => []TypeOK` |
| `ContractsDisjoint` | `Spec => []OneContractPerTask` |
| `HoldersKept` | `Spec => NoSilentHandover` |
| `ExclusionsFollowRecord` | `Spec => []ExclusionsMatchRecord` |
| `HighestBidWins` | `Spec => AwardsGoToHighestBid` |
| `RuntimeTypeCorrect` | `RuntimeSpec => []RuntimeTypeOK` |
| `ConsoleImplementsServer` | `RuntimeSpec => Spec`: the robots are an environment `CnpServer` allows |
| `ClaimsAreAwarded`, `TasksReleasedOnce` | `RuntimeSpec => []ClaimsAwarded`, `[]ReleasedOnce` |
| `TasksHaveOneOwner` | `RuntimeSpec => []SingleOwner` |
| `ExcludedStayOut` | `RuntimeSpec => []ExcludedNeverHolds` |
| `AwardsAreContracts`, `OwnersAreHolders` | `RuntimeSpec => []AwardsMatchContracts`, `[]OwnersHoldContracts`, with one task and no reneging before the start (`OneTask`) |
| `ContractsEndWell`, `LossesReal` | `RuntimeSpec => ContractsEndProperly`, `LossesAreReal`, from `OneTask` |
| `RuntimeImplementsLease` | `RuntimeSpec => LeaseKept`: the protocol implements `TaskLease` |
| `PremissionTyped`, `MappingIsMatching`, `MappingIsMaximal`, `MappingIsGreedy`, `AssignedAreFit`, `StatusIsTrue` | `Spec => []` of `TypeOK`, `OneTaskOneRobot`, `NobodyLeftWilling`, `LastContenderTakes`, `AssignedMeetNeeds`, `StatusTellsOutcome` of `CnpPremission` |
| `MappingIsDetermined` | `Spec => []OnlyMapping`: no other mapping satisfies `LastContenderTakes` |
| `TypeCorrect` of `ProcControlProofs` | `Spec => []TypeOK` |
| `NeverTwo`, `PidsStayOwn`, `NoneForgotten`, `ExitLeavesNone` | `Spec => []OneInstance`, `[]PidsAreOwn`, `[]ChildrenKnown`, `[]HandledExitLeavesNone` |
| `PublishedStaysCurrent` | `Spec => []PublishedIsCurrent` |
| `ImplementsSupervision` | `Spec => SupervisionKept`: proccontrol implements `Supervision` |
| `DriveTyped`, `MotorsStandStill`, `MotorsObeyLast`, `ObstacleHalts` | `Spec => []` of `DriveTypeOK`, `StandsStill`, `ObeysLast`, `ObstacleStops` of `Drive` |
| `MotionIsBounded` | `Spec => []MotionBounded` of `Drive`, for a motion time-out of at least one round |
| `MotionTyped`, `CentralKeepsQueues`, `StopsStick` | `Spec => []MotionTypeOK`, `[]QueuesKept`, `[]StopSticks` of `Motion` |
| `ParamTypeCorrect`, `CopiesAreCurrent` | `Spec => []TypeOK`, `[]CopiesCurrent` of `ParamServer` |
| `ImplementsChangeFeed` | `Spec => FeedsKept`: daemon, central and modules implement `ChangeFeed` |
| `LaserTyped`, `WokenFinds` | `Spec => []LaserTypeOK`, `[]WokenFindsScan` of `LaserServer` |
| `RingImplementsFeed` | `Spec => FeedKept`: the ring implements `ScanFeed` |

The console. `TypeOK` is inductive; the work is in `MaxBidder` (the loop ends with one
of the bidders) and in `EarlierNotExpiring` (the contracts ticked
before the one that runs out do not reach 0). `OneContractPerTask` is inductive
by itself, because `Inject_Task` consults the executing contracts *after*
`CancelTask` took the reneged one out. `ExclusionsMatchRecord` needs it: a
reneging rewrites the record of the contract that was executing, and only
because that contract is not open too do the open ones still match. `HighestBidWins`
rests on the loop of `Find_MaxBidder`: after each offer, the bidder kept is the one with the lowest id among
the highest bidders so far (`LoopFinds`). Induction being out of reach, that is shown of the
least offer for which it would fail; and there is such a function in the first
place, made from the winners of the beginnings of the line (`SomeoneWins`).

The protocol. `SingleOwner` is not inductive: a state with one owner in which
the award list names another robot leads to two. The invariant `OwnerInv` adds
`ClaimsAwarded` (the list names whoever owns the task or has its release under
way) and `ReleasedOnce` (a release is not under way twice, nor while the sender
owns the task), and the types. The steps that matter: reading one's award comes
after all one's messages were handled, so no old release of the reader can erase
it later (`WinStep`); handling a release erases the award of a task nobody else
claims, and nobody claims afterwards (`ReceiveStep`); later awards of the same
task do not change the answer, the list being searched from the front
(`AppendKeepsAward`); erasing another task's does not either
(`ErasingKeepsOthers`).

The refinement. Every step of the protocol changes the lease of one task at
most, and does to it what one action of `TaskLease` allows or nothing. It needs
the invariant of the protocol and one strengthening of its own,
`ExecutesInPhase`: a robot executes a task in phase `executing` only. An award
that is appended grants a lease if the list named nobody; one that is erased
returns it, and that is the step where `ClaimsAwarded` and `ReleasedOnce` say
that the message erasing it is the holder's.

Exclusions. The console takes every offer, so `ExcludedNeverHolds` rests on there
being none of an excluded robot. `NotExcluded` says that no robot that is being
offered a task, bids for it, has a bid for it under way or listed, or holds it, is on
record as excluded from it. A robot is put on record when its reneg is handled;
`RenegsLast` says that it is then in no auction and has no bid behind the reneg, since
it begins with an auction only when all it sent was handled (`GetTask` is a query).

One task. Awards and contracts are two records of one decision, kept by `MlabCNP` and by
`CNP_Server`. They agree when there is one task at a time (`OneTask`), which `runtime_reneg`
shows is needed. `MatchingInv` adds that the task injected last is that of every contract
(`InjectedLast`), that whoever gives something back names a task (`TasksNamed`, which
needs that nothing is reneged before it was started), and that a task has one award at most
(`AwardedOnce`), so that erasing one leaves none. `HolderReleases` then says that the release the
console handles comes from the holder, and the contract it ends is the one that is meant.

Process control. `OneInstance` is not inductive: a process the table has
forgotten would be started a second time. `Held` says that, until proccontrol is
about to end, a process that was not waited for is that of its entry (`InTable`),
or the one just forked, or the one `kill_process` waits for. `PlaceInv` says what
each place in the timer call knows of the entry it is about, above all that a
fork comes for an entry with `state` 0 only, and `ExitInv` what the signal handler
has done already. The proofs go by what a step does to the children: nothing
(`MoveOn`), a kill (`KillFacts`), a wait (`FreeFacts`), a fork, or a child's own
step (`ChildChanges`). `PublishedIsCurrent` needs `PublishInv`: a timer call that
has recorded no change may lag by one entry, the one being replaced, which runs
again before the call ends. For `SupervisionKept` each action of `ProcControl` is shown to
be one of `Supervision` or a stutter, from the invariant of `OneInstance` and from
`StartInv`: a start under way is for a wanted entry, and so is a wait that is to be
followed by a start; and whenever the signal handler is not installed, except in the middle
of a start, there are no children. So a signal loses children only in that middle.

Premission. The invariant says of each loop what it has built: `TasksInv` that the
listed tasks have rising ids and the constraints of their name, `RobotsInv` that
the robots left are distinct and those of the input that have no task,
`DecidedInv` that the tasks before the iterator were given to a robot that bid for
them or found nobody, and `StatusInv` the same of the status. A task left to nobody
stays so because the robots left only become fewer. `LastContenderTakes` adds `OrderInv`, which
says it of the tasks gone through. It rests on the robots left being sorted by id, also
after one is erased from the middle (`ErasedSorted`), so that the last place that bids is
that of the largest id; and on who takes an earlier task, and who contends for it, being
settled. `MappingIsDetermined` follows without induction: of two mappings that follow the
order, take the least task on which they differ; before it they agree, so it has the same
contenders in both, and then the same taker.

Drive. `StandsStill` needs to know what a call that is repeated has done already:
`BaseInv` says for each call what `moving` and the motors are while the base is in
it. `DriveInv` relates the velocity that waits, the one being passed on and the
last one published; each step of the robot server replaces all that waits, so what
the base ends up with is the newest. The handlers' types are in `CarmenRobotProofs`,
for every command and limit. `MotionBounded` needs two facts about time: none passes
while a velocity waits or is being passed on, unless the driver fails (`Prompt`), and
the age the base counts is not below that of the velocity in force (`Counted`). Then
the time-out is noticed in its round, unless the base announces a reset in that round
instead; that happens only in the first round after a velocity, which is why the theorem
asks for a motion time-out of at least one. For
`ObstacleStops`, `HaltInv` says how far the stop has come: in the first round the robot
server knows that it still goes forward (`Going`), and the odometry report at the end
of it makes it publish a stop; from then on (`Halted`) every velocity published has
the front limit of 0, so nothing that follows moves the robot forward.

Motion. The first part of `MotionProofs` shows for any messages and any limit that `AddPending`
keeps the limit, and follows a message through the replacements: where it is, what
is behind it, and what overtakes it. From these, `GoneInv` says that a process
that is gone has no messages, and `StopInv` where a stop that was the last word is:
in the navigator's queue with no go behind it, or handled, with its
velocity 0 in the robot server's queue and no trajectory behind it, or in effect.

Parameters. `CopiesCurrent` says nothing while changes are under way; `Informed` does:
of a name under which the module was told the value, the last change under way carries
that value, or none is under way and the variable, or the answer that is waiting to be
installed, has it. A full queue loses its oldest change, all being of one name, and
the rest keep their order (`ReplaceOneName`). A change of a parameter tells the name that is in it
and takes the others of that parameter from what was told (`PublishSound`). What a second entry
of a name is answered goes to its own variable, so the answer that fills the first one's
is never an older one (`InstallSound`). For `FeedsKept` it is shown
for any queue that central's arrival and its end of a handler are an entry and a
departure in the line (`ArriveMaps`, `FinishMaps`): central replaces messages in their
slots, each by the next of its name and the last by the new one, which is compared element
by element with a line that loses its second. `HeardInv` says that a module that has not
subscribed has an empty queue, so it begins with an empty line.

Laser server. `SemaphoreCounts` is the account: the scans in the ring are as many as the
semaphore counts, plus one for each thread between the mutex and its post, plus one for a main
thread that was let through. So a main thread that was let through finds one, and the
size, decremented without a look, stays in its range. `TailFollows` says that the
tail is `size` slots ahead of the head; with it the slot a scan goes into is the end of the
line, or the first in line when the ring is full, and `Wrap` gives the arithmetic of the
remainders.

Model-checked only: the liveness properties, as fairness is out of the prover's reach. Every
safety property a run finds to hold is proved.

## 5. Not modelled, and the plan

Crashes of a robot or of the console in the contract net are not modelled: the
protocol has no recovery, a `Query` has no time-out and a contract no lease.
`Find_RandomBidder` is dead code (`CNP_RANDOM` is 0). Of the laser
server, what the devices do before and after a scan is left out. The robot server without
lasers, with sonar or bumper, and its 3d controller; the base's odometry and arm; the
map and the search of the navigator; priorities, locks and direct connections of
central are left out. The parts of the table in section 1 that are numeric, sequential
compilers, drivers or graphics have little that a model checker reaches.

In order:

1. **CnpNotify**: the completion and reneg keys, how a mission waits for another
   robot's task (`exec_cnp_task_completion_notified`), keys consumed by reading,
   flags cleared late, the crash in the compilation of a reneg's reason.
2. **Watchdog**: one child, restarts, the clean exit, and signals while the
   handlers are reset; with it a fork that fails, and the same for `ProcControl`.
3. In `ParamServer`, the queries about all parameters or about a robot, and the
   refusal of names the daemon does not accept.
