------------------------------ MODULE CnpServer ------------------------------
(***************************************************************************)
(* The console's half of the runtime Contract Net Protocol: the auction    *)
(* bookkeeping of CNP_Server (cnp/cnp_server.cpp) and the award list that  *)
(* MlabCNP (mlab/mlab_cnp.cc) keeps in front of it, driven by the message  *)
(* handlers csc_cnp_* of mlab/console_side_com.c and by an Xt timer.       *)
(*                                                                         *)
(* Everything here runs on the console's one event loop, so each handler   *)
(* and each timer callback is one atomic step.  Next lets the console      *)
(* receive any message of any robot at any time; CnpRuntime replaces that  *)
(* environment by robots that follow robot_side_com.c.                     *)
(*                                                                         *)
(* Iteration is 1 in every request, offer and award (DEFAULT_ITERATION in  *)
(* saveCurrentCNPTaskConstraints; a reneged request keeps its own), so the *)
(* field is left out, and with it the NEW_INFO branch it alone can select. *)
(* The text of a task (type, requirements) is left out too.                *)
(*                                                                         *)
(* A definition Name_Variant in front of Name is a mutated form of it, the *)
(* slip a programmer might make; no action uses it.                        *)
(***************************************************************************)
EXTENDS Integers, Sequences, FiniteSets, SequencesExt

CONSTANTS
  Robots,       \* robot ids
  Tasks,        \* task ids
  MaxBid,       \* bids are 0..MaxBid; a robot that computes 0 declines
  ExpireTicks,  \* how many ticks an auction stays open (20 in Inject_Task)
  MaxAwards,    \* bound on the award list, see RoomForAward
  PauseAllowed  \* whether the operator may press the pause button

ASSUME RobotsAssumption == Robots \subseteq Nat /\ IsFiniteSet(Robots)
ASSUME TasksAssumption == Tasks \subseteq Nat /\ IsFiniteSet(Tasks)
ASSUME BoundsAssumption ==
  /\ MaxBid \in Nat
  /\ ExpireTicks \in Nat \ {0}
  /\ MaxAwards \in Nat
  /\ PauseAllowed \in BOOLEAN

NoTask == -1    \* the TaskID of a robot that has none
NoRobot == -1   \* getAward's answer when the list has no such award
Failed == -2    \* the TaskID and RobotID of the award of a failed auction

VARIABLES
  openContracts,       \* Open_Contracts: task -> expiry, bids and exclusions
  executingContracts,  \* Executing_Contracts: task -> winner and exclusions
  reneggedContracts,   \* Renegged_Contracts: task -> exclusions
  awardList,           \* cnpAwardList_
  cnpTaskID,           \* cnpTaskID_, the task injected last
  taskConstraints,     \* the task currentCNPTaskConstraints_ describes
  paused,              \* the console's pause button
  timerArmed           \* an XtAppAddTimeOut for cbCheckExpire_ is pending

contracts == <<openContracts, executingContracts, reneggedContracts>>
serverVars == <<contracts, awardList, cnpTaskID, taskConstraints, paused, timerArmed>>

Bids == 0..MaxBid

OpenRequest ==
  UNION {[expire : 1..ExpireTicks, bids : [S -> Bids \ {0}], excl : SUBSET Robots] :
           S \in SUBSET Robots}
ExecutingRequest == [robot : Robots, excl : SUBSET Robots]
Award == [task : Tasks, robot : Robots] \cup {[task |-> Failed, robot |-> Failed]}

(***************************************************************************)
(* std::map as a function whose domain is the set of keys.                 *)
(***************************************************************************)
Without(map, key) == [k \in DOMAIN map \ {key} |-> map[k]]
With(map, key, value) ==
  [k \in DOMAIN map \cup {key} |-> IF k = key THEN value ELSE map[k]]
EmptyMap == [k \in {} |-> k]

(***************************************************************************)
(* The award list.  Every search takes the first match.                    *)
(***************************************************************************)
AwardsOf(t) == {i \in 1..Len(awardList) : awardList[i].task = t}

FirstAward_Latest(t) == IF AwardsOf(t) = {} THEN 0 ELSE Max(AwardsOf(t))
FirstAward(t) == IF AwardsOf(t) = {} THEN 0 ELSE Min(AwardsOf(t))

\* awardList without the first award of t
ErasedAward_Never(t) == awardList
ErasedAward(t) ==
  IF FirstAward(t) = 0 THEN awardList ELSE RemoveAt(awardList, FirstAward(t))

\* RobotID in the reply to MSG_GetAward
AwardedRobot(t) ==
  IF FirstAward(t) = 0 THEN NoRobot ELSE awardList[FirstAward(t)].robot

\* TaskIDs a robot may be offered in reply to MSG_GetTask
Eligible_Everyone(r) == DOMAIN openContracts
Eligible(r) == {t \in DOMAIN openContracts : r \notin openContracts[t].excl}

(***************************************************************************)
(* Inject_Task: openContracts after an attempt to open t, when x and n are *)
(* the executing and the reneged contracts at that point.  A reneged task  *)
(* is reopened under its recorded exclusions, and stays recorded.          *)
(***************************************************************************)
NewRequest(excl) == [expire |-> ExpireTicks, bids |-> EmptyMap, excl |-> excl]

AfterInject_OpenOnly(t, x, n) ==
  IF t \in DOMAIN openContracts
  THEN openContracts
  ELSE With(openContracts, t, NewRequest(IF t \in DOMAIN n THEN n[t] ELSE {}))
AfterInject_Restarts(t, x, n) ==
  IF t \in DOMAIN x
  THEN openContracts
  ELSE With(openContracts, t, NewRequest(IF t \in DOMAIN n THEN n[t] ELSE {}))
AfterInject_Forgives(t, x, n) ==
  IF t \in DOMAIN openContracts \cup DOMAIN x
  THEN openContracts
  ELSE With(openContracts, t, NewRequest({}))
AfterInject(t, x, n) ==
  IF t \in DOMAIN openContracts \cup DOMAIN x
  THEN openContracts
  ELSE With(openContracts, t, NewRequest(IF t \in DOMAIN n THEN n[t] ELSE {}))

\* Bound: a contract is opened only if the award it may end in has room.
RoomForAward == Len(awardList') + Cardinality(DOMAIN openContracts') <= MaxAwards

Init ==
  /\ openContracts = EmptyMap
  /\ executingContracts = EmptyMap
  /\ reneggedContracts = EmptyMap
  /\ awardList = <<>>
  /\ cnpTaskID = NoTask
  /\ taskConstraints = NoTask
  /\ paused = FALSE
  /\ timerArmed = TRUE

(***************************************************************************)
(* MSG_CNP_TaskConstraintsData: the task and its constraints become the    *)
(* current ones even when Inject_Task then refuses a duplicate.            *)
(***************************************************************************)
Inject(t) ==
  /\ cnpTaskID' = t
  /\ taskConstraints' = t
  /\ openContracts' = AfterInject(t, executingContracts, reneggedContracts)
  /\ UNCHANGED <<executingContracts, reneggedContracts, awardList, paused, timerArmed>>
  /\ RoomForAward

(***************************************************************************)
(* MSG_BidTask.  Only an open task takes offers, a declined one (bid 0,    *)
(* TaskAccept false) is dropped, and a later offer replaces an earlier     *)
(* one.  The exclusions are not consulted here.                            *)
(***************************************************************************)
Match_TaskOffer(r, t, bid) ==
  IF t \in DOMAIN openContracts /\ bid > 0
  THEN [openContracts EXCEPT ![t].bids = With(@, r, bid)]
  ELSE openContracts

ReceiveOffer(r, t, bid) ==
  /\ openContracts' = Match_TaskOffer(r, t, bid)
  /\ UNCHANGED <<executingContracts, reneggedContracts, awardList, cnpTaskID,
                 taskConstraints, paused, timerArmed>>

(***************************************************************************)
(* MSG_CancelTask with IsReneged set (cancelTask).  The award erased is    *)
(* that of the message's task; the contract moved to Renegged_Contracts is *)
(* that of the task injected last (cnpTaskID_), whose exclusions become    *)
(* the sender alone; then the message's task is reinjected if it is known  *)
(* as reneged.  The reason (Info) is never NULL.                           *)
(***************************************************************************)
RenegesContract == cnpTaskID \in DOMAIN executingContracts

ReneggedAfter_Unnamed(r) ==
  IF RenegesContract THEN With(reneggedContracts, cnpTaskID, {}) ELSE reneggedContracts
ReneggedAfter(r) ==
  IF RenegesContract THEN With(reneggedContracts, cnpTaskID, {r}) ELSE reneggedContracts

ReinjectTask(t, x, n) ==
  IF t \in DOMAIN n
  THEN /\ taskConstraints' = t
       /\ openContracts' = AfterInject(t, x, n)
  ELSE UNCHANGED <<taskConstraints, openContracts>>

CancelTask(r, t) ==
  /\ awardList' = ErasedAward(t)
  /\ reneggedContracts' = ReneggedAfter(r)
  /\ executingContracts' = Without(executingContracts, cnpTaskID)
  /\ ReinjectTask(t, executingContracts', reneggedContracts')
  /\ UNCHANGED <<cnpTaskID, paused, timerArmed>>
  /\ RoomForAward

(***************************************************************************)
(* MSG_CancelTask with IsReneged clear (completeTask, Remove_Task): the    *)
(* task is forgotten whoever reports it.                                   *)
(***************************************************************************)
RemoveTask(t) ==
  /\ openContracts' = Without(openContracts, t)
  /\ executingContracts' = Without(executingContracts, t)
  /\ reneggedContracts' = Without(reneggedContracts, t)

CompleteTask(t) ==
  /\ awardList' = ErasedAward(t)
  /\ RemoveTask(t)
  /\ UNCHANGED <<cnpTaskID, taskConstraints, paused, timerArmed>>

(***************************************************************************)
(* MSG_GetAward for {-2,-2,-2}: a failure is reported once, to whoever     *)
(* asks first.                                                             *)
(***************************************************************************)
ReportFailure ==
  /\ FirstAward(Failed) # 0
  /\ awardList' = ErasedAward(Failed)
  /\ UNCHANGED <<contracts, cnpTaskID, taskConstraints, paused, timerArmed>>

(***************************************************************************)
(* cbCheckExpire_.  Check_Expire walks the open contracts by ascending id, *)
(* takes one tick off each, and returns at the first that runs out, so the *)
(* contracts behind that one keep their tick.  The callback re-arms itself *)
(* except when it finds the console paused.                                *)
(***************************************************************************)
Expiring == {t \in DOMAIN openContracts : openContracts[t].expire = 1}

\* the open contracts after one tick was taken off those in S
Ticked(S) ==
  [t \in DOMAIN openContracts |->
     IF t \in S THEN [openContracts[t] EXCEPT !.expire = @ - 1] ELSE openContracts[t]]

\* Find_MaxBidder: the loop over Bids, which std::map keeps in ascending order of the
\* ids, with maxoffer as it is after the offer of r.  What is returned points into a
\* copy of the request that ends with the call; Award_Task reads RobotID from it as the
\* next thing it does, before anything is allocated, and finds it as it was.
Find_MaxBidder_NeverRaised(bids) == Max(DOMAIN bids)
Find_MaxBidder(bids) ==
  LET Before(r) == {q \in DOMAIN bids : q < r}
      maxoffer[r \in DOMAIN bids] ==
        LET last == IF Before(r) = {} THEN NoRobot ELSE maxoffer[Max(Before(r))]
            maxbid == IF last = NoRobot THEN -1 ELSE bids[last]
        IN IF bids[r] > maxbid THEN r ELSE last
  IN IF DOMAIN bids = {} THEN NoRobot ELSE maxoffer[Max(DOMAIN bids)]

TickRunning == timerArmed /\ ~paused /\ timerArmed' = TRUE

Tick ==
  /\ TickRunning
  /\ Expiring = {}
  /\ openContracts' = Ticked(DOMAIN openContracts)
  /\ UNCHANGED <<executingContracts, reneggedContracts, awardList, cnpTaskID,
                 taskConstraints, paused>>

TickAward(t) ==
  /\ TickRunning
  /\ t \in Expiring /\ \A u \in Expiring : t <= u
  /\ DOMAIN openContracts[t].bids # {}
  /\ LET winner == Find_MaxBidder(openContracts[t].bids) IN
       /\ executingContracts' =
            With(executingContracts, t, [robot |-> winner, excl |-> openContracts[t].excl])
       /\ awardList' = Append(awardList, [task |-> t, robot |-> winner])
  /\ openContracts' = Without(Ticked({u \in DOMAIN openContracts : u < t}), t)
  /\ UNCHANGED <<reneggedContracts, cnpTaskID, taskConstraints, paused>>

TickFailure(t) ==
  /\ TickRunning
  /\ t \in Expiring /\ \A u \in Expiring : t <= u
  /\ DOMAIN openContracts[t].bids = {}
  /\ awardList' = Append(awardList, [task |-> Failed, robot |-> Failed])
  /\ openContracts' = Without(Ticked({u \in DOMAIN openContracts : u < t}), t)
  /\ executingContracts' = Without(executingContracts, t)
  /\ reneggedContracts' = Without(reneggedContracts, t)
  /\ UNCHANGED <<cnpTaskID, taskConstraints, paused>>

TickPaused ==
  /\ timerArmed /\ paused
  /\ timerArmed' = FALSE
  /\ UNCHANGED <<contracts, awardList, cnpTaskID, taskConstraints, paused>>

CheckExpire ==
  \/ Tick
  \/ \E t \in Tasks : TickAward(t) \/ TickFailure(t)
  \/ TickPaused

\* gt_toggle_pause_execution
TogglePause ==
  /\ PauseAllowed
  /\ paused' = ~paused
  /\ UNCHANGED <<contracts, awardList, cnpTaskID, taskConstraints, timerArmed>>

Next ==
  \/ \E t \in Tasks : Inject(t)
  \/ \E r \in Robots, t \in Tasks, bid \in Bids : ReceiveOffer(r, t, bid)
  \/ \E r \in Robots, t \in Tasks \cup {NoTask} : CancelTask(r, t)
  \/ \E t \in Tasks \cup {NoTask} : CompleteTask(t)
  \/ ReportFailure
  \/ CheckExpire
  \/ TogglePause

\* The Xt event loop always comes round to a pending time-out.
Fairness == WF_serverVars(CheckExpire)

Spec == Init /\ [][Next]_serverVars
FairSpec == Spec /\ Fairness

-----------------------------------------------------------------------------
(***************************************************************************)
(* Properties.                                                             *)
(***************************************************************************)
Mapping(map, keys, values) ==
  DOMAIN map \subseteq keys /\ \A k \in DOMAIN map : map[k] \in values

\* Every map, list and field holds values of the kind the code stores there.
TypeOK ==
  /\ Mapping(openContracts, Tasks, OpenRequest)
  /\ Mapping(executingContracts, Tasks, ExecutingRequest)
  /\ Mapping(reneggedContracts, Tasks, SUBSET Robots)
  /\ awardList \in Seq(Award)
  /\ cnpTaskID \in Tasks \cup {NoTask}
  /\ taskConstraints \in Tasks \cup {NoTask}
  /\ paused \in BOOLEAN
  /\ timerArmed \in BOOLEAN

\* A task is never up for auction while a robot holds it: the duplicate test
\* of Inject_Task guards every way a contract is opened, the reinjection in
\* the middle of a cancel included.
OneContractPerTask == DOMAIN openContracts \cap DOMAIN executingContracts = {}

\* The exclusions of a live contract, open or executing, are those on record
\* in Renegged_Contracts, and none when the task has no record: they survive
\* the reopening, the award and later cancels, and leave with the record.
RecordedExclusions(t) ==
  IF t \in DOMAIN reneggedContracts THEN reneggedContracts[t] ELSE {}

ExclusionsMatchRecord ==
  /\ \A t \in DOMAIN openContracts : openContracts[t].excl = RecordedExclusions(t)
  /\ \A t \in DOMAIN executingContracts :
       executingContracts[t].excl = RecordedExclusions(t)

\* The auction goes to a highest bidder, the one with the lowest id among
\* equals, whatever the order in which the offers came in and were replaced.
AwardedFairly ==
  \A t \in DOMAIN executingContracts' \ DOMAIN executingContracts :
    LET winner == executingContracts'[t].robot
        bids == openContracts[t].bids
    IN /\ winner \in DOMAIN bids
       /\ \A r \in DOMAIN bids :
            bids[r] < bids[winner] \/ (bids[r] = bids[winner] /\ winner <= r)

AwardsGoToHighestBid == [][AwardedFairly]_serverVars

\* A robot that holds a contract keeps it until the contract is cancelled or
\* completed: no later auction puts another robot in its place.
HolderKept ==
  \A t \in DOMAIN executingContracts \cap DOMAIN executingContracts' :
    executingContracts'[t] = executingContracts[t]

NoSilentHandover == [][HolderKept]_serverVars

\* Every auction is decided, although Check_Expire stops at the first contract
\* that runs out and leaves the ones behind it waiting, and however often the
\* console is paused and set going between two ticks; a tick that finds it paused
\* is the last one.
AuctionsDecided ==
  \A t \in Tasks :
    t \in DOMAIN openContracts ~> t \notin DOMAIN openContracts \/ ~timerArmed
=============================================================================
