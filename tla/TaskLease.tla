------------------------------ MODULE TaskLease ------------------------------
(***************************************************************************)
(* What the runtime Contract Net Protocol promises of a task, without      *)
(* auctions, messages and polls: a task is leased to one robot at a time,  *)
(* the robot may take it up, and it is leased anew only when the robot     *)
(* that holds the lease has given the task back.  CnpLease shows that      *)
(* CnpRuntime implements this.                                             *)
(***************************************************************************)
CONSTANTS Robots, Tasks, NoRobot

VARIABLES
  lease,      \* the robot a task is leased to, or NoRobot
  owners,     \* the robots that believe the task is theirs
  returning   \* the robots that have given the task back and wait to be heard

leaseVars == <<lease, owners, returning>>

LeaseInit ==
  /\ lease = [t \in Tasks |-> NoRobot]
  /\ owners = [t \in Tasks |-> {}]
  /\ returning = [t \in Tasks |-> {}]

Grant(t, r) ==
  /\ lease[t] = NoRobot
  /\ lease' = [lease EXCEPT ![t] = r]
  /\ UNCHANGED <<owners, returning>>

\* A robot whose task is on its way back cannot take it up again.
Take(t, r) ==
  /\ lease[t] = r
  /\ r \notin returning[t]
  /\ owners' = [owners EXCEPT ![t] = @ \cup {r}]
  /\ UNCHANGED <<lease, returning>>

\* The robot forgets the task and keeps the lease.
Abandon(t, r) ==
  /\ r \in owners[t]
  /\ owners' = [owners EXCEPT ![t] = @ \ {r}]
  /\ UNCHANGED <<lease, returning>>

GiveBack(t, r) ==
  /\ r \in owners[t]
  /\ owners' = [owners EXCEPT ![t] = @ \ {r}]
  /\ returning' = [returning EXCEPT ![t] = @ \cup {r}]
  /\ UNCHANGED lease

\* The return is heard, and the task may go straight to another robot.
Return(t, r) ==
  /\ r \in returning[t]
  /\ returning' = [returning EXCEPT ![t] = @ \ {r}]
  /\ \E q \in Robots \cup {NoRobot} : lease' = [lease EXCEPT ![t] = q]
  /\ UNCHANGED owners

\* Most steps of an implementation leave the leases alone; said first, it is the
\* first thing that is tried.
LeaseNext ==
  \/ UNCHANGED leaseVars
  \/ \E t \in Tasks, r \in Robots :
       Grant(t, r) \/ Take(t, r) \/ Abandon(t, r) \/ GiveBack(t, r) \/ Return(t, r)

LeaseSpec == LeaseInit /\ [][LeaseNext]_leaseVars
=============================================================================
