------------------------------- MODULE CnpLease -------------------------------
(***************************************************************************)
(* CnpRuntime as an implementation of TaskLease: the lease of a task is    *)
(* the award the console would name to a robot that asks, its owners are   *)
(* the robots that believe they own it, and it is returning while the      *)
(* message that completes or renegs it is under way.                       *)
(***************************************************************************)
EXTENDS CnpRuntime

Leases == [t \in Tasks |-> AwardedRobot(t)]
Owners == [t \in Tasks |-> {r \in Robots : Owner(r, t)}]
Returning == [t \in Tasks |-> {r \in Robots : ReleaseSent(r, t)}]

Lease == INSTANCE TaskLease WITH
  lease <- Leases, owners <- Owners, returning <- Returning

\* Every behaviour of the robots, the console and the messages between them
\* leases each task to one robot at a time: the console names another winner
\* only after it heard the release of the last one, whatever was injected,
\* bid, decided, reneged and broadcast in between.
LeaseKept == Lease!LeaseSpec
=============================================================================
