--------------------------- MODULE ProcSupervision ---------------------------
(***************************************************************************)
(* ProcControl as an implementation of Supervision.  Of the places in the   *)
(* timer call all that is left is whether a process is being started, and   *)
(* of the place proccontrol is at, whether it has been told to end.         *)
(***************************************************************************)
EXTENDS ProcControl

Duty ==
  CASE pc \in {"dispatch"} \cup InTimer -> "on"
    [] pc \in {"exit", "exitwait"} -> "leaving"
    [] pc = "ended" /\ handlers -> "off"
    [] OTHER -> "lost"

Quiet == {i \in Watched : Silent(i)}
Starting == IF pc \in {"fork", "record"} THEN {at} ELSE {}
Crew == [i \in Processes |-> {p \in Pids : runs[p] = i /\ child[p] # "free"}]

Supervisor == INSTANCE Supervision WITH
  Entries <- Processes, duty <- Duty, wanted <- requested, quiet <- Quiet,
  starting <- Starting, crew <- Crew, health <- child

\* Whatever the children, the users, the clock and signals do between any two system
\* calls: a process is started only for a wanted entry that has none, not even one
\* that ended and was not waited for; a wanted one is killed only when it was silent
\* for too long; an entry's process is never killed or waited for in the name of
\* another; an exit by the signal handler leaves nothing at work, and one without it
\* can happen only in the middle of a start or before the first.
SupervisionKept == Supervisor!SupervisionSpec
=============================================================================
