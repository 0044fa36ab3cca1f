----------------------------- MODULE Supervision -----------------------------
(***************************************************************************)
(* What proccontrol promises of the processes it looks after, without its   *)
(* table, its timer call and the places in it: an entry has a process only  *)
(* while it is wanted, never a second one before the first was waited for,  *)
(* and a wanted one is killed only for its silence or at the end.           *)
(* ProcSupervision shows that ProcControl implements this.                  *)
(***************************************************************************)
CONSTANTS Entries, Watched, Targets, Pids

VARIABLES
  duty,      \* "on", "leaving" when it was told to end, then "off"; or "lost"
  wanted,    \* whether an entry is wanted
  quiet,     \* the watched entries that were not heard of for too long
  starting,  \* the entry a process is being started for: a set, at most one
  crew,      \* the processes of an entry that were not waited for
  health     \* how the process with a pid is; "free" if there is none

others == <<duty, wanted, quiet, starting>>
supervisionVars == <<others, crew, health>>

Ended == {"clean", "failed"}
Working == {"running", "hung", "stopped"}

\* What a process may become by itself, and a killed one by and by.
Fates(h) ==
  CASE h = "running" -> {"hung", "stopped"} \cup Ended
    [] h = "hung" -> Ended
    [] h = "stopped" -> {"running"}
    [] h = "dying" -> {"failed"}
    [] OTHER -> {}

SupervisionInit ==
  /\ duty = "on"
  /\ wanted \in [Entries -> BOOLEAN]
  /\ quiet = {} /\ starting = {}
  /\ crew = [i \in Entries |-> {}]
  /\ health = [p \in Pids |-> "free"]

Suffer(p) ==
  /\ \E h \in Fates(health[p]) : health' = [health EXCEPT ![p] = h]
  /\ UNCHANGED <<others, crew>>

\* Time passes, even after the supervisor has ended.
GetQuiet ==
  /\ \E S \in SUBSET Watched : quiet' = quiet \cup S
  /\ UNCHANGED <<duty, wanted, starting, crew, health>>

Hear(i) ==
  /\ duty = "on"
  /\ quiet' = quiet \ {i}
  /\ UNCHANGED <<duty, wanted, starting, crew, health>>

Want(S, whether) ==
  /\ duty = "on" /\ starting = {}
  /\ wanted' = [i \in Entries |-> IF i \in S THEN whether ELSE wanted[i]]
  /\ UNCHANGED <<duty, quiet, starting, crew, health>>

-----------------------------------------------------------------------------
(* Starting a process. *)

Prepare(i) ==
  /\ duty = "on" /\ starting = {}
  /\ wanted[i] /\ crew[i] = {}
  /\ starting' = {i}
  /\ UNCHANGED <<duty, wanted, quiet, crew, health>>

Start(i, p) ==
  /\ starting = {i} /\ crew[i] = {}
  /\ health[p] = "free"
  /\ crew' = [crew EXCEPT ![i] = {p}]
  /\ health' = [health EXCEPT ![p] = "running"]
  /\ UNCHANGED others

Started(i) ==
  /\ starting = {i} /\ crew[i] # {}
  /\ starting' = {}
  /\ quiet' = quiet \ {i}
  /\ UNCHANGED <<duty, wanted, crew, health>>

-----------------------------------------------------------------------------
(* Stopping one. *)

Kill(i, p) ==
  /\ p \in crew[i] /\ health[p] \in Working
  /\ duty = "leaving" \/ (duty = "on" /\ (wanted[i] => i \in quiet))
  /\ health' = [health EXCEPT ![p] = "dying"]
  /\ UNCHANGED <<others, crew>>

\* waitpid
Collect(i, p) ==
  /\ duty \in {"on", "leaving"} /\ starting = {}
  /\ p \in crew[i] /\ health[p] \in Ended
  /\ crew' = [crew EXCEPT ![i] = @ \ {p}]
  /\ health' = [health EXCEPT ![p] = "free"]
  /\ UNCHANGED others

\* An entry that is killed for its silence is started again with no delay.
Replace(i, p) ==
  /\ duty = "on" /\ starting = {} /\ wanted[i]
  /\ p \in crew[i] /\ health[p] \in Ended
  /\ starting' = {i}
  /\ crew' = [crew EXCEPT ![i] = @ \ {p}]
  /\ health' = [health EXCEPT ![p] = "free"]
  /\ UNCHANGED <<duty, wanted, quiet>>

-----------------------------------------------------------------------------
(* The end of the supervisor. *)

BeginToLeave ==
  /\ duty = "on" /\ starting = {}
  /\ duty' = "leaving"
  /\ UNCHANGED <<wanted, quiet, starting, crew, health>>

Leave ==
  /\ duty = "leaving"
  /\ \A p \in Pids : health[p] \notin Working
  /\ duty' = "off"
  /\ UNCHANGED <<wanted, quiet, starting, crew, health>>

\* It ends and leaves its processes alone: only while it starts one, or as long as
\* it has none.
GetLost ==
  /\ duty = "on"
  /\ starting # {} \/ \A i \in Entries : crew[i] = {}
  /\ duty' = "lost"
  /\ starting' = {}
  /\ UNCHANGED <<wanted, quiet, crew, health>>

-----------------------------------------------------------------------------
\* Most steps of an implementation are none of these; said first, it is the first
\* thing that is tried.
SupervisionNext ==
  \/ UNCHANGED supervisionVars
  \/ GetQuiet \/ BeginToLeave \/ Leave \/ GetLost
  \/ \E S \in Targets, whether \in BOOLEAN : Want(S, whether)
  \/ \E p \in Pids : Suffer(p)
  \/ \E i \in Entries :
       \/ Hear(i) \/ Prepare(i) \/ Started(i)
       \/ \E p \in Pids : Start(i, p) \/ Kill(i, p) \/ Collect(i, p) \/ Replace(i, p)

SupervisionSpec == SupervisionInit /\ [][SupervisionNext]_supervisionVars
=============================================================================
