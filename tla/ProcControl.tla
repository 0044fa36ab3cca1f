----------------------------- MODULE ProcControl -----------------------------
(***************************************************************************)
(* proccontrol: the table of the processes of a robot, the 5 Hz timer call *)
(* process_timer that starts, stops, watches and restarts them, the        *)
(* handlers of the messages that change what is wanted, and the signal     *)
(* handler (proccontrol/proccontrol.c).                                    *)
(*                                                                         *)
(* proccontrol has one thread, but its children and the operating system   *)
(* go on while it runs, and a signal may stop it anywhere.  So the timer   *)
(* call is cut where it looks at the world or changes it: pc is the place  *)
(* it is at, `at' the entry i of its loop over the table.  Messages are    *)
(* served between two timer calls only.                                    *)
(*                                                                         *)
(* Left out: the output of the children, read from a pipe and published,   *)
(* and the loss of the connection to IPC (reconnect_central).  fork is     *)
(* assumed to succeed.                                                     *)
(*                                                                         *)
(* A definition Name_Variant in front of Name is a mutated form of it.     *)
(***************************************************************************)
EXTENDS Integers

CONSTANTS
  NumProcesses,    \* the entries of process.ini
  Watched,         \* those with watch_heartbeats set
  Targets,         \* the sets of entries one module or group name stands for
  Pids,            \* process ids, used again once their process was waited for
  NoPid,           \* the pid of an entry that was never started
  HeartbeatLimit,  \* ticks of silence a watched process is allowed (2.0 s)
  SignalsAllowed   \* whether anybody sends signals to proccontrol

Processes == 1..NumProcesses

ASSUME ProcControlAssumption ==
  /\ NumProcesses \in Nat \ {0}
  /\ Watched \subseteq Processes
  /\ Targets \subseteq SUBSET Processes
  /\ NoPid \notin Pids
  /\ HeartbeatLimit \in Nat
  /\ SignalsAllowed \in BOOLEAN

VARIABLES
  requested,   \* requested_state: whether an entry is wanted
  state,       \* state: whether it is believed to run
  pid,         \* pid
  silence,     \* time since last_heartbeat, watched entries only
  pc,          \* where proccontrol is
  at,          \* the loop variable i
  restarting,  \* inside the branch for a silent process
  forked,      \* spawned_pid
  killed,      \* process_killed
  updated,     \* update_pidtable
  published,   \* the `active' column of the table published last
  handlers,    \* pc_handle_signal is installed
  child,       \* what became of the process with a pid
  runs,        \* the entry it was started for
  beats        \* a heartbeat of the entry is under way

table == <<requested, state, pid, silence>>
locals == <<pc, at, restarting, forked, killed, updated>>
system == <<child, runs, beats>>
vars == <<table, locals, published, handlers, system>>

\* "free": no process has this pid.  A process that ended is a zombie, "clean"
\* (exit code 0) or "failed" (any other code or a signal), until waited for.
Zombies == {"clean", "failed"}
Alive == {"running", "hung", "stopped", "dying"}
ChildStates == {"free"} \cup Zombies \cup Alive

InTimer == {"visit", "check", "reaped", "fork", "record", "wait"}
Ending == {"exit", "exitwait", "ended"}

Init ==
  /\ requested \in [Processes -> BOOLEAN]
  /\ state = [i \in Processes |-> FALSE]
  /\ pid = [i \in Processes |-> NoPid]
  /\ silence = [i \in Watched |-> 0]
  /\ pc = "dispatch" /\ at = 1
  /\ restarting = FALSE /\ forked = NoPid /\ killed = FALSE /\ updated = FALSE
  /\ published = state
  /\ handlers = FALSE
  /\ child = [p \in Pids |-> "free"]
  /\ runs = [p \in Pids |-> 1]
  /\ beats = [i \in Watched |-> FALSE]

-----------------------------------------------------------------------------
(***************************************************************************)
(* The children and the clock.                                             *)
(***************************************************************************)
Becomes(p, s) ==
  /\ child' = [child EXCEPT ![p] = s]
  /\ UNCHANGED <<table, locals, published, handlers, runs, beats>>

Finish(p, s) == child[p] \in {"running", "hung"} /\ s \in Zombies /\ Becomes(p, s)
Hang(p) == child[p] = "running" /\ Becomes(p, "hung")
Stop(p) == child[p] = "running" /\ Becomes(p, "stopped")
Continue(p) == child[p] = "stopped" /\ Becomes(p, "running")
Die(p) == child[p] = "dying" /\ Becomes(p, "failed")

\* A heartbeat names its module; it may arrive when its sender is gone.
SendHeartbeat(p) ==
  /\ child[p] = "running" /\ runs[p] \in Watched
  /\ beats' = [beats EXCEPT ![runs[p]] = TRUE]
  /\ UNCHANGED <<table, locals, published, handlers, child, runs>>

\* Bound: once a silence exceeds the limit it does not matter by how much.
Elapse ==
  /\ silence' = [i \in Watched |->
                   IF silence[i] > HeartbeatLimit THEN silence[i] ELSE silence[i] + 1]
  /\ UNCHANGED <<requested, state, pid, locals, published, handlers, system>>

-----------------------------------------------------------------------------
(***************************************************************************)
(* Messages.                                                               *)
(***************************************************************************)
\* moduleset_handler and groupset_handler
SetRequested(S, wanted) ==
  /\ pc = "dispatch"
  /\ requested' = [i \in Processes |-> IF i \in S THEN wanted ELSE requested[i]]
  /\ UNCHANGED <<state, pid, silence, locals, published, handlers, system>>

HandleHeartbeat(i) ==
  /\ pc = "dispatch" /\ beats[i]
  /\ beats' = [beats EXCEPT ![i] = FALSE]
  /\ silence' = [silence EXCEPT ![i] = 0]
  /\ UNCHANGED <<requested, state, pid, locals, published, handlers, child, runs>>

-----------------------------------------------------------------------------
(***************************************************************************)
(* process_timer.                                                          *)
(***************************************************************************)
Advance == pc' = "visit" /\ at' = at + 1

BeginTimer ==
  /\ pc = "dispatch"
  /\ pc' = "visit" /\ at' = 1
  /\ killed' = FALSE /\ updated' = FALSE
  /\ UNCHANGED <<table, restarting, forked, published, handlers, system>>

AtEntry(i, place) == pc = place /\ at = i

Silent_Never(i) == i \in Watched /\ silence[i] > HeartbeatLimit + 1
Silent(i) == i \in Watched /\ silence[i] > HeartbeatLimit

\* kill_process up to its waitpid; a process that ended stays as it is
KillProcess_Unkilled(i) == UNCHANGED child /\ state' = [state EXCEPT ![i] = FALSE]
KillProcess(i) ==
  /\ child' = [child EXCEPT ![pid[i]] = IF @ \in Alive THEN "dying" ELSE @]
  /\ state' = [state EXCEPT ![i] = FALSE]

\* the process is not wanted and does not run
VisitIdle(i) ==
  /\ AtEntry(i, "visit") /\ ~state[i] /\ ~requested[i]
  /\ Advance
  /\ UNCHANGED <<table, restarting, forked, killed, updated, published, handlers, system>>

MarkChanged_Forgotten == UNCHANGED updated
MarkChanged == updated' = TRUE

\* clear_signal_handlers comes before start_process
VisitMissing(i) ==
  /\ AtEntry(i, "visit") /\ ~state[i] /\ requested[i]
  /\ handlers' = FALSE
  /\ pc' = "fork" /\ restarting' = FALSE /\ MarkChanged
  /\ UNCHANGED <<table, at, forked, killed, published, system>>

VisitUnwanted(i) ==
  /\ AtEntry(i, "visit") /\ state[i] /\ ~requested[i]
  /\ KillProcess(i)
  /\ pc' = "wait" /\ restarting' = FALSE /\ MarkChanged
  /\ UNCHANGED <<requested, pid, silence, at, forked, killed, published, handlers,
                 runs, beats>>

\* A silent process is replaced at once, and the table is not marked changed.
VisitSilent(i) ==
  /\ AtEntry(i, "visit") /\ state[i] /\ requested[i] /\ Silent(i)
  /\ KillProcess(i)
  /\ pc' = "wait" /\ restarting' = TRUE
  /\ UNCHANGED <<requested, pid, silence, at, forked, killed, updated, published,
                 handlers, runs, beats>>

VisitRunning(i) ==
  /\ AtEntry(i, "visit") /\ state[i] /\ requested[i] /\ ~Silent(i)
  /\ pc' = "check"
  /\ UNCHANGED <<table, at, restarting, forked, killed, updated, published, handlers,
                 system>>

\* waitpid in kill_process blocks until the process is gone
Gone_Unwaited(p) == TRUE
Gone(p) == child[p] \in Zombies

AfterWait ==
  IF restarting
  THEN handlers' = FALSE /\ pc' = "fork" /\ UNCHANGED at
  ELSE UNCHANGED handlers /\ Advance

Wait(i) ==
  /\ AtEntry(i, "wait") /\ Gone(pid[i])
  /\ child' = [child EXCEPT ![pid[i]] = IF @ \in Zombies THEN "free" ELSE @]
  /\ AfterWait
  /\ UNCHANGED <<table, restarting, forked, killed, updated, published, runs, beats>>

Fork(i, p) ==
  /\ AtEntry(i, "fork") /\ child[p] = "free"
  /\ child' = [child EXCEPT ![p] = "running"]
  /\ runs' = [runs EXCEPT ![p] = i]
  /\ forked' = p
  /\ pc' = "record"
  /\ UNCHANGED <<table, at, restarting, killed, updated, published, handlers, beats>>

\* the end of start_process, and start_signal_handlers
Record(i) ==
  /\ AtEntry(i, "record")
  /\ pid' = [pid EXCEPT ![i] = forked]
  /\ state' = [state EXCEPT ![i] = TRUE]
  /\ silence' = [w \in Watched |-> IF w = i THEN 0 ELSE silence[w]]
  /\ handlers' = TRUE
  /\ forked' = NoPid
  /\ IF restarting THEN pc' = "check" /\ UNCHANGED at ELSE Advance
  /\ UNCHANGED <<requested, restarting, killed, updated, published, system>>

\* waitpid with WNOHANG alone: it tells of processes that ended, and not of
\* stopped ones, so the branch for WIFSTOPPED is never taken.
StillThere(i) ==
  /\ AtEntry(i, "check") /\ child[pid[i]] \notin Zombies
  /\ Advance
  /\ UNCHANGED <<table, restarting, forked, killed, updated, published, handlers, system>>

Reap(i) ==
  /\ AtEntry(i, "check") /\ child[pid[i]] \in Zombies
  /\ child' = [child EXCEPT ![pid[i]] = "free"]
  /\ pc' = "reaped"
  /\ UNCHANGED <<table, at, restarting, forked, killed, updated, published, handlers,
                 runs, beats>>

\* Between the waitpid and this the entry has the pid of no process.
AfterReap_Keeps(i) == UNCHANGED state
AfterReap(i) == state' = [state EXCEPT ![i] = FALSE]

MarkDead(i) ==
  /\ AtEntry(i, "reaped")
  /\ AfterReap(i)
  /\ killed' = TRUE
  /\ Advance
  /\ UNCHANGED <<requested, pid, silence, restarting, forked, updated, published,
                 handlers, system>>

\* do ... while (process_killed), then the table is published if it changed,
\* and every two seconds anyhow
Again ==
  /\ AtEntry(NumProcesses + 1, "visit") /\ killed
  /\ updated' = TRUE
  /\ killed' = FALSE /\ at' = 1
  /\ UNCHANGED <<table, pc, restarting, forked, published, handlers, system>>

EndTimer ==
  /\ AtEntry(NumProcesses + 1, "visit") /\ ~killed
  /\ published' = state \/ (~updated /\ published' = published)
  /\ pc' = "dispatch"
  /\ UNCHANGED <<table, at, restarting, forked, killed, updated, handlers, system>>

-----------------------------------------------------------------------------
(***************************************************************************)
(* pc_handle_signal, or the default action where it is not installed: the  *)
(* end of proccontrol alone.                                               *)
(***************************************************************************)
Signal ==
  /\ SignalsAllowed /\ pc \in {"dispatch"} \cup InTimer
  /\ IF handlers THEN pc' = "exit" /\ at' = 1 ELSE pc' = "ended" /\ UNCHANGED at
  /\ UNCHANGED <<table, restarting, forked, killed, updated, published, handlers, system>>

ToKill_Wanted(i) == requested[i] /\ state[i]
ToKill(i) == state[i]

ExitKill(i) ==
  /\ AtEntry(i, "exit") /\ ToKill(i)
  /\ KillProcess(i)
  /\ pc' = "exitwait"
  /\ UNCHANGED <<requested, pid, silence, at, restarting, forked, killed, updated,
                 published, handlers, runs, beats>>

ExitSkip(i) ==
  /\ AtEntry(i, "exit") /\ ~ToKill(i)
  /\ at' = at + 1
  /\ UNCHANGED <<table, pc, restarting, forked, killed, updated, published, handlers,
                 system>>

ExitWait(i) ==
  /\ AtEntry(i, "exitwait") /\ child[pid[i]] \notin Alive
  /\ child' = [child EXCEPT ![pid[i]] = "free"]
  /\ pc' = "exit" /\ at' = at + 1
  /\ UNCHANGED <<table, restarting, forked, killed, updated, published, handlers,
                 runs, beats>>

ExitDone ==
  /\ AtEntry(NumProcesses + 1, "exit")
  /\ pc' = "ended"
  /\ UNCHANGED <<table, at, restarting, forked, killed, updated, published, handlers,
                 system>>

-----------------------------------------------------------------------------
TimerStep ==
  \/ \E i \in Processes :
       \/ VisitIdle(i) \/ VisitMissing(i) \/ VisitUnwanted(i)
       \/ VisitSilent(i) \/ VisitRunning(i)
       \/ Wait(i) \/ Record(i) \/ StillThere(i)
       \/ Reap(i) \/ MarkDead(i)
       \/ \E p \in Pids : Fork(i, p)
  \/ Again \/ EndTimer

ExitStep ==
  \/ \E i \in Processes : ExitKill(i) \/ ExitSkip(i) \/ ExitWait(i)
  \/ ExitDone

WorldStep ==
  \/ \E p \in Pids :
       \/ \E s \in Zombies : Finish(p, s)
       \/ Hang(p) \/ Stop(p) \/ Continue(p) \/ Die(p) \/ SendHeartbeat(p)
  \/ Elapse

Next ==
  \/ WorldStep
  \/ \E S \in Targets, wanted \in BOOLEAN : SetRequested(S, wanted)
  \/ \E i \in Watched : HandleHeartbeat(i)
  \/ BeginTimer \/ TimerStep
  \/ Signal \/ ExitStep

Spec == Init /\ [][Next]_vars

\* IPC fires the periodic timer, proccontrol runs on, a killed process dies and
\* time passes.  The children are free to fail at any time, or never.
Fairness ==
  /\ WF_vars(BeginTimer) /\ WF_vars(TimerStep) /\ WF_vars(ExitStep)
  /\ \A p \in Pids : WF_vars(Die(p))
  /\ WF_vars(Elapse)

FairSpec == Spec /\ Fairness

-----------------------------------------------------------------------------
(***************************************************************************)
(* Properties.                                                             *)
(***************************************************************************)
\* Every variable holds a value of its kind, and a place in the loop over the
\* table is a place in the table.
TypeOK ==
  /\ requested \in [Processes -> BOOLEAN]
  /\ state \in [Processes -> BOOLEAN]
  /\ pid \in [Processes -> Pids \cup {NoPid}]
  /\ silence \in [Watched -> 0..HeartbeatLimit + 1]
  /\ pc \in {"dispatch"} \cup InTimer \cup Ending
  /\ at \in 1..NumProcesses + 1
  /\ pc \in (InTimer \ {"visit"}) \cup {"exitwait"} => at \in Processes
  /\ restarting \in BOOLEAN /\ killed \in BOOLEAN /\ updated \in BOOLEAN
  /\ forked \in Pids \cup {NoPid}
  /\ published \in [Processes -> BOOLEAN]
  /\ handlers \in BOOLEAN
  /\ child \in [Pids -> ChildStates]
  /\ runs \in [Pids -> Processes]
  /\ beats \in [Watched -> BOOLEAN]

\* No entry of the table ever has two processes at once, whichever way it was
\* stopped, found dead, replaced and started again: two of them would fight
\* over one device.
OneInstance ==
  \A p, q \in Pids :
    child[p] \in Alive /\ child[q] \in Alive /\ runs[p] = runs[q] => p = q

\* The pid of an entry believed to run is that of the process started for it,
\* not waited for yet, except right after the waitpid that found it dead, where
\* a signal may take proccontrol to its end: a kill in the timer call never
\* hits a process that got the pid later, one in the handler no child.
PidsAreOwn ==
  \A i \in Processes :
    state[i] =>
      /\ pid[i] \in Pids /\ runs[pid[i]] = i
      /\ child[pid[i]] # "free" \/ AtEntry(i, "reaped") \/ pc \in Ending

\* A process that is meant to go on is one the table knows, or the one just
\* forked; a signal that is handled leaves none behind.
ChildrenKnown ==
  pc # "ended" \/ handlers =>
    \A p \in Pids :
      child[p] \in Alive \ {"dying"} =>
        \/ state[runs[p]] /\ pid[runs[p]] = p
        \/ pc = "record" /\ forked = p

HandledExitLeavesNone ==
  pc = "ended" /\ handlers => \A p \in Pids : child[p] \notin Alive \ {"dying"}

\* Between two timer calls the table shown to the user has the processes that
\* are believed to run, although it is published only on some calls.
PublishedIsCurrent == pc = "dispatch" => published = state

Lives(i) == state[i] /\ pid[i] \in Pids /\ child[pid[i]] \in Alive

\* A wanted process that is not there is started again, even when the others end so
\* often that the timer call never does.  This says nothing of an entry one of whose
\* processes ends with code 0: the comment at proccontrol.c:222 would leave it ended,
\* the code starts it again (Reap and MarkDead do not ask how it ended).
EndsCleanly(i) == \E p \in Pids : runs[p] = i /\ child[p] = "clean"

WantedComesBack ==
  \A i \in Processes :
    []~EndsCleanly(i) =>
      (requested[i] /\ ~Lives(i)
         ~> AtEntry(i, "record") \/ ~requested[i] \/ pc \in Ending)

\* An unwanted process is stopped.
UnwantedStops ==
  \A i \in Processes :
    ~requested[i] ~>
      \/ \A p \in Pids : runs[p] = i => child[p] \notin Alive
      \/ requested[i] \/ pc \in Ending

\* A watched process that hangs is killed, although a heartbeat it sent before
\* may still arrive, and although its replacement takes over its silence.
HungIsReplaced ==
  \A i \in Watched, p \in Pids :
    child[p] = "hung" /\ runs[p] = i ~> child[p] # "hung" \/ pc \in Ending
=============================================================================
