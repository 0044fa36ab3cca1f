-------------------------- MODULE ProcControlProofs --------------------------
(***************************************************************************)
(* Proofs about proccontrol, for any number of processes and pids.         *)
(*                                                                         *)
(* That an entry never has two processes is not inductive: a process the   *)
(* table has forgotten would be started a second time.  Held says that as  *)
(* long as proccontrol runs every process that was not waited for is the   *)
(* one of its entry, or the one just forked, or the one being waited for.  *)
(*                                                                         *)
(* For the refinement of Supervision it matters too what proccontrol is in *)
(* the middle of: a start was decided for an entry that was wanted and had *)
(* no process, and a kill for a cause (StartInv).                          *)
(***************************************************************************)
EXTENDS ProcSupervision, TLAPS

\* The two halves of TypeOK, proved apart.
PlaceType ==
  /\ pc \in {"dispatch"} \cup InTimer \cup Ending
  /\ at \in 1..NumProcesses + 1
  /\ pc \in (InTimer \ {"visit"}) \cup {"exitwait"} => at \in Processes

DataType ==
  /\ requested \in [Processes -> BOOLEAN]
  /\ state \in [Processes -> BOOLEAN]
  /\ pid \in [Processes -> Pids \cup {NoPid}]
  /\ silence \in [Watched -> 0..HeartbeatLimit + 1]
  /\ restarting \in BOOLEAN /\ killed \in BOOLEAN /\ updated \in BOOLEAN
  /\ forked \in Pids \cup {NoPid}
  /\ published \in [Processes -> BOOLEAN]
  /\ handlers \in BOOLEAN
  /\ child \in [Pids -> ChildStates]
  /\ runs \in [Pids -> Processes]
  /\ beats \in [Watched -> BOOLEAN]

LEMMA TypeHalves == TypeOK <=> PlaceType /\ DataType
BY DEF TypeOK, PlaceType, DataType

\* The loop variable stays in the table, and one behind it at the end.
LEMMA PlaceStep ==
  ASSUME PlaceType, [Next]_vars
  PROVE  PlaceType'
<1> USE DEF PlaceType, InTimer, Ending, AtEntry, Processes
<1>0. NumProcesses \in Nat \ {0}
  BY ProcControlAssumption
<1>1. CASE UNCHANGED <<pc, at>>
  BY <1>1
<1>2. WorldStep => PlaceType'
  BY <1>1 DEF WorldStep, Finish, Hang, Stop, Continue, Die, Becomes, SendHeartbeat,
              Elapse, locals
<1>10. ASSUME NEW S \in Targets, NEW wanted \in BOOLEAN, SetRequested(S, wanted)
      PROVE  PlaceType'
  BY <1>1, <1>10 DEF SetRequested, locals
<1>11. ASSUME NEW i \in Watched, HandleHeartbeat(i) PROVE PlaceType'
  BY <1>1, <1>11 DEF HandleHeartbeat, locals
<1>3. CASE BeginTimer \/ Again \/ EndTimer \/ Signal \/ ExitDone
  BY <1>0, <1>3 DEF BeginTimer, Again, EndTimer, Signal, ExitDone
<1>4. ASSUME NEW i \in Processes, at = i, Advance PROVE PlaceType'
  BY <1>0, <1>4 DEF Advance
<1>5. ASSUME NEW i \in Processes, at = i, UNCHANGED at,
             pc' \in (InTimer \ {"visit"}) \cup {"exitwait"}
      PROVE  PlaceType'
  BY <1>0, <1>5
<1>6. ASSUME NEW i \in Processes, at = i, pc' = "exit", at' = at + 1
      PROVE  PlaceType'
  BY <1>0, <1>6
<1>7. CASE TimerStep
  <2>1. ASSUME NEW i \in Processes, VisitIdle(i) \/ StillThere(i) \/ MarkDead(i)
        PROVE  PlaceType'
    BY <1>4, <2>1 DEF VisitIdle, StillThere, MarkDead
  <2>2. ASSUME NEW i \in Processes,
               VisitMissing(i) \/ VisitUnwanted(i) \/ VisitSilent(i) \/ VisitRunning(i)
                 \/ Reap(i)
        PROVE  PlaceType'
    BY <1>5, <2>2 DEF VisitMissing, VisitUnwanted, VisitSilent, VisitRunning, Reap, table
  <2>3. ASSUME NEW i \in Processes, Wait(i) PROVE PlaceType'
    BY <1>4, <1>5, <2>3 DEF Wait, AfterWait
  <2>4. ASSUME NEW i \in Processes, NEW p \in Pids, Fork(i, p) PROVE PlaceType'
    BY <1>5, <2>4 DEF Fork
  <2>5. ASSUME NEW i \in Processes, Record(i) PROVE PlaceType'
    BY <1>4, <1>5, <2>5 DEF Record
  <2> QED BY <1>3, <1>7, <2>1, <2>2, <2>3, <2>4, <2>5 DEF TimerStep
<1>8. CASE ExitStep
  <2>1. ASSUME NEW i \in Processes, ExitKill(i) PROVE PlaceType'
    BY <1>5, <2>1 DEF ExitKill
  <2>2. ASSUME NEW i \in Processes, ExitSkip(i) \/ ExitWait(i) PROVE PlaceType'
    BY <1>6, <2>2 DEF ExitSkip, ExitWait
  <2> QED BY <1>3, <1>8, <2>1, <2>2 DEF ExitStep
<1>9. CASE UNCHANGED vars
  BY <1>1, <1>9 DEF vars, locals
<1> HIDE DEF PlaceType, InTimer, Ending, AtEntry, Processes
<1> QED BY <1>2, <1>10, <1>11, <1>3, <1>7, <1>8, <1>9 DEF Next

\* Every other variable keeps the kind of value it holds.
LEMMA DataStep ==
  ASSUME DataType, [Next]_vars
  PROVE  DataType'
<1> USE DEF DataType, ChildStates, Zombies, Alive
<1>1. CASE UNCHANGED vars
  BY <1>1 DEF vars, table, locals, system
<1>2. ASSUME NEW p \in Pids, NEW s \in ChildStates, Becomes(p, s) PROVE DataType'
  BY <1>2 DEF Becomes, table, locals
<1>3. CASE WorldStep
  <2>1. ASSUME NEW p \in Pids, SendHeartbeat(p) PROVE DataType'
    BY <2>1 DEF SendHeartbeat, table, locals
  <2>2. CASE Elapse
    BY <2>2, ProcControlAssumption DEF Elapse, locals, system
  <2> QED BY <1>2, <1>3, <2>1, <2>2 DEF WorldStep, Finish, Hang, Stop, Continue, Die
<1>4. ASSUME NEW S \in Targets, NEW wanted \in BOOLEAN, SetRequested(S, wanted)
      PROVE  DataType'
  BY <1>4 DEF SetRequested, locals, system
<1>5. ASSUME NEW i \in Watched, HandleHeartbeat(i) PROVE DataType'
  BY <1>5, ProcControlAssumption DEF HandleHeartbeat, locals
<1>6. CASE BeginTimer \/ Again \/ EndTimer \/ Signal \/ ExitDone
  BY <1>6 DEF BeginTimer, Again, EndTimer, Signal, ExitDone, table, system
<1>7. ASSUME NEW i \in Processes,
             VisitIdle(i) \/ VisitMissing(i) \/ VisitRunning(i) \/ StillThere(i)
      PROVE  DataType'
  BY <1>7 DEF VisitIdle, VisitMissing, MarkChanged, VisitRunning, StillThere, table, system
<1>8. ASSUME NEW i \in Processes, VisitUnwanted(i) \/ VisitSilent(i) PROVE DataType'
  <2>1. child' \in [Pids -> ChildStates] /\ state' \in [Processes -> BOOLEAN]
    BY <1>8 DEF VisitUnwanted, VisitSilent, KillProcess
  <2>2. CASE VisitUnwanted(i)
    BY <2>1, <2>2 DEF VisitUnwanted, MarkChanged
  <2>3. CASE VisitSilent(i)
    BY <2>1, <2>3 DEF VisitSilent
  <2> QED BY <1>8, <2>2, <2>3
<1>9. ASSUME NEW i \in Processes, Wait(i) PROVE DataType'
  BY <1>9 DEF Wait, AfterWait, table
<1>10. ASSUME NEW i \in Processes, NEW p \in Pids, Fork(i, p) PROVE DataType'
  BY <1>10 DEF Fork, table
<1>11. ASSUME NEW i \in Processes, Record(i) PROVE DataType'
  BY <1>11, ProcControlAssumption DEF Record, system
<1>12. ASSUME NEW i \in Processes, Reap(i) \/ MarkDead(i) PROVE DataType'
  BY <1>12 DEF Reap, MarkDead, AfterReap, table, system
<1>13. CASE ExitStep
  <2>1. ASSUME NEW i \in Processes, ExitKill(i) PROVE DataType'
    BY <2>1 DEF ExitKill, KillProcess
  <2>2. ASSUME NEW i \in Processes, ExitSkip(i) PROVE DataType'
    BY <2>2 DEF ExitSkip, table, system
  <2>3. ASSUME NEW i \in Processes, ExitWait(i) PROVE DataType'
    BY <2>3 DEF ExitWait, table
  <2> QED BY <1>6, <1>13, <2>1, <2>2, <2>3 DEF ExitStep
<1>14. TimerStep => DataType'
  BY <1>6, <1>7, <1>8, <1>9, <1>10, <1>11, <1>12 DEF TimerStep
<1> QED BY <1>1, <1>3, <1>4, <1>5, <1>6, <1>13, <1>14 DEF Next

\* The table, the children and the place proccontrol is at are always of
\* their kinds.
THEOREM TypeCorrect == Spec => []TypeOK
<1>1. Init => PlaceType
  BY ProcControlAssumption DEF Init, PlaceType, InTimer
<1>2. Init => DataType
  <2>1. 0 \in 0..HeartbeatLimit + 1 /\ 1 \in Processes /\ "free" \in ChildStates
    BY ProcControlAssumption DEF Processes, ChildStates
  <2> SUFFICES ASSUME Init PROVE DataType
    OBVIOUS
  <2>2. /\ requested \in [Processes -> BOOLEAN] /\ state \in [Processes -> BOOLEAN]
        /\ published \in [Processes -> BOOLEAN]
        /\ pid \in [Processes -> Pids \cup {NoPid}]
    BY DEF Init
  <2>3. silence \in [Watched -> 0..HeartbeatLimit + 1] /\ beats \in [Watched -> BOOLEAN]
    BY <2>1 DEF Init
  <2>4. child \in [Pids -> ChildStates] /\ runs \in [Pids -> Processes]
    BY <2>1 DEF Init
  <2> QED BY <2>2, <2>3, <2>4 DEF Init, DataType
<1>3. PlaceType /\ DataType /\ [Next]_vars => PlaceType' /\ DataType'
  BY PlaceStep, DataStep
<1> QED BY <1>1, <1>2, <1>3, TypeHalves, PTL DEF Spec

-----------------------------------------------------------------------------
(***************************************************************************)
(* Who is responsible for a process.                                       *)
(***************************************************************************)

\* The process p is that of its entry in the table.
InTable(p) == state[runs[p]] /\ pid[runs[p]] = p

\* The process p has been killed by the step proccontrol is in, for its entry.
Awaited(p) == pc \in {"wait", "exitwait"} /\ pid[at] = p /\ runs[p] = at

Held ==
  pc \notin Ending =>
    \A p \in Pids :
      child[p] # "free" => InTable(p) \/ (pc = "record" /\ forked = p) \/ Awaited(p)

\* What the place in the code says about the entry it is about.
PlaceInv ==
  /\ pc \in {"check", "reaped"} => state[at]
  /\ pc \in {"fork", "record", "wait", "exitwait"} => ~state[at]
  /\ pc \in {"fork", "record"} => ~handlers
  /\ pc \in {"exit", "exitwait"} => handlers
  /\ pc = "record" => forked \in Pids /\ child[forked] # "free" /\ runs[forked] = at
  /\ pc = "reaped" => pid[at] \in Pids /\ child[pid[at]] = "free"
  /\ pc = "wait" => pid[at] \in Pids /\ child[pid[at]] \in Zombies \cup {"dying"}
  /\ pc = "exitwait" => pid[at] \in Pids /\ child[pid[at]] \notin Alive \ {"dying"}
  /\ pc \in {"wait", "exitwait"} => runs[pid[at]] = at

\* The handler has dealt with the entries before the one it is at.
ExitInv ==
  /\ pc \in {"exit", "exitwait"} => \A i \in Processes : i < at => ~state[i]
  /\ pc = "ended" /\ handlers => \A i \in Processes : ~state[i]

ChildFacts == PlaceInv /\ ExitInv /\ Held /\ PidsAreOwn /\ OneInstance /\ ChildrenKnown

ProcInv == TypeOK /\ ChildFacts

\* Children that die, stop or go on by themselves disturb none of it.
LEMMA ChildChanges ==
  ASSUME ProcInv, NEW p \in Pids, NEW s \in Alive \cup Zombies, child[p] \in Alive,
         child[p] = "dying" => s \in Zombies, Becomes(p, s)
  PROVE  ChildFacts'
<1> USE DEF ProcInv, ChildFacts, DataType, Becomes, table, locals
<1>1. DataType
  BY TypeHalves
<1>2. PlaceInv'
  BY <1>1 DEF PlaceInv, Zombies, Alive
<1>3. ExitInv'
  BY DEF ExitInv
<1>4. Held'
  BY <1>1 DEF Held, InTable, Awaited, Alive
<1>5. PidsAreOwn'
  BY <1>1 DEF PidsAreOwn, Alive, Zombies, AtEntry
<1>6. OneInstance'
  BY <1>1 DEF OneInstance, Alive
<1>7. ChildrenKnown'
  BY <1>1 DEF ChildrenKnown, Alive, Zombies
<1> QED BY <1>2, <1>3, <1>4, <1>5, <1>6, <1>7

\* Steps that change neither the children nor the table, and go from one place
\* to another that says nothing of them.
LEMMA MoveOn ==
  ASSUME ProcInv, UNCHANGED <<state, pid, child, runs>>,
         \/ UNCHANGED <<pc, at, forked, handlers>>
         \/ /\ pc \in {"dispatch", "visit", "check"} /\ UNCHANGED handlers
            /\ pc' \in {"dispatch", "visit"} \/ (pc' = "check" /\ state[at])
            /\ pc' = "check" => UNCHANGED at
         \/ /\ pc = "visit" /\ pc' = "fork" /\ ~state[at] /\ ~handlers'
            /\ UNCHANGED at
  PROVE  ChildFacts'
<1> USE DEF ProcInv, ChildFacts
<1>1. PlaceInv'
  BY DEF PlaceInv
<1>2. ExitInv'
  BY DEF ExitInv
<1>3. Held'
  BY DEF Held, InTable, Awaited, Ending
<1>4. PidsAreOwn' /\ OneInstance'
  BY DEF PidsAreOwn, OneInstance, AtEntry, Ending
<1>5. ChildrenKnown'
  BY DEF ChildrenKnown
<1> QED BY <1>1, <1>2, <1>3, <1>4, <1>5 DEF ChildFacts

\* kill_process, in the timer call or in the signal handler
LEMMA KillFacts ==
  ASSUME ProcInv, NEW i \in Processes, at = i, state[i], KillProcess(i),
         \/ pc = "visit" /\ pc' = "wait"
         \/ pc = "exit" /\ pc' = "exitwait",
         UNCHANGED <<pid, at, forked, handlers, runs>>
  PROVE  ChildFacts'
<1> USE DEF ProcInv, ChildFacts, KillProcess
<1>1. /\ DataType /\ pid[i] \in Pids /\ runs[pid[i]] = i
      /\ pc = "visit" => child[pid[i]] # "free"
  BY TypeHalves DEF PidsAreOwn, AtEntry, Ending
<1>2. /\ child' \in [Pids -> ChildStates] /\ state' \in [Processes -> BOOLEAN]
      /\ child'[pid[i]] \notin Alive \ {"dying"}
      /\ pc = "visit" => child'[pid[i]] \in Zombies \cup {"dying"}
      /\ \A p \in Pids : p # pid[i] => child'[p] = child[p]
      /\ ~state'[i] /\ \A j \in Processes : j # i => state'[j] = state[j]
      /\ child'[pid[i]] \in Alive => child[pid[i]] \in Alive
  BY <1>1 DEF DataType, ChildStates, Zombies, Alive
<1> HIDE DEF KillProcess
<1>3. PlaceInv'
  BY <1>1, <1>2 DEF PlaceInv
<1>4. ExitInv'
  BY <1>2 DEF ExitInv
<1>5. Held'
  BY <1>1, <1>2 DEF Held, InTable, Awaited, Ending, DataType
<1>6. PidsAreOwn'
  BY <1>1, <1>2 DEF PidsAreOwn, Zombies, AtEntry, Ending
<1>7. OneInstance'
  BY <1>1, <1>2 DEF OneInstance
<1>8. ChildrenKnown'
  BY <1>1, <1>2 DEF ChildrenKnown, DataType, Zombies, Alive
<1> QED BY <1>3, <1>4, <1>5, <1>6, <1>7, <1>8 DEF ChildFacts

\* A waitpid that returns the process of the entry proccontrol is at.
LEMMA FreeFacts ==
  ASSUME ProcInv, NEW i \in Processes, at = i, pid[i] \in Pids, runs[pid[i]] = i,
         child' = [child EXCEPT ![pid[i]] = "free"],
         UNCHANGED <<state, pid, runs, forked>>,
         \/ pc = "wait" /\ pc' = "fork" /\ UNCHANGED at /\ ~handlers'
         \/ pc = "wait" /\ pc' = "visit" /\ UNCHANGED handlers
         \/ pc = "check" /\ pc' = "reaped" /\ UNCHANGED <<at, handlers>>
         \/ pc = "exitwait" /\ pc' = "exit" /\ at' = at + 1 /\ UNCHANGED handlers
  PROVE  ChildFacts'
<1> USE DEF ProcInv, ChildFacts
<1>1. DataType /\ (pc # "check" => ~state[i])
  BY TypeHalves DEF PlaceInv
<1>2. /\ child' \in [Pids -> ChildStates] /\ child'[pid[i]] = "free"
      /\ \A p \in Pids : p # pid[i] => child'[p] = child[p]
  BY <1>1 DEF DataType, ChildStates
<1>3. PlaceInv'
  BY <1>1, <1>2 DEF PlaceInv, Alive
<1>4. ExitInv'
  BY <1>1 DEF ExitInv, Processes
<1>5. Held'
  BY <1>1, <1>2 DEF Held, InTable, Awaited, Ending
<1>6. PidsAreOwn'
  BY <1>1, <1>2 DEF PidsAreOwn, AtEntry, Ending
<1>7. OneInstance'
  BY <1>1, <1>2 DEF OneInstance, Alive
<1>8. ChildrenKnown'
  BY <1>1, <1>2 DEF ChildrenKnown, Alive
<1> QED BY <1>3, <1>4, <1>5, <1>6, <1>7, <1>8

\* fork finds no other process of the entry: that is what Held is for.
LEMMA ForkFacts ==
  ASSUME ProcInv, NEW i \in Processes, NEW p \in Pids, Fork(i, p)
  PROVE  ChildFacts'
<1> USE DEF ProcInv, ChildFacts, Fork, AtEntry, table
<1>1. DataType /\ ~state[i] /\ ~handlers /\ pc = "fork" /\ at = i
  BY TypeHalves DEF PlaceInv
<1>2. /\ child'[p] = "running" /\ runs'[p] = i /\ child[p] = "free"
      /\ \A q \in Pids : q # p => child'[q] = child[q] /\ runs'[q] = runs[q]
      /\ forked' = p /\ pc' = "record" /\ UNCHANGED <<state, pid, at, handlers>>
  BY <1>1 DEF DataType
<1>3. \A q \in Pids : child[q] # "free" => InTable(q)
  BY <1>1 DEF Held, Awaited, Ending
<1>4. \A j \in Processes : state[j] =>
        pid[j] \in Pids /\ runs[pid[j]] = j /\ child[pid[j]] # "free" /\ pid[j] # p
  BY <1>1, <1>2 DEF PidsAreOwn, Ending
<1> HIDE DEF Fork
<1>5. PlaceInv'
  BY <1>1, <1>2 DEF PlaceInv
<1>6. ExitInv'
  BY <1>2 DEF ExitInv
<1>7. Held'
  BY <1>2, <1>3 DEF Held, InTable
<1>8. PidsAreOwn'
  BY <1>2, <1>4 DEF PidsAreOwn
<1>9. OneInstance'
  BY <1>1, <1>2, <1>3 DEF OneInstance, InTable, Alive
<1>10. ChildrenKnown'
  BY <1>2, <1>3 DEF ChildrenKnown, InTable, Alive
<1> QED BY <1>5, <1>6, <1>7, <1>8, <1>9, <1>10

LEMMA RecordFacts ==
  ASSUME ProcInv, NEW i \in Processes, Record(i)
  PROVE  ChildFacts'
<1> USE DEF ProcInv, ChildFacts, Record, Advance, AtEntry, system
<1>1. /\ DataType /\ ~state[i] /\ pc = "record" /\ at = i
      /\ forked \in Pids /\ child[forked] # "free" /\ runs[forked] = i
  BY TypeHalves DEF PlaceInv
<1>2. /\ state'[i] = TRUE /\ pid'[i] = forked
      /\ \A j \in Processes : j # i => state'[j] = state[j] /\ pid'[j] = pid[j]
      /\ (pc' = "visit" \/ (pc' = "check" /\ at' = at)) /\ UNCHANGED <<child, runs>>
  BY <1>1 DEF DataType
<1> HIDE DEF Record
<1>3. PlaceInv'
  BY <1>1, <1>2 DEF PlaceInv
<1>4. ExitInv'
  BY <1>2 DEF ExitInv
<1>5. Held'
  BY <1>1, <1>2 DEF Held, InTable, Awaited, Ending, DataType
<1>6. PidsAreOwn'
  BY <1>1, <1>2 DEF PidsAreOwn, Ending
<1>7. OneInstance'
  BY <1>2 DEF OneInstance
<1>8. ChildrenKnown'
  BY <1>1, <1>2 DEF ChildrenKnown, DataType
<1> QED BY <1>3, <1>4, <1>5, <1>6, <1>7, <1>8

LEMMA MarkDeadFacts ==
  ASSUME ProcInv, NEW i \in Processes, MarkDead(i)
  PROVE  ChildFacts'
<1> USE DEF ProcInv, ChildFacts, MarkDead, AfterReap, Advance, AtEntry, system
<1>1. /\ DataType /\ pc = "reaped" /\ at = i /\ pc' = "visit"
      /\ pid[i] \in Pids /\ child[pid[i]] = "free"
  BY TypeHalves DEF PlaceInv
<1>2. /\ ~state'[i] /\ \A j \in Processes : j # i => state'[j] = state[j]
      /\ UNCHANGED <<pid, child, runs, handlers>>
  BY <1>1 DEF DataType
<1> HIDE DEF MarkDead
<1>3. PlaceInv' /\ ExitInv' /\ OneInstance'
  BY <1>1, <1>2 DEF PlaceInv, ExitInv, OneInstance
<1>4. Held'
  BY <1>1, <1>2 DEF Held, InTable, Awaited, Ending, DataType
<1>5. PidsAreOwn'
  BY <1>1, <1>2 DEF PidsAreOwn, Ending
<1>6. ChildrenKnown'
  BY <1>1, <1>2 DEF ChildrenKnown, DataType, Alive
<1> QED BY <1>3, <1>4, <1>5, <1>6

\* pc_handle_signal from its start to its end, but for the kills
LEMMA ExitFacts ==
  ASSUME ProcInv,
         Signal \/ ExitDone \/ \E i \in Processes : ExitSkip(i)
  PROVE  ChildFacts'
<1> USE DEF ProcInv, ChildFacts, AtEntry, table, system
<1>1. /\ DataType /\ PlaceType /\ UNCHANGED <<state, pid, child, runs, handlers, forked>>
  BY TypeHalves DEF Signal, ExitSkip, ExitDone
<1>2. CASE Signal
  <2>1. \/ handlers /\ pc' = "exit" /\ at' = 1 /\ pc # "record"
        \/ ~handlers /\ pc' = "ended"
    BY <1>2 DEF Signal, PlaceInv
  <2>2. \A i \in Processes : ~(i < 1)
    BY DEF Processes
  <2>3. PlaceInv' /\ ExitInv'
    BY <1>1, <2>1, <2>2 DEF PlaceInv, ExitInv
  <2>4. Held' /\ PidsAreOwn' /\ OneInstance'
    BY <1>1, <2>1 DEF Held, PidsAreOwn, OneInstance, Ending
  <2>5. ChildrenKnown'
    <3>1. pc = "ended" => FALSE
      BY <1>2 DEF Signal, InTimer
    <3> QED BY <1>1, <2>1, <3>1 DEF ChildrenKnown
  <2> QED BY <2>3, <2>4, <2>5
<1>3. ASSUME NEW i \in Processes, ExitSkip(i) PROVE ChildFacts'
  <2>1. /\ pc = "exit" /\ pc' = "exit" /\ at = i /\ at' = i + 1 /\ ~state[i]
        /\ i \in Int /\ \A j \in Processes : j < i + 1 <=> j < i \/ j = i
    BY <1>3 DEF ExitSkip, ToKill, Processes
  <2>2. PlaceInv' /\ ExitInv'
    BY <1>1, <2>1 DEF PlaceInv, ExitInv
  <2>3. Held' /\ PidsAreOwn' /\ OneInstance'
    BY <1>1, <2>1 DEF Held, PidsAreOwn, OneInstance, Ending
  <2>4. ChildrenKnown'
    BY <1>1, <2>1 DEF ChildrenKnown
  <2> QED BY <2>2, <2>3, <2>4
<1>4. CASE ExitDone
  <2>1. /\ pc = "exit" /\ pc' = "ended" /\ at = NumProcesses + 1
        /\ \A j \in Processes : j < NumProcesses + 1
    BY <1>4, ProcControlAssumption DEF ExitDone, Processes
  <2>2. PlaceInv' /\ ExitInv'
    BY <1>1, <2>1 DEF PlaceInv, ExitInv
  <2>3. Held' /\ PidsAreOwn' /\ OneInstance'
    BY <1>1, <2>1 DEF Held, PidsAreOwn, OneInstance, Ending
  <2>4. ChildrenKnown'
    BY <1>1, <2>1 DEF ChildrenKnown
  <2> QED BY <2>2, <2>3, <2>4
<1> QED BY <1>2, <1>3, <1>4

\* No step of proccontrol or of its children disturbs who has which process.
LEMMA ProcStep ==
  ASSUME ProcInv, [Next]_vars
  PROVE  ChildFacts'
<1> USE DEF AtEntry
<1>1. TypeOK /\ PlaceInv /\ PidsAreOwn
  BY DEF ProcInv, ChildFacts
<1>2. ASSUME UNCHANGED <<state, pid, child, runs, pc, at, forked, handlers>>
      PROVE  ChildFacts'
  BY <1>2, MoveOn
<1>3. WorldStep => ChildFacts'
  <2>1. ASSUME NEW p \in Pids, NEW s \in Zombies, Finish(p, s) PROVE ChildFacts'
    BY <2>1, ChildChanges DEF Finish, Alive
  <2>2. ASSUME NEW p \in Pids, Hang(p) \/ Stop(p) \/ Continue(p) PROVE ChildFacts'
    BY <2>2, ChildChanges DEF Hang, Stop, Continue, Alive
  <2>3. ASSUME NEW p \in Pids, Die(p) PROVE ChildFacts'
    BY <2>3, ChildChanges DEF Die, Alive, Zombies
  <2>4. ASSUME NEW p \in Pids, SendHeartbeat(p) PROVE ChildFacts'
    BY <1>2, <2>4 DEF SendHeartbeat, table, locals
  <2>5. Elapse => ChildFacts'
    BY <1>2 DEF Elapse, locals, system
  <2> QED BY <2>1, <2>2, <2>3, <2>4, <2>5 DEF WorldStep
<1>4. ASSUME NEW S \in Targets, NEW wanted \in BOOLEAN, SetRequested(S, wanted)
      PROVE  ChildFacts'
  BY <1>2, <1>4 DEF SetRequested, locals, system
<1>5. ASSUME NEW i \in Watched, HandleHeartbeat(i) PROVE ChildFacts'
  BY <1>2, <1>5 DEF HandleHeartbeat, locals
<1>6. BeginTimer \/ Again \/ EndTimer => ChildFacts'
  BY MoveOn DEF BeginTimer, Again, EndTimer, table, system
<1>7. Signal \/ ExitDone => ChildFacts'
  BY ExitFacts
<1>8. ASSUME NEW i \in Processes, VisitIdle(i) \/ StillThere(i) PROVE ChildFacts'
  BY <1>8, MoveOn DEF VisitIdle, StillThere, Advance, table, system
<1>9. ASSUME NEW i \in Processes, VisitMissing(i) \/ VisitRunning(i) PROVE ChildFacts'
  BY <1>9, MoveOn DEF VisitMissing, VisitRunning, table, system
<1>10. ASSUME NEW i \in Processes, VisitUnwanted(i) \/ VisitSilent(i) \/ ExitKill(i)
       PROVE  ChildFacts'
  BY <1>10, KillFacts DEF VisitUnwanted, VisitSilent, ExitKill, ToKill
<1>11. ASSUME NEW i \in Processes, Wait(i) PROVE ChildFacts'
  <2>1. /\ pid[i] \in Pids /\ runs[pid[i]] = i
        /\ child' = [child EXCEPT ![pid[i]] = "free"]
    BY <1>1, <1>11 DEF Wait, Gone, PlaceInv
  <2> QED BY <1>11, <2>1, FreeFacts DEF Wait, AfterWait, Advance, table
<1>12. ASSUME NEW i \in Processes, Reap(i) PROVE ChildFacts'
  <2>1. pid[i] \in Pids /\ runs[pid[i]] = i
    BY <1>1, <1>12 DEF Reap, PlaceInv, PidsAreOwn
  <2> QED BY <1>12, <2>1, FreeFacts DEF Reap, table
<1>13. ASSUME NEW i \in Processes, ExitWait(i) PROVE ChildFacts'
  <2>1. pid[i] \in Pids /\ runs[pid[i]] = i
    BY <1>1, <1>13 DEF ExitWait, PlaceInv
  <2> QED BY <1>13, <2>1, FreeFacts DEF ExitWait, table
<1>14. TimerStep => ChildFacts'
  BY <1>6, <1>8, <1>9, <1>10, <1>11, <1>12, ForkFacts, RecordFacts, MarkDeadFacts
     DEF TimerStep
<1>15. ExitStep => ChildFacts'
  BY <1>7, <1>10, <1>13, ExitFacts DEF ExitStep
<1>16. CASE UNCHANGED vars
  BY <1>2, <1>16 DEF vars, table, locals, system
<1> QED BY <1>3, <1>4, <1>5, <1>6, <1>7, <1>14, <1>15, <1>16 DEF Next

LEMMA Invariant == Spec => []ProcInv
<1>1. Init => PlaceType /\ ChildFacts
  <2> SUFFICES ASSUME Init PROVE PlaceType /\ ChildFacts
    OBVIOUS
  <2>1. /\ pc = "dispatch" /\ at = 1 /\ 1 \in 1..NumProcesses + 1
        /\ \A i \in Processes : ~state[i]
        /\ \A p \in Pids : child[p] = "free"
    BY ProcControlAssumption DEF Init
  <2>2. PlaceType
    BY <2>1 DEF PlaceType, InTimer
  <2>3. PlaceInv /\ ExitInv /\ Held
    BY <2>1 DEF PlaceInv, ExitInv, Held
  <2>4. PidsAreOwn /\ OneInstance /\ ChildrenKnown
    BY <2>1 DEF PidsAreOwn, OneInstance, ChildrenKnown, Alive
  <2> QED BY <2>2, <2>3, <2>4 DEF ChildFacts
<1>2. TypeOK /\ ChildFacts /\ [Next]_vars => ChildFacts'
  BY ProcStep DEF ProcInv
<1>3. ProcInv <=> TypeOK /\ ChildFacts
  BY DEF ProcInv
<1>4. Spec => []TypeOK
  BY TypeCorrect
<1> QED BY <1>1, <1>2, <1>3, <1>4, PTL DEF Spec

-----------------------------------------------------------------------------
\* An entry never has two live processes.
THEOREM NeverTwo == Spec => []OneInstance
<1>1. ProcInv => OneInstance
  BY DEF ProcInv, ChildFacts
<1> QED BY <1>1, Invariant, PTL

\* The pid of an entry believed to run is that of the process started for it.
THEOREM PidsStayOwn == Spec => []PidsAreOwn
<1>1. ProcInv => PidsAreOwn
  BY DEF ProcInv, ChildFacts
<1> QED BY <1>1, Invariant, PTL

\* While proccontrol runs, and after an exit by its signal handler, it has
\* forgotten no process that is meant to go on.
THEOREM NoneForgotten == Spec => []ChildrenKnown
<1>1. ProcInv => ChildrenKnown
  BY DEF ProcInv, ChildFacts
<1> QED BY <1>1, Invariant, PTL

LEMMA ExitForgetsNone == ProcInv => HandledExitLeavesNone
<1> SUFFICES ASSUME ProcInv, pc = "ended", handlers, NEW p \in Pids,
                    child[p] \in Alive \ {"dying"}
             PROVE  FALSE
  BY DEF HandledExitLeavesNone
<1>1. ~state[runs[p]]
  BY TypeHalves DEF ProcInv, ChildFacts, ExitInv, DataType
<1> QED BY <1>1 DEF ProcInv, ChildFacts, ChildrenKnown

\* The signal handler leaves no process behind, wherever the signal came.
THEOREM ExitLeavesNone == Spec => []HandledExitLeavesNone
BY ExitForgetsNone, Invariant, PTL

-----------------------------------------------------------------------------
(***************************************************************************)
(* The published table.  Inside a timer call it may lag behind; unless a   *)
(* change is on record in `updated' or `killed' it lags by the entry that  *)
(* is being replaced alone, which will run again before the call ends.     *)
(***************************************************************************)
Replacing == restarting /\ pc \in {"wait", "fork", "record"}

PublishInv ==
  /\ PublishedIsCurrent
  /\ pc \in {"wait", "fork", "record"} /\ ~restarting => updated
  /\ pc \in InTimer /\ ~updated /\ ~killed =>
       published = IF Replacing THEN [state EXCEPT ![at] = TRUE] ELSE state

LEMMA PublishStep ==
  ASSUME ProcInv, PublishInv, [Next]_vars
  PROVE  PublishInv'
<1> USE DEF PublishInv, PublishedIsCurrent, AtEntry, InTimer, Replacing
<1>1. DataType /\ PlaceInv
  BY TypeHalves DEF ProcInv, ChildFacts
<1>2. ASSUME UNCHANGED <<state, pc, at, restarting, killed, updated, published>>
      PROVE  PublishInv'
  BY <1>2
<1>3. WorldStep => PublishInv'
  BY <1>2 DEF WorldStep, Finish, Hang, Stop, Continue, Die, Becomes, SendHeartbeat,
              Elapse, table, locals
<1>4. ASSUME NEW S \in Targets, NEW wanted \in BOOLEAN, SetRequested(S, wanted)
      PROVE  PublishInv'
  BY <1>2, <1>4 DEF SetRequested, locals
<1>5. ASSUME NEW i \in Watched, HandleHeartbeat(i) PROVE PublishInv'
  BY <1>2, <1>5 DEF HandleHeartbeat, locals
<1>6. BeginTimer \/ Again \/ EndTimer => PublishInv'
  BY <1>1 DEF BeginTimer, Again, EndTimer, DataType, table
<1>7. Signal \/ ExitStep => PublishInv'
  BY DEF Signal, ExitStep, ExitKill, ExitSkip, ExitWait, ExitDone, table
<1>8. ASSUME NEW i \in Processes, VisitIdle(i) \/ StillThere(i) \/ VisitRunning(i)
                                  \/ Reap(i)
      PROVE  PublishInv'
  BY <1>8 DEF VisitIdle, StillThere, VisitRunning, Reap, Advance, table
<1>9. ASSUME NEW i \in Processes, VisitMissing(i) \/ VisitUnwanted(i) \/ MarkDead(i)
      PROVE  PublishInv'
  BY <1>9 DEF VisitMissing, VisitUnwanted, MarkChanged, MarkDead, Advance
<1>10. ASSUME NEW i \in Processes, VisitSilent(i) PROVE PublishInv'
  <2>1. [state' EXCEPT ![i] = TRUE] = state
    BY <1>1, <1>10 DEF VisitSilent, KillProcess, DataType
  <2> QED BY <1>10, <2>1 DEF VisitSilent
<1>11. ASSUME NEW i \in Processes, Wait(i) PROVE PublishInv'
  BY <1>11 DEF Wait, AfterWait, Advance, table
<1>12. ASSUME NEW i \in Processes, NEW p \in Pids, Fork(i, p) PROVE PublishInv'
  BY <1>12 DEF Fork, table
<1>13. ASSUME NEW i \in Processes, Record(i) PROVE PublishInv'
  BY <1>13 DEF Record, Advance
<1>14. TimerStep => PublishInv'
  BY <1>6, <1>8, <1>9, <1>10, <1>11, <1>12, <1>13 DEF TimerStep
<1>15. CASE UNCHANGED vars
  BY <1>2, <1>15 DEF vars, table, locals
<1> HIDE DEF PublishInv
<1> QED BY <1>3, <1>4, <1>5, <1>6, <1>7, <1>14, <1>15 DEF Next

\* Between two timer calls the published table is the current one.
THEOREM PublishedStaysCurrent == Spec => []PublishedIsCurrent
<1>1. Init => PublishInv
  BY DEF Init, PublishInv, PublishedIsCurrent, InTimer
<1>2. ProcInv /\ PublishInv /\ [Next]_vars => PublishInv'
  BY PublishStep
<1>3. PublishInv => PublishedIsCurrent
  BY DEF PublishInv
<1> QED BY <1>1, <1>2, <1>3, Invariant, PTL DEF Spec
-----------------------------------------------------------------------------
(***************************************************************************)
(* ProcControl implements Supervision.  Besides Held, which finds an entry *)
(* without a process wherever one is about to be started, the mapping      *)
(* rests on StartInv: a process is being started only for an entry that is *)
(* still wanted, and proccontrol is without its signal handler only then   *)
(* or before its first start.                                              *)
(***************************************************************************)
StartInv ==
  /\ pc \in {"fork", "record"} => requested[at]
  /\ pc = "wait" /\ restarting => requested[at]
  /\ pc \in {"dispatch"} \cup (InTimer \ {"fork", "record"}) /\ ~handlers =>
       \A p \in Pids : child[p] = "free"

LEMMA StartStep ==
  ASSUME ProcInv, StartInv, [Next]_vars
  PROVE  StartInv'
<1> USE DEF StartInv, AtEntry, InTimer
<1>1. DataType /\ PlaceInv /\ PidsAreOwn
  BY TypeHalves DEF ProcInv, ChildFacts
<1>2. WorldStep => StartInv'
  <2>1. ASSUME NEW p \in Pids, NEW s, child[p] # "free", Becomes(p, s) PROVE StartInv'
    BY <1>1, <2>1 DEF Becomes, table, locals, DataType
  <2>2. ASSUME NEW p \in Pids, SendHeartbeat(p) PROVE StartInv'
    BY <2>2 DEF SendHeartbeat, table, locals
  <2>3. Elapse => StartInv'
    BY DEF Elapse, locals, system
  <2> QED BY <2>1, <2>2, <2>3 DEF WorldStep, Finish, Hang, Stop, Continue, Die
<1>3. ASSUME NEW S \in Targets, NEW wanted \in BOOLEAN, SetRequested(S, wanted)
      PROVE  StartInv'
  BY <1>3 DEF SetRequested, locals, system
<1>4. ASSUME NEW i \in Watched, HandleHeartbeat(i) PROVE StartInv'
  BY <1>4 DEF HandleHeartbeat, locals
<1>5. BeginTimer \/ Again \/ EndTimer \/ Signal => StartInv'
  BY DEF BeginTimer, Again, EndTimer, Signal, table, system
<1>6. ExitStep => StartInv'
  BY DEF ExitStep, ExitKill, ExitSkip, ExitWait, ExitDone
<1>7. ASSUME NEW i \in Processes,
             VisitIdle(i) \/ VisitMissing(i) \/ VisitRunning(i) \/ StillThere(i)
               \/ MarkDead(i)
      PROVE  StartInv'
  BY <1>7 DEF VisitIdle, VisitMissing, VisitRunning, StillThere, MarkDead, Advance,
              table, system
<1>8. ASSUME NEW i \in Processes, VisitUnwanted(i) \/ VisitSilent(i) PROVE StartInv'
  BY <1>1, <1>8 DEF VisitUnwanted, VisitSilent, KillProcess, DataType, Alive
<1>9. ASSUME NEW i \in Processes, Wait(i) PROVE StartInv'
  BY <1>1, <1>9 DEF Wait, AfterWait, Advance, DataType, Gone, PlaceInv, Zombies, table
<1>10. ASSUME NEW i \in Processes, NEW p \in Pids, Fork(i, p) PROVE StartInv'
  BY <1>10 DEF Fork, table
<1>11. ASSUME NEW i \in Processes, Record(i) PROVE StartInv'
  BY <1>11 DEF Record, Advance
<1>12. ASSUME NEW i \in Processes, Reap(i) PROVE StartInv'
  BY <1>1, <1>12 DEF Reap, DataType, table
<1>13. TimerStep => StartInv'
  BY <1>5, <1>7, <1>8, <1>9, <1>10, <1>11, <1>12 DEF TimerStep
<1>14. CASE UNCHANGED vars
  BY <1>14 DEF vars, table, locals, system
<1> HIDE DEF StartInv
<1> QED BY <1>2, <1>3, <1>4, <1>5, <1>6, <1>13, <1>14 DEF Next

LEMMA StartInvariant == Spec => [](ProcInv /\ StartInv)
<1>1. Init => StartInv
  BY DEF Init, StartInv
<1>2. ProcInv /\ StartInv /\ [Next]_vars => StartInv'
  BY StartStep
<1> QED BY <1>1, <1>2, Invariant, PTL DEF Spec

\* What Supervision sees of a state.
Seen == <<requested, Quiet, Duty, Starting, Crew, child>>

LEMMA SeenUnchanged ==
  ASSUME UNCHANGED Seen
  PROVE  UNCHANGED Supervisor!supervisionVars
BY DEF Seen, Supervisor!supervisionVars, Supervisor!others

\* Most steps change nothing that is seen, or only the place within the same duty.
LEMMA UnseenStep ==
  ASSUME UNCHANGED <<requested, silence, child, runs>>,
         Duty' = Duty, Starting' = Starting
  PROVE  Supervisor!SupervisionNext
<1>1. UNCHANGED Seen
  BY DEF Seen, Quiet, Silent, Crew
<1> QED BY <1>1, SeenUnchanged DEF Supervisor!SupervisionNext

\* The duty and the start that a place stands for.
LEMMA PlaceDuty ==
  /\ pc \in {"dispatch"} \cup InTimer => Duty = "on"
  /\ pc \in {"exit", "exitwait"} => Duty = "leaving"
  /\ pc = "ended" => Duty = IF handlers THEN "off" ELSE "lost"
  /\ pc \notin {"fork", "record"} => Starting = {}
BY DEF Duty, Starting, InTimer

LEMMA PlaceDutyNext ==
  /\ pc' \in {"dispatch"} \cup InTimer => Duty' = "on"
  /\ pc' \in {"exit", "exitwait"} => Duty' = "leaving"
  /\ pc' = "ended" => Duty' = IF handlers' THEN "off" ELSE "lost"
  /\ pc' \notin {"fork", "record"} => Starting' = {}
BY DEF Duty, Starting, InTimer

\* The processes go on by themselves, and time passes.
LEMMA WorldMaps ==
  ASSUME ProcInv, WorldStep
  PROVE  Supervisor!SupervisionNext
<1> USE DEF table, locals
<1>1. DataType
  BY TypeHalves DEF ProcInv
<1>2. ASSUME NEW p \in Pids, NEW s \in Supervisor!Fates(child[p]), s # "free",
             child[p] # "free", Becomes(p, s)
      PROVE  Supervisor!SupervisionNext
  <2>1. UNCHANGED <<requested, Quiet, Duty, Starting>>
    BY <1>2 DEF Becomes, Quiet, Silent, Duty, Starting
  <2>2. UNCHANGED Crew
    BY <1>1, <1>2 DEF Becomes, Crew, DataType
  <2>3. Supervisor!Suffer(p)
    BY <1>2, <2>1, <2>2 DEF Supervisor!Suffer, Supervisor!others, Becomes
  <2> QED BY <2>3 DEF Supervisor!SupervisionNext
<1>3. ASSUME NEW p \in Pids,
             (\E s \in Zombies : Finish(p, s)) \/ Hang(p) \/ Stop(p) \/ Continue(p) \/ Die(p)
      PROVE  Supervisor!SupervisionNext
  BY <1>2, <1>3 DEF Finish, Hang, Stop, Continue, Die, Zombies,
                    Supervisor!Fates, Supervisor!Ended
<1>4. ASSUME NEW p \in Pids, SendHeartbeat(p) PROVE Supervisor!SupervisionNext
  BY <1>4, UnseenStep DEF SendHeartbeat, Duty, Starting
<1>5. CASE Elapse
  <2>1. UNCHANGED <<Duty, requested, Starting, Crew, child>>
    BY <1>5 DEF Elapse, Duty, Starting, Crew, system
  <2>2. Quiet' = Quiet \cup Quiet' /\ Quiet' \in SUBSET Watched
    BY <1>1, <1>5, ProcControlAssumption DEF Elapse, Quiet, Silent, DataType
  <2>3. Supervisor!GetQuiet
    BY <2>1, <2>2 DEF Supervisor!GetQuiet
  <2> QED BY <2>3 DEF Supervisor!SupervisionNext
<1> QED BY <1>3, <1>4, <1>5 DEF WorldStep

LEMMA MessageMaps ==
  ASSUME ProcInv,
         \/ \E S \in Targets, wanted \in BOOLEAN : SetRequested(S, wanted)
         \/ \E i \in Watched : HandleHeartbeat(i)
  PROVE  Supervisor!SupervisionNext
<1>1. DataType
  BY TypeHalves DEF ProcInv
<1>2. ASSUME NEW S \in Targets, NEW wanted \in BOOLEAN, SetRequested(S, wanted)
      PROVE  Supervisor!SupervisionNext
  <2>1. /\ Duty = "on" /\ Starting = {}
        /\ UNCHANGED <<Duty, Quiet, Starting, Crew, child>>
    BY <1>2, PlaceDuty DEF SetRequested, locals, system, Duty, Quiet, Silent, Starting, Crew
  <2>2. Supervisor!Want(S, wanted)
    BY <1>2, <2>1 DEF SetRequested, Supervisor!Want
  <2> QED BY <2>2 DEF Supervisor!SupervisionNext
<1>3. ASSUME NEW i \in Watched, HandleHeartbeat(i) PROVE Supervisor!SupervisionNext
  <2>1. Duty = "on" /\ UNCHANGED <<Duty, requested, Starting, Crew, child>>
    BY <1>3, PlaceDuty DEF HandleHeartbeat, locals, Duty, Starting, Crew
  <2>2. Quiet' = Quiet \ {i}
    BY <1>1, <1>3, ProcControlAssumption DEF HandleHeartbeat, Quiet, Silent, DataType
  <2>3. i \in Processes
    BY ProcControlAssumption
  <2>4. Supervisor!Hear(i)
    BY <2>1, <2>2 DEF Supervisor!Hear
  <2> QED BY <2>3, <2>4 DEF Supervisor!SupervisionNext
<1> QED BY <1>2, <1>3

\* An entry that is not believed to run has no process at the places where the
\* next thing is to start one.
LEMMA NoneLeft ==
  ASSUME ProcInv, NEW i \in Processes, ~state[i], pc \in {"visit", "fork"}
  PROVE  Crew[i] = {}
BY DEF ProcInv, ChildFacts, Held, InTable, Awaited, Ending, Crew

\* kill_process, of a process at work: one that ended by itself stays as it is.
LEMMA KillMaps ==
  ASSUME ProcInv, NEW i \in Processes, state[i], KillProcess(i),
         UNCHANGED <<requested, silence, runs, handlers>>,
         \/ /\ pc = "visit" /\ pc' = "wait"
            /\ requested[i] => i \in Watched /\ Silent(i)
         \/ pc = "exit" /\ pc' = "exitwait"
  PROVE  Supervisor!SupervisionNext
<1>1. DataType /\ pid[i] \in Pids /\ runs[pid[i]] = i
  BY TypeHalves DEF ProcInv, ChildFacts, PidsAreOwn
<1>2. /\ Duty = Duty' /\ Starting = {} /\ Starting' = {}
      /\ pc = "visit" => Duty = "on"
      /\ pc = "exit" => Duty = "leaving"
  BY PlaceDuty, PlaceDutyNext DEF InTimer
<1>3. CASE child[pid[i]] \notin Supervisor!Working
  <2>1. child' = child
    BY <1>1, <1>3 DEF KillProcess, DataType, Alive, Supervisor!Working
  <2> QED BY <1>2, <2>1, UnseenStep
<1>4. CASE child[pid[i]] \in Supervisor!Working
  <2>1. child' = [child EXCEPT ![pid[i]] = "dying"]
    BY <1>1, <1>4 DEF KillProcess, DataType, Alive, Supervisor!Working
  <2>2. UNCHANGED Crew
    BY <1>1, <1>4, <2>1 DEF Crew, DataType, Supervisor!Working
  <2>3. UNCHANGED <<Duty, requested, Quiet, Starting>>
    BY <1>2 DEF Quiet, Silent
  <2>4. pid[i] \in Crew[i]
    BY <1>1, <1>4 DEF Crew, Supervisor!Working
  <2>5. Duty = "leaving" \/ (Duty = "on" /\ (requested[i] => i \in Quiet))
    BY <1>2 DEF Quiet
  <2>6. Supervisor!Kill(i, pid[i])
    BY <1>4, <2>1, <2>2, <2>3, <2>4, <2>5 DEF Supervisor!Kill, Supervisor!others
  <2> QED BY <1>1, <2>6 DEF Supervisor!SupervisionNext
<1> QED BY <1>3, <1>4

\* A waitpid that returns the process of the entry proccontrol is at.
LEMMA WaitMaps ==
  ASSUME ProcInv, NEW i \in Processes, pid[i] \in Pids, runs[pid[i]] = i,
         child[pid[i]] \in Zombies, child' = [child EXCEPT ![pid[i]] = "free"],
         UNCHANGED <<requested, silence, runs>>,
         \/ pc = "wait" /\ pc' = "fork" /\ at' = i /\ requested[i]
         \/ pc = "wait" /\ pc' = "visit"
         \/ pc = "check" /\ pc' = "reaped"
         \/ pc = "exitwait" /\ pc' = "exit"
  PROVE  Supervisor!SupervisionNext
<1>1. DataType
  BY TypeHalves DEF ProcInv
<1>2. /\ Duty' = Duty /\ Duty \in {"on", "leaving"} /\ Starting = {}
      /\ pc' # "fork" => Starting' = {}
      /\ pc' = "fork" => Starting' = {i} /\ Duty = "on"
  BY PlaceDuty, PlaceDutyNext DEF InTimer, Starting
<1>3. UNCHANGED Quiet
  BY DEF Quiet, Silent
<1>4. Crew' = [Crew EXCEPT ![i] = @ \ {pid[i]}]
  <2>1. ASSUME NEW j \in Processes
        PROVE  Crew'[j] = IF j = i THEN Crew[j] \ {pid[i]} ELSE Crew[j]
    <3>1. \A p \in Pids :
            runs'[p] = runs[p] /\ child'[p] = IF p = pid[i] THEN "free" ELSE child[p]
      BY <1>1 DEF DataType
    <3> QED BY <3>1 DEF Crew
  <2>2. /\ Crew = [j \in Processes |-> Crew[j]]
        /\ Crew' = [j \in Processes |-> Crew'[j]]
    BY DEF Crew
  <2> QED BY <2>1, <2>2
<1>5. pid[i] \in Crew[i] /\ child[pid[i]] \in Supervisor!Ended
  BY DEF Crew, Zombies, Supervisor!Ended
<1>6. CASE pc' # "fork"
  <2>1. Supervisor!Collect(i, pid[i])
    BY <1>2, <1>3, <1>4, <1>5, <1>6 DEF Supervisor!Collect, Supervisor!others
  <2> QED BY <2>1 DEF Supervisor!SupervisionNext
<1>7. CASE pc' = "fork"
  <2>1. Supervisor!Replace(i, pid[i])
    BY <1>2, <1>3, <1>4, <1>5, <1>7 DEF Supervisor!Replace
  <2> QED BY <2>1 DEF Supervisor!SupervisionNext
<1> QED BY <1>6, <1>7

LEMMA PrepareMaps ==
  ASSUME ProcInv, NEW i \in Processes, VisitMissing(i)
  PROVE  Supervisor!SupervisionNext
<1> USE DEF VisitMissing, AtEntry, table, system
<1>1. Duty = "on" /\ Duty' = "on" /\ Starting = {} /\ Starting' = {i}
  BY PlaceDuty, PlaceDutyNext DEF InTimer, Starting
<1>2. Crew[i] = {} /\ UNCHANGED <<requested, Quiet, Crew, child>>
  BY NoneLeft DEF Quiet, Silent, Crew
<1>3. Supervisor!Prepare(i)
  BY <1>1, <1>2 DEF Supervisor!Prepare
<1> QED BY <1>3 DEF Supervisor!SupervisionNext

LEMMA ForkMaps ==
  ASSUME ProcInv, NEW i \in Processes, NEW p \in Pids, Fork(i, p)
  PROVE  Supervisor!SupervisionNext
<1> USE DEF Fork, AtEntry, table
<1>1. DataType /\ ~state[i]
  BY TypeHalves DEF ProcInv, ChildFacts, PlaceInv
<1>2. /\ Duty' = Duty /\ Starting = {i} /\ Starting' = {i}
  BY PlaceDuty, PlaceDutyNext DEF InTimer, Starting
<1>3. Crew[i] = {}
  BY <1>1, NoneLeft
<1>4. Crew' = [Crew EXCEPT ![i] = {p}]
  <2>1. ASSUME NEW j \in Processes PROVE Crew'[j] = IF j = i THEN {p} ELSE Crew[j]
    BY <1>1, <1>3 DEF Crew, DataType
  <2> QED BY <2>1 DEF Crew
<1>5. UNCHANGED <<requested, Quiet>>
  BY DEF Quiet, Silent
<1>6. Supervisor!Start(i, p)
  BY <1>2, <1>3, <1>4, <1>5 DEF Supervisor!Start, Supervisor!others
<1> QED BY <1>6 DEF Supervisor!SupervisionNext

LEMMA RecordMaps ==
  ASSUME ProcInv, NEW i \in Processes, Record(i)
  PROVE  Supervisor!SupervisionNext
<1> USE DEF Record, AtEntry, Advance, system
<1>1. DataType /\ forked \in Crew[i]
  BY TypeHalves DEF ProcInv, ChildFacts, PlaceInv, Crew
<1>2. Duty' = Duty /\ Starting = {i} /\ Starting' = {}
  BY PlaceDuty, PlaceDutyNext DEF InTimer, Starting
<1>3. Quiet' = Quiet \ {i} /\ UNCHANGED <<requested, Crew, child>>
  BY <1>1, ProcControlAssumption DEF Quiet, Silent, Crew, DataType
<1>4. Supervisor!Started(i)
  BY <1>1, <1>2, <1>3 DEF Supervisor!Started
<1> QED BY <1>4 DEF Supervisor!SupervisionNext

LEMMA SignalMaps ==
  ASSUME ProcInv, StartInv, Signal
  PROVE  Supervisor!SupervisionNext
<1> USE DEF Signal, table, system
<1>1. Duty = "on" /\ UNCHANGED <<requested, Quiet, Crew, child>>
  BY PlaceDuty DEF Quiet, Silent, Crew
<1>2. CASE handlers
  <2>1. Duty' = "leaving" /\ Starting = {} /\ Starting' = {}
    BY <1>2, PlaceDuty, PlaceDutyNext DEF ProcInv, ChildFacts, PlaceInv
  <2>2. Supervisor!BeginToLeave
    BY <1>1, <2>1 DEF Supervisor!BeginToLeave
  <2> QED BY <2>2 DEF Supervisor!SupervisionNext
<1>3. CASE ~handlers
  <2>1. Duty' = "lost" /\ Starting' = {}
    BY <1>3, PlaceDutyNext
  <2>2. Starting # {} \/ \A i \in Processes : Crew[i] = {}
    BY <1>3 DEF StartInv, Starting, Crew
  <2>3. Supervisor!GetLost
    BY <1>1, <2>1, <2>2 DEF Supervisor!GetLost
  <2> QED BY <2>3 DEF Supervisor!SupervisionNext
<1> QED BY <1>2, <1>3

LEMMA LeaveMaps ==
  ASSUME ProcInv, ExitDone
  PROVE  Supervisor!SupervisionNext
<1> USE DEF ExitDone, AtEntry, table, system
<1>1. /\ Duty = "leaving" /\ Duty' = "off" /\ Starting = {} /\ Starting' = {}
      /\ UNCHANGED <<requested, Quiet, Crew, child>>
  BY PlaceDuty, PlaceDutyNext DEF ProcInv, ChildFacts, PlaceInv, Quiet, Silent, Crew
<1>2. \A p \in Pids : child[p] \notin Supervisor!Working
  <2>1. \A i \in Processes : i < at
    BY ProcControlAssumption DEF Processes
  <2>2. DataType /\ \A i \in Processes : ~state[i]
    BY <2>1, TypeHalves DEF ProcInv, ChildFacts, ExitInv
  <2> QED BY <2>2 DEF ProcInv, ChildFacts, ChildrenKnown, DataType, Alive, Supervisor!Working
<1>3. Supervisor!Leave
  BY <1>1, <1>2 DEF Supervisor!Leave
<1> QED BY <1>3 DEF Supervisor!SupervisionNext

\* Every step is a step of Supervision, or none to it.
LEMMA SupervisionStep ==
  ASSUME ProcInv, StartInv, [Next]_vars
  PROVE  Supervisor!SupervisionNext
<1> USE DEF AtEntry, InTimer
<1>1. DataType /\ PidsAreOwn /\ PlaceInv
  BY TypeHalves DEF ProcInv, ChildFacts
<1>2. ASSUME UNCHANGED <<requested, silence, child, runs>>, Duty' = Duty,
             pc \notin {"fork", "record"}, pc' \notin {"fork", "record"}
      PROVE  Supervisor!SupervisionNext
  BY <1>2, PlaceDuty, PlaceDutyNext, UnseenStep
<1>3. BeginTimer \/ Again \/ EndTimer => Supervisor!SupervisionNext
  BY <1>2, PlaceDuty, PlaceDutyNext DEF BeginTimer, Again, EndTimer, table, system
<1>4. ASSUME NEW i \in Processes,
             VisitIdle(i) \/ VisitRunning(i) \/ StillThere(i) \/ MarkDead(i)
      PROVE  Supervisor!SupervisionNext
  BY <1>2, <1>4, PlaceDuty, PlaceDutyNext
     DEF VisitIdle, VisitRunning, StillThere, MarkDead, Advance, table, system
<1>5. ASSUME NEW i \in Processes, VisitUnwanted(i) \/ VisitSilent(i) \/ ExitKill(i)
      PROVE  Supervisor!SupervisionNext
  BY <1>5, KillMaps DEF VisitUnwanted, VisitSilent, ExitKill, ToKill, Silent
<1>6. ASSUME NEW i \in Processes, Wait(i) PROVE Supervisor!SupervisionNext
  <2>1. pid[i] \in Pids /\ runs[pid[i]] = i /\ (restarting => requested[i])
    BY <1>1, <1>6 DEF Wait, PlaceInv, StartInv
  <2> QED BY <1>6, <2>1, WaitMaps DEF Wait, Gone, AfterWait, Advance, table
<1>7. ASSUME NEW i \in Processes, Reap(i) PROVE Supervisor!SupervisionNext
  <2>1. pid[i] \in Pids /\ runs[pid[i]] = i
    BY <1>1, <1>7 DEF Reap, PlaceInv, PidsAreOwn
  <2> QED BY <1>7, <2>1, WaitMaps DEF Reap, table
<1>8. TimerStep => Supervisor!SupervisionNext
  BY <1>3, <1>4, <1>5, <1>6, <1>7, PrepareMaps, ForkMaps, RecordMaps DEF TimerStep
<1>9. ASSUME NEW i \in Processes, ExitSkip(i) PROVE Supervisor!SupervisionNext
  BY <1>2, <1>9, PlaceDuty, PlaceDutyNext DEF ExitSkip, table, system
<1>10. ASSUME NEW i \in Processes, ExitWait(i) PROVE Supervisor!SupervisionNext
  <2>1. pid[i] \in Pids /\ runs[pid[i]] = i /\ child[pid[i]] \in Zombies \cup {"free"}
    BY <1>1, <1>10 DEF ExitWait, PlaceInv, DataType, ChildStates
  <2>2. CASE child[pid[i]] = "free"
    <3>1. child' = child
      BY <1>1, <1>10, <2>1, <2>2 DEF ExitWait, DataType
    <3> QED BY <1>2, <1>10, <3>1, PlaceDuty, PlaceDutyNext DEF ExitWait, table
  <2>3. CASE child[pid[i]] \in Zombies
    BY <1>10, <2>1, <2>3, WaitMaps DEF ExitWait, table
  <2> QED BY <2>1, <2>2, <2>3
<1>11. ExitStep => Supervisor!SupervisionNext
  BY <1>5, <1>9, <1>10, LeaveMaps DEF ExitStep
<1>12. CASE UNCHANGED vars
  BY <1>12, UnseenStep DEF vars, table, locals, system, Duty, Starting
<1> QED BY <1>8, <1>11, <1>12, WorldMaps, MessageMaps, SignalMaps, <1>3 DEF Next

LEMMA SupervisionStart == Init => Supervisor!SupervisionInit
<1> SUFFICES ASSUME Init PROVE Supervisor!SupervisionInit
  OBVIOUS
<1>1. Quiet = {}
  BY ProcControlAssumption DEF Init, Quiet, Silent
<1>2. Crew = [i \in Processes |-> {}]
  BY DEF Init, Crew
<1> QED BY <1>1, <1>2, PlaceDuty DEF Init, Supervisor!SupervisionInit

\* Every behaviour of proccontrol, its children, its users and the signals it gets is
\* one of the supervisor: no second process before the first was waited for, no start
\* of what is not wanted, no kill without cause, and no child left but by an end in
\* the middle of a start.
THEOREM ImplementsSupervision == Spec => SupervisionKept
<1>1. ProcInv /\ StartInv /\ [Next]_vars
        => [Supervisor!SupervisionNext]_(Supervisor!supervisionVars)
  BY SupervisionStep
<1> QED BY <1>1, SupervisionStart, StartInvariant, PTL
        DEF Spec, SupervisionKept, Supervisor!SupervisionSpec
=============================================================================
