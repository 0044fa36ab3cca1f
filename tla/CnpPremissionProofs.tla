------------------------- MODULE CnpPremissionProofs -------------------------
(***************************************************************************)
(* Proofs about the allocation before a mission, for every fleet, every    *)
(* list of tasks and every table of bids.                                  *)
(*                                                                         *)
(* What the loops know is stated in four parts on top of the types: which  *)
(* tasks were instantiated (TasksInv), who is still to be had (RobotsInv), *)
(* what was decided of the tasks gone through (DecidedInv) and what the    *)
(* status says of it (StatusInv).  Each loop's step keeps all of them.     *)
(*                                                                         *)
(* That a task goes to the robot with the largest id needs one fact more:  *)
(* the robots still to be had stay sorted by id when one is erased, so the *)
(* last place that bids is the largest id that bids (OrderInv).            *)
(***************************************************************************)
EXTENDS CnpPremission, FiniteSetTheorems, WellFoundedInduction, TLAPS

TasksInv ==
  /\ \A i \in DOMAIN currentTasks :
       /\ currentTasks[i].id \in DOMAIN tasks
       /\ tasks[currentTasks[i].id].needs \subseteq currentTasks[i].constraints
       /\ tasks[currentTasks[i].id].name = currentTasks[i].name
  /\ \A i, j \in DOMAIN currentTasks : i < j => currentTasks[i].id < currentTasks[j].id
  /\ phase = "tasks" =>
       /\ \A i \in DOMAIN currentTasks : currentTasks[i].id < at
       /\ mapping = {} /\ currentRobots = <<>> /\ status = "normal"

RobotsInv ==
  /\ \A i, j \in DOMAIN currentRobots : currentRobots[i] = currentRobots[j] => i = j
  /\ OneTaskOneRobot

DecidedInv ==
  /\ phase = "bids" => at \in 1..(Len(currentTasks) + 1)
  /\ \A p \in mapping : \E task \in Considered :
       task.id = p[2] /\ BidOnTask(p[1], task) > 0
  /\ NobodyLeftWilling

StatusInv ==
  phase = "bids" =>
    /\ status \in {"incomplete", "excessive_incomplete"}
         <=> \E task \in Considered : task.id \notin Given
    /\ status = "normal" => Len(currentRobots) + at <= Len(currentTasks) + 1

PremissionInv == TypeOK /\ TasksInv /\ RobotsInv /\ DecidedInv /\ StatusInv

-----------------------------------------------------------------------------
\* A set of places has a last one.
LEMMA LastOne ==
  ASSUME NEW n \in Nat, NEW S \in SUBSET (1..n), S # {}
  PROVE  \E i \in S : \A j \in S : j <= i
<1> DEFINE Less == {p \in Nat \X Nat : p[1] < p[2]}
           Gaps == {n - i : i \in S}
<1>1. IsWellFoundedOn(Less, Nat)
  BY NatLessThanWellFounded DEF OpToRel
<1>2. Gaps \in SUBSET Nat /\ Gaps # {}
  <2>1. \A i \in S : n - i \in Nat
    OBVIOUS
  <2> QED BY <2>1
<1>3. PICK g \in Gaps : \A y \in Gaps : <<y, g>> \notin Less
  <2> HIDE DEF Less, Gaps
  <2> QED BY <1>1, <1>2, WFMin
<1>4. PICK i \in S : g = n - i
  BY <1>3
<1>5. ASSUME NEW j \in S PROVE j <= i
  <2>1. n - j \in Gaps /\ n - j \in Nat /\ g \in Nat
    BY <1>2
  <2>2. ~(n - j < g)
    <3>1. <<n - j, g>> \in Nat \X Nat /\ <<n - j, g>>[1] = n - j /\ <<n - j, g>>[2] = g
      BY <2>1
    <3> QED BY <1>3, <2>1, <3>1
  <2> QED BY <1>4, <2>1, <2>2
<1> QED BY <1>4, <1>5

\* What the input is made of.
LEMMA InputTypes ==
  ASSUME TypeOK
  PROVE  /\ \A i \in DOMAIN tasks : i \in 1..MaxTasks /\ tasks[i] \in TaskInfo
         /\ \A r \in DOMAIN robots : robots[r] \in Robot
<1>1. PICK n \in 0..MaxTasks : tasks \in [1..n -> TaskInfo]
  BY DEF TypeOK, Inputs
<1>2. PICK R \in SUBSET RobotIds : robots \in [R -> Robot]
  BY DEF TypeOK, Fleets
<1> QED BY <1>1, <1>2, PremissionAssumption

LEMMA TaskFields ==
  ASSUME TypeOK
  PROVE  /\ at \in Nat
         /\ \A i \in DOMAIN currentTasks :
              currentTasks[i] \in Task /\ currentTasks[i].id \in Nat
<1>1. at \in Nat /\ \A i \in DOMAIN currentTasks : currentTasks[i] \in Task
  BY DEF TypeOK
<1>2. \A task \in Task : task.id \in Nat
  BY PremissionAssumption DEF Task
<1> QED BY <1>1, <1>2

\* A bid is a number, and a positive one is made to a robot that the kind of task
\* has nothing against.
LEMMA BidTypes ==
  ASSUME TypeOK, NEW r \in DOMAIN robots, NEW task \in Task
  PROVE  /\ BidOnTask(r, task) \in Nat
         /\ BidOnTask(r, task) > 0
              => task.constraints \cap Objections(r, task.name) = {}
<1>1. robots[r].grade[task.name] \in Nat
  BY InputTypes, PremissionAssumption DEF Robot, Task
<1> QED BY <1>1 DEF BidOnTask

\* The robot selected for a task is one that bids.
LEMMA SelectedBids ==
  ASSUME TypeOK, NEW task \in Task, Bidders(task) # {}
  PROVE  Selected(task) \in Bidders(task)
<1>1. Len(currentRobots) \in Nat /\ Bidders(task) \in SUBSET (1..Len(currentRobots))
  BY DEF TypeOK, Bidders
<1> QED BY <1>1, LastOne DEF Selected

LEMMA Joined ==
  ASSUME NEW S, NEW u \in Seq(S), NEW v \in Seq(S)
  PROVE  u \o v \in Seq(S) /\ Len(u \o v) = Len(u) + Len(v)
OBVIOUS

\* list::erase moves what comes after it up by one place.
LEMMA ErasedPlaces ==
  ASSUME NEW S, NEW s \in Seq(S), NEW i \in 1..Len(s)
  PROVE  LET t == RemoveAt(s, i) IN
         /\ t \in Seq(S)
         /\ Len(t) = Len(s) - 1
         /\ \A a \in 1..Len(t) : t[a] = IF a < i THEN s[a] ELSE s[a + 1]
<1> DEFINE t == RemoveAt(s, i)
<1> DEFINE u == SubSeq(s, 1, i - 1)
           v == SubSeq(s, i + 1, Len(s))
<1>1. u \in Seq(S) /\ Len(u) = i - 1 /\ \A a \in 1..(i - 1) : u[a] = s[a]
  OBVIOUS
<1>2. v \in Seq(S) /\ Len(v) = Len(s) - i /\ \A a \in 1..(Len(s) - i) : v[a] = s[i + a]
  OBVIOUS
<1>3. t = u \o v
  BY DEF RemoveAt
<1> HIDE DEF u, v, t
<1>4. t \in Seq(S) /\ Len(t) = Len(s) - 1
  <2>1. t \in Seq(S) /\ Len(t) = Len(u) + Len(v)
    BY <1>1, <1>2, <1>3, Joined
  <2>2. Len(s) \in Nat /\ i \in Int
    OBVIOUS
  <2> QED BY <1>1, <1>2, <2>1, <2>2
<1>5. ASSUME NEW a \in 1..Len(t)
      PROVE  t[a] = IF a < i THEN s[a] ELSE s[a + 1]
  <2>1. CASE a < i
    BY <1>1, <1>2, <1>3, <1>4, <2>1
  <2>2. CASE a >= i
    <3>1. a - Len(u) \in 1..(Len(s) - i) /\ t[a] = v[a - Len(u)]
      BY <1>1, <1>2, <1>3, <1>4, <2>2
    <3> QED BY <1>1, <1>2, <2>2, <3>1
  <2> QED BY <1>4, <2>1, <2>2
<1> QED BY <1>4, <1>5 DEF t

\* So what was rising still is.
LEMMA ErasedSorted ==
  ASSUME NEW S, NEW s \in Seq(S), NEW i \in 1..Len(s),
         \A a, b \in 1..Len(s) : a < b => s[a] < s[b]
  PROVE  LET t == RemoveAt(s, i) IN \A a, b \in 1..Len(t) : a < b => t[a] < t[b]
<1> DEFINE t == RemoveAt(s, i)
<1>1. /\ Len(t) = Len(s) - 1 /\ Len(s) \in Nat
      /\ \A a \in 1..Len(t) : t[a] = IF a < i THEN s[a] ELSE s[a + 1]
  BY ErasedPlaces
<1> HIDE DEF t
<1> SUFFICES ASSUME NEW a \in 1..Len(t), NEW b \in 1..Len(t), a < b
             PROVE  t[a] < t[b]
  BY DEF t
<1>2. /\ a \in 1..Len(s) /\ b \in 1..Len(s)
      /\ a + 1 \in 1..Len(s) /\ b + 1 \in 1..Len(s)
  BY <1>1
<1>3. CASE b < i
  BY <1>1, <1>2, <1>3
<1>4. CASE a < i /\ ~(b < i)
  <2>1. t[a] = s[a] /\ t[b] = s[b + 1] /\ a < b + 1
    BY <1>1, <1>4
  <2> QED BY <1>2, <2>1
<1>5. CASE ~(a < i)
  <2>1. t[a] = s[a + 1] /\ t[b] = s[b + 1] /\ a + 1 < b + 1
    BY <1>1, <1>5
  <2> QED BY <1>2, <2>1
<1> QED BY <1>3, <1>4, <1>5

\* And it takes out the one element it is given.
LEMMA Erased ==
  ASSUME NEW S, NEW s \in Seq(S), NEW i \in 1..Len(s),
         \A a, b \in 1..Len(s) : s[a] = s[b] => a = b
  PROVE  LET t == RemoveAt(s, i) IN
         /\ t \in Seq(S)
         /\ Len(t) = Len(s) - 1
         /\ \A a, b \in 1..Len(t) : t[a] = t[b] => a = b
         /\ {t[a] : a \in 1..Len(t)} = {s[a] : a \in 1..Len(s)} \ {s[i]}
<1> DEFINE t == RemoveAt(s, i)
<1>1. /\ t \in Seq(S)
      /\ Len(t) = Len(s) - 1
      /\ \A a \in 1..Len(t) : t[a] = IF a < i THEN s[a] ELSE s[a + 1]
  BY ErasedPlaces
<1> HIDE DEF t
<1>2. ASSUME NEW a \in 1..Len(t), NEW b \in 1..Len(t), t[a] = t[b]
      PROVE  a = b
  <2> DEFINE place(c) == IF c < i THEN c ELSE c + 1
  <2>1. ASSUME NEW c \in 1..Len(t)
        PROVE  place(c) \in 1..Len(s) /\ t[c] = s[place(c)]
    <3>1. Len(s) \in Nat /\ place(c) \in 1..Len(s)
      BY <1>1
    <3> QED BY <1>1, <3>1
  <2>2. place(a) = place(b)
    <3>1. s[place(a)] = s[place(b)]
      BY <1>2, <2>1
    <3> HIDE DEF place
    <3> QED BY <2>1, <3>1
  <2>3. a \in Int /\ b \in Int /\ i \in Int
    OBVIOUS
  <2> QED BY <2>2, <2>3
<1>3. {t[a] : a \in 1..Len(t)} \subseteq {s[a] : a \in 1..Len(s)} \ {s[i]}
  <2> SUFFICES ASSUME NEW a \in 1..Len(t)
               PROVE  t[a] \in {s[b] : b \in 1..Len(s)} /\ t[a] # s[i]
    OBVIOUS
  <2>1. Len(s) \in Nat /\ a \in Nat /\ i \in Nat
    OBVIOUS
  <2>2. CASE a < i
    <3>1. a \in 1..Len(s) /\ a # i /\ t[a] = s[a]
      BY <1>1, <2>1, <2>2
    <3> QED BY <3>1
  <2>3. CASE ~(a < i)
    <3>1. a + 1 \in 1..Len(s) /\ a + 1 # i /\ t[a] = s[a + 1]
      BY <1>1, <2>1, <2>3
    <3> QED BY <3>1
  <2> QED BY <2>2, <2>3
<1>4. ASSUME NEW a \in 1..Len(s), s[a] # s[i]
      PROVE  \E b \in 1..Len(t) : t[b] = s[a]
  <2>1. CASE a < i
    <3>1. a \in 1..Len(t) /\ t[a] = s[a]
      BY <1>1, <2>1
    <3> QED BY <3>1
  <2>2. CASE a > i
    <3>1. a - 1 \in 1..Len(t) /\ t[a - 1] = s[a]
      BY <1>1, <2>2
    <3> QED BY <3>1
  <2> QED BY <1>4, <2>1, <2>2
<1>5. {s[a] : a \in 1..Len(s)} \ {s[i]} \subseteq {t[a] : a \in 1..Len(t)}
  BY <1>4
<1> QED BY <1>1, <1>2, <1>3, <1>5 DEF t

-----------------------------------------------------------------------------
LEMMA InitPremission == Init => PremissionInv
<1> SUFFICES ASSUME Init PROVE PremissionInv
  OBVIOUS
<1>1. TypeOK
  BY DEF Init, TypeOK, Statuses
<1>2. TasksInv /\ RobotsInv /\ DecidedInv /\ StatusInv
  BY DEF Init, TasksInv, RobotsInv, OneTaskOneRobot, Busy, Left, DecidedInv, Considered,
         NobodyLeftWilling, StatusInv
<1> QED BY <1>1, <1>2 DEF PremissionInv

\* The loop over the tasks of the input.
LEMMA InstantiateStep ==
  ASSUME PremissionInv, InstantiateTask
  PROVE  PremissionInv'
<1> DEFINE new == [id |-> at, name |-> tasks[at].name,
                   constraints |-> ConstraintsOf(tasks[at].name)]
<1>1. new \in Task /\ new.id = at /\ new.name = tasks[at].name
      /\ tasks[at].needs \subseteq new.constraints /\ at \in Nat
  <2>1. \A j \in DOMAIN tasks : tasks[j].needs \subseteq Constraints
    BY InputTypes DEF PremissionInv, TaskInfo
  <2>2. ConstraintsOf(tasks[at].name) \subseteq Constraints
    BY <2>1 DEF ConstraintsOf
  <2>3. tasks[at].needs \subseteq ConstraintsOf(tasks[at].name)
    BY DEF InstantiateTask, ConstraintsOf
  <2> QED BY <2>2, <2>3, InputTypes DEF InstantiateTask, KnownTask, PremissionInv, Task, TypeOK
<1>2. currentTasks' = Append(currentTasks, new) /\ currentTasks \in Seq(Task)
  BY DEF InstantiateTask, PremissionInv, TypeOK
<1> HIDE DEF new
<1>3. TypeOK'
  BY <1>1, <1>2 DEF InstantiateTask, PremissionInv, TypeOK, input
<1>4. TasksInv'
  <2>1. /\ Len(currentTasks') = Len(currentTasks) + 1
        /\ currentTasks'[Len(currentTasks) + 1] = new
        /\ \A i \in 1..Len(currentTasks) : currentTasks'[i] = currentTasks[i]
        /\ DOMAIN currentTasks = 1..Len(currentTasks)
        /\ DOMAIN currentTasks' = 1..(Len(currentTasks) + 1)
        /\ Len(currentTasks) \in Nat
    BY <1>1, <1>2
  <2>2. /\ \A i \in 1..Len(currentTasks) :
             /\ currentTasks[i].id \in DOMAIN tasks /\ currentTasks[i].id < at
             /\ tasks[currentTasks[i].id].needs \subseteq currentTasks[i].constraints
             /\ tasks[currentTasks[i].id].name = currentTasks[i].name
             /\ currentTasks[i].id \in Nat
        /\ \A i, j \in 1..Len(currentTasks) :
             i < j => currentTasks[i].id < currentTasks[j].id
    BY <1>2, <2>1, TaskFields DEF PremissionInv, TasksInv, InstantiateTask
  <2>3. tasks' = tasks /\ at' = at + 1 /\ at \in DOMAIN tasks /\ mapping' = {}
        /\ currentRobots' = <<>> /\ status' = "normal"
    BY DEF InstantiateTask, PremissionInv, TasksInv, input
  <2>4. \A i \in DOMAIN currentTasks' :
          /\ currentTasks'[i].id \in DOMAIN tasks
          /\ tasks[currentTasks'[i].id].needs \subseteq currentTasks'[i].constraints
          /\ tasks[currentTasks'[i].id].name = currentTasks'[i].name
          /\ currentTasks'[i].id < at + 1
    <3> SUFFICES ASSUME NEW i \in 1..(Len(currentTasks) + 1)
                 PROVE  /\ currentTasks'[i].id \in DOMAIN tasks
                        /\ tasks[currentTasks'[i].id].needs \subseteq currentTasks'[i].constraints
                        /\ tasks[currentTasks'[i].id].name = currentTasks'[i].name
                        /\ currentTasks'[i].id < at + 1
      BY <2>1
    <3>1. CASE i = Len(currentTasks) + 1
      BY <1>1, <2>1, <2>3, <3>1
    <3>2. CASE i \in 1..Len(currentTasks)
      BY <1>1, <2>1, <2>2, <3>2
    <3> QED BY <2>1, <3>1, <3>2
  <2>5. \A i, j \in DOMAIN currentTasks' : i < j => currentTasks'[i].id < currentTasks'[j].id
    BY <1>1, <2>1, <2>2
  <2> QED BY <2>3, <2>4, <2>5 DEF TasksInv
<1>5. RobotsInv' /\ DecidedInv' /\ StatusInv'
  BY DEF InstantiateTask, PremissionInv, TasksInv, RobotsInv, OneTaskOneRobot, Busy, Left,
         DecidedInv, Considered, NobodyLeftWilling, StatusInv, input
<1> QED BY <1>3, <1>4, <1>5 DEF PremissionInv

LEMMA SkipStep ==
  ASSUME PremissionInv, SkipUnknownTask
  PROVE  PremissionInv'
<1>1. TypeOK'
  BY DEF SkipUnknownTask, PremissionInv, TypeOK, input
<1>2. TasksInv'
  <2>1. at \in Nat /\ \A i \in DOMAIN currentTasks : currentTasks[i].id \in Nat
    BY TaskFields DEF PremissionInv
  <2>2. \A i \in DOMAIN currentTasks : currentTasks[i].id < at'
    BY <2>1 DEF SkipUnknownTask, PremissionInv, TasksInv
  <2> QED BY <2>2 DEF SkipUnknownTask, PremissionInv, TasksInv, input
<1>3. RobotsInv' /\ DecidedInv' /\ StatusInv'
  BY DEF SkipUnknownTask, PremissionInv, TasksInv, RobotsInv, OneTaskOneRobot, Busy, Left,
         DecidedInv, Considered, NobodyLeftWilling, StatusInv, input
<1> QED BY <1>1, <1>2, <1>3 DEF PremissionInv

\* The loop over the robots' constraints, and the first status.
LEMMA ListStep ==
  ASSUME PremissionInv, ListRobots
  PROVE  PremissionInv'
<1>1. PICK list \in [1..Cardinality(DOMAIN robots) -> DOMAIN robots] :
        /\ Range(list) = DOMAIN robots
        /\ \A i, j \in DOMAIN list : i < j => list[i] < list[j]
        /\ currentRobots' = list
  BY DEF ListRobots
<1>2. Cardinality(DOMAIN robots) \in Nat
  <2>1. DOMAIN robots \in SUBSET RobotIds
    BY DEF PremissionInv, TypeOK, Fleets
  <2>2. IsFiniteSet(RobotIds)
    BY PremissionAssumption
  <2>3. IsFiniteSet(DOMAIN robots)
    BY <2>1, <2>2, FS_Subset, Zenon
  <2> QED BY <2>3, FS_CardinalityType, Zenon
<1>3. currentRobots' \in Seq(DOMAIN robots)
  BY <1>1, <1>2
<1>4. \A i, j \in DOMAIN list : list[i] = list[j] => i = j
  <2>1. DOMAIN robots \subseteq Nat
    BY PremissionAssumption DEF PremissionInv, TypeOK, Fleets
  <2>2. \A i \in DOMAIN list : i \in Nat /\ list[i] \in Nat
    BY <1>1, <1>2, <2>1
  <2> QED BY <1>1, <2>2
<1>5. Left' = DOMAIN robots
  BY <1>1 DEF Left, Range
<1>6. mapping = {} /\ mapping' = {} /\ status = "normal" /\ Considered' = {}
  BY DEF ListRobots, PremissionInv, TasksInv, Considered, TypeOK
<1>7. TypeOK'
  BY <1>3 DEF ListRobots, PremissionInv, TypeOK, Statuses, input
<1>8. TasksInv'
  BY DEF ListRobots, PremissionInv, TasksInv, input
<1>9. RobotsInv'
  BY <1>1, <1>4, <1>5, <1>6 DEF ListRobots, RobotsInv, OneTaskOneRobot, Busy, input
<1>10. DecidedInv'
  BY <1>6 DEF ListRobots, PremissionInv, TypeOK, DecidedInv, NobodyLeftWilling
<1>11. StatusInv'
  <2>1. Len(currentTasks) \in Nat /\ Len(currentRobots') \in Nat
    BY <1>3 DEF PremissionInv, TypeOK
  <2> QED BY <1>6, <2>1 DEF ListRobots, StatusInv
<1> QED BY <1>7, <1>8, <1>9, <1>10, <1>11 DEF PremissionInv

-----------------------------------------------------------------------------
(***************************************************************************)
(* The loop over the tasks that were instantiated.                         *)
(***************************************************************************)

\* The task whose turn it is joins those that were gone through; no robot was
\* given one of its id before.
LEMMA Turn ==
  ASSUME PremissionInv, phase = "bids", phase' = "bids", at \in DOMAIN currentTasks,
         at' = at + 1, currentTasks' = currentTasks
  PROVE  /\ currentTasks[at] \in Task
         /\ Considered' = Considered \cup {currentTasks[at]}
         /\ \A task \in Considered : task \in Task /\ task.id # currentTasks[at].id
         /\ currentTasks[at].id \notin Given
         /\ at' \in 1..(Len(currentTasks) + 1)
<1>1. at \in Nat /\ currentTasks \in Seq(Task)
  BY DEF PremissionInv, TypeOK
<1>2. \A task \in Considered : task \in Task /\ task.id # currentTasks[at].id
  <2> SUFFICES ASSUME NEW j \in DOMAIN currentTasks, j < at
               PROVE  currentTasks[j] \in Task /\ currentTasks[j].id # currentTasks[at].id
    BY DEF Considered
  <2>1. currentTasks[j].id < currentTasks[at].id
    BY DEF PremissionInv, TasksInv
  <2>2. currentTasks[j] \in Task /\ currentTasks[at] \in Task
    BY <1>1
  <2> QED BY <2>1, <2>2 DEF Task
<1>3. Considered' = Considered \cup {currentTasks[at]}
  <2>1. \A j \in DOMAIN currentTasks : j < at + 1 <=> j < at \/ j = at
    BY <1>1
  <2> QED BY <2>1 DEF Considered
<1>4. currentTasks[at].id \notin Given
  BY <1>2 DEF PremissionInv, DecidedInv, Given
<1> QED BY <1>1, <1>2, <1>3, <1>4

LEMMA AssignStep ==
  ASSUME PremissionInv, AssignTask
  PROVE  PremissionInv'
<1> DEFINE task == currentTasks[at]
           i == Selected(task)
           r == currentRobots[i]
<1>1. /\ phase = "bids" /\ phase' = "bids" /\ at \in DOMAIN currentTasks /\ at' = at + 1
      /\ tasks' = tasks /\ robots' = robots /\ currentTasks' = currentTasks /\ status' = status
      /\ mapping' = mapping \cup {<<r, task.id>>}
      /\ currentRobots' = RemoveAt(currentRobots, i)
      /\ Bidders(task) # {}
  BY DEF AssignTask, Remaining, input
<1>2. /\ task \in Task
      /\ Considered' = Considered \cup {task}
      /\ \A other \in Considered : other \in Task /\ other.id # task.id
      /\ task.id \notin Given
      /\ at' \in 1..(Len(currentTasks) + 1)
  BY <1>1, Turn
<1>3. i \in 1..Len(currentRobots) /\ r \in DOMAIN robots /\ BidOnTask(r, task) > 0
  <2>1. i \in Bidders(task)
    BY <1>1, <1>2, SelectedBids DEF PremissionInv
  <2> QED BY <2>1 DEF Bidders, PremissionInv, TypeOK
<1> HIDE DEF i
<1>4. /\ currentRobots' \in Seq(DOMAIN robots)
      /\ Len(currentRobots') = Len(currentRobots) - 1
      /\ \A a, b \in DOMAIN currentRobots' : currentRobots'[a] = currentRobots'[b] => a = b
      /\ Left' = Left \ {r}
  <2>1. currentRobots \in Seq(DOMAIN robots)
        /\ \A a, b \in 1..Len(currentRobots) : currentRobots[a] = currentRobots[b] => a = b
    BY DEF PremissionInv, TypeOK, RobotsInv
  <2>2. /\ currentRobots' \in Seq(DOMAIN robots)
        /\ Len(currentRobots') = Len(currentRobots) - 1
        /\ \A a, b \in 1..Len(currentRobots') : currentRobots'[a] = currentRobots'[b] => a = b
        /\ {currentRobots'[a] : a \in 1..Len(currentRobots')}
             = {currentRobots[a] : a \in 1..Len(currentRobots)} \ {r}
    <3> DEFINE t == RemoveAt(currentRobots, i)
    <3>1. /\ t \in Seq(DOMAIN robots)
          /\ Len(t) = Len(currentRobots) - 1
          /\ \A a, b \in 1..Len(t) : t[a] = t[b] => a = b
          /\ {t[a] : a \in 1..Len(t)}
               = {currentRobots[a] : a \in 1..Len(currentRobots)} \ {currentRobots[i]}
      BY <1>3, <2>1, Erased
    <3> HIDE DEF t
    <3>2. currentRobots' = t
      BY <1>1 DEF t
    <3> QED BY <3>1, <3>2
  <2>3. DOMAIN currentRobots = 1..Len(currentRobots)
        /\ DOMAIN currentRobots' = 1..Len(currentRobots')
    BY <2>1, <2>2
  <2> QED BY <2>2, <2>3 DEF Left
<1>5. Given' = Given \cup {task.id} /\ Busy' = Busy \cup {r} /\ r \in Left /\ r \notin Busy
  <2>1. r \in Left
    BY <1>3 DEF Left, PremissionInv, TypeOK
  <2>2. r \notin Busy
    BY <2>1 DEF PremissionInv, RobotsInv, OneTaskOneRobot
  <2> DEFINE pair == <<r, task.id>>
  <2>3. mapping' = mapping \cup {pair} /\ pair[1] = r /\ pair[2] = task.id
    BY <1>1
  <2> HIDE DEF pair, r, task
  <2>4. Given' = Given \cup {task.id} /\ Busy' = Busy \cup {r}
    BY <2>3 DEF Given, Busy
  <2> QED BY <2>1, <2>2, <2>4
<1>6. TypeOK'
  BY <1>1, <1>2, <1>3, <1>4 DEF PremissionInv, TypeOK, Task
<1>7. TasksInv'
  BY <1>1 DEF PremissionInv, TasksInv
<1>8. RobotsInv'
  <2>1. \A p, q \in mapping' : p[1] = q[1] <=> p[2] = q[2]
    <3>1. \A p \in mapping : p[1] # r /\ p[2] # task.id
      BY <1>2, <1>5 DEF Busy, Given
    <3>2. \A p, q \in mapping : p[1] = q[1] <=> p[2] = q[2]
      BY DEF PremissionInv, RobotsInv, OneTaskOneRobot
    <3> QED BY <1>1, <3>1, <3>2
  <2>2. Busy \cap Left = {} /\ Busy \cup Left = DOMAIN robots
    BY <1>1 DEF PremissionInv, RobotsInv, OneTaskOneRobot
  <2> QED BY <1>1, <1>4, <1>5, <2>1, <2>2 DEF RobotsInv, OneTaskOneRobot
<1>9. DecidedInv'
  <2>1. \A p \in mapping' : \E other \in Considered' :
          other.id = p[2] /\ (BidOnTask(p[1], other))' > 0
    <3> SUFFICES ASSUME NEW p \in mapping'
                 PROVE  \E other \in Considered' :
                          other.id = p[2] /\ (BidOnTask(p[1], other))' > 0
      OBVIOUS
    <3>1. CASE p \in mapping
      BY <1>1, <1>2, <3>1 DEF PremissionInv, DecidedInv, BidOnTask, Objections
    <3>2. CASE p = <<r, task.id>>
      <4>1. \A q, other : (BidOnTask(q, other))' = BidOnTask(q, other)
        BY <1>1 DEF BidOnTask, Objections
      <4>2. BidOnTask(p[1], task) > 0 /\ task.id = p[2] /\ task \in Considered'
        BY <1>2, <1>3, <3>2
      <4> QED BY <4>1, <4>2
    <3> QED BY <1>1, <3>1, <3>2
  <2>2. NobodyLeftWilling'
    BY <1>1, <1>2, <1>4, <1>5 DEF PremissionInv, DecidedInv, NobodyLeftWilling, BidOnTask, Objections
  <2> QED BY <1>1, <1>2, <2>1, <2>2 DEF DecidedInv
<1>10. StatusInv'
  <2>1. (\E other \in Considered' : other.id \notin Given')
          <=> \E other \in Considered : other.id \notin Given
    BY <1>2, <1>5
  <2>2. at \in Nat /\ Len(currentTasks) \in Nat /\ Len(currentRobots) \in Nat
    BY DEF PremissionInv, TypeOK
  <2>3. status = "normal" => Len(currentRobots) + at <= Len(currentTasks) + 1
    BY <1>1 DEF PremissionInv, StatusInv
  <2>4. status' = "normal" => Len(currentRobots') + at' <= Len(currentTasks') + 1
    BY <1>1, <1>4, <2>2, <2>3
  <2> QED BY <1>1, <2>1, <2>4 DEF PremissionInv, StatusInv
<1> QED BY <1>6, <1>7, <1>8, <1>9, <1>10 DEF PremissionInv

LEMMA LeaveStep ==
  ASSUME PremissionInv, LeaveTask
  PROVE  PremissionInv'
<1> DEFINE task == currentTasks[at]
<1>1. /\ phase = "bids" /\ phase' = "bids" /\ at \in DOMAIN currentTasks /\ at' = at + 1
      /\ tasks' = tasks /\ robots' = robots /\ currentTasks' = currentTasks
      /\ mapping' = mapping /\ currentRobots' = currentRobots
      /\ status' \in {"incomplete", "excessive_incomplete"}
      /\ Bidders(task) = {}
  BY DEF LeaveTask, StatusUnassigned, input
<1>2. /\ task \in Task
      /\ Considered' = Considered \cup {task}
      /\ \A other \in Considered : other \in Task /\ other.id # task.id
      /\ task.id \notin Given
      /\ at' \in 1..(Len(currentTasks) + 1)
  BY <1>1, Turn
<1>3. \A r \in Left : BidOnTask(r, task) = 0
  <2> SUFFICES ASSUME NEW i \in DOMAIN currentRobots
               PROVE  BidOnTask(currentRobots[i], task) = 0
    BY DEF Left
  <2>1. BidOnTask(currentRobots[i], task) \in Nat
    BY <1>2, BidTypes DEF PremissionInv, TypeOK
  <2>2. ~(BidOnTask(currentRobots[i], task) > 0)
    BY <1>1 DEF Bidders
  <2> QED BY <2>1, <2>2
<1>4. Given' = Given /\ Busy' = Busy /\ Left' = Left
  BY <1>1 DEF Given, Busy, Left
<1>5. TypeOK'
  BY <1>1, <1>2 DEF PremissionInv, TypeOK, Statuses
<1>6. TasksInv'
  BY <1>1 DEF PremissionInv, TasksInv
<1>7. RobotsInv'
  BY <1>1, <1>4 DEF PremissionInv, RobotsInv, OneTaskOneRobot
<1>8. DecidedInv'
  <2>1. \A p \in mapping' : \E other \in Considered' :
          other.id = p[2] /\ (BidOnTask(p[1], other))' > 0
    BY <1>1, <1>2 DEF PremissionInv, DecidedInv, BidOnTask, Objections
  <2>2. NobodyLeftWilling'
    BY <1>1, <1>2, <1>3, <1>4 DEF PremissionInv, DecidedInv, NobodyLeftWilling, BidOnTask, Objections
  <2> QED BY <1>1, <1>2, <2>1, <2>2 DEF DecidedInv
<1>9. StatusInv'
  BY <1>1, <1>2, <1>4 DEF StatusInv
<1> QED BY <1>5, <1>6, <1>7, <1>8, <1>9 DEF PremissionInv

LEMMA PremissionInvariant == Spec => []PremissionInv
<1>1. ASSUME PremissionInv, [Next]_vars
      PROVE  PremissionInv'
  <2>1. CASE InstantiateTask BY <1>1, <2>1, InstantiateStep
  <2>2. CASE SkipUnknownTask BY <1>1, <2>2, SkipStep
  <2>3. CASE ListRobots BY <1>1, <2>3, ListStep
  <2>4. CASE AssignTask BY <1>1, <2>4, AssignStep
  <2>5. CASE LeaveTask BY <1>1, <2>5, LeaveStep
  <2>6. CASE UNCHANGED vars
    <3>1. TypeOK' /\ TasksInv'
      BY <1>1, <2>6 DEF vars, PremissionInv, TypeOK, TasksInv
    <3>2. Busy' = Busy /\ Left' = Left /\ Given' = Given /\ Considered' = Considered
      BY <2>6 DEF vars, Busy, Left, Given, Considered
    <3>3. RobotsInv' /\ StatusInv'
      BY <1>1, <2>6, <3>2 DEF vars, PremissionInv, RobotsInv, OneTaskOneRobot, StatusInv
    <3>4. DecidedInv'
      BY <1>1, <2>6, <3>2 DEF vars, PremissionInv, DecidedInv, NobodyLeftWilling, BidOnTask, Objections
    <3> QED BY <3>1, <3>3, <3>4 DEF PremissionInv
  <2> QED BY <1>1, <2>1, <2>2, <2>3, <2>4, <2>5, <2>6 DEF Next
<1> QED BY <1>1, InitPremission, PTL DEF Spec

-----------------------------------------------------------------------------
(***************************************************************************)
(* Who gets which task.  The robots still to be had are listed by rising   *)
(* id, so the last place that bids is the robot with the largest id.       *)
(***************************************************************************)
Sorted == \A i, j \in DOMAIN currentRobots : i < j => currentRobots[i] < currentRobots[j]

OrderInv == Sorted /\ LastContenderTakes

\* A task gone through before keeps its takers and those who contend for it while
\* later tasks are dealt with.
LEMMA EarlierTasksKept ==
  ASSUME PremissionInv, OrderInv, robots' = robots, NEW later \in Nat, NEW r,
         mapping' \in {mapping, mapping \cup {<<r, later>>}},
         NEW task \in Considered, task.id \in Nat, task.id < later
  PROVE  Takers(mapping, task.id)'
           = {q \in Contenders(mapping, task)' : \A o \in Contenders(mapping, task)' : o <= q}
<1> DEFINE pair == <<r, later>>
<1>1. /\ mapping' \in {mapping, mapping \cup {pair}}
      /\ pair[2] = later /\ task.id # later /\ ~(later < task.id)
  OBVIOUS
<1> HIDE DEF pair
<1>2. /\ Takers(mapping, task.id)' = Takers(mapping, task.id)
      /\ TakenBefore(mapping, task.id)' = TakenBefore(mapping, task.id)
  BY <1>1 DEF Takers, TakenBefore
<1>3. Contenders(mapping, task)' = Contenders(mapping, task)
  BY <1>2 DEF Contenders, BidOnTask, Objections
<1> QED BY <1>2, <1>3 DEF OrderInv, LastContenderTakes, FollowsOrder

\* The places of currentRobots that bid are those that contend for the task whose
\* turn it is.
LEMMA ContendersBid ==
  ASSUME PremissionInv, phase = "bids", at \in DOMAIN currentTasks
  PROVE  LET task == currentTasks[at] IN
         /\ task.id \in Nat
         /\ \A other \in Considered : other.id \in Nat /\ other.id < task.id
         /\ Contenders(mapping, task) = {currentRobots[i] : i \in Bidders(task)}
         /\ Takers(mapping, task.id) = {}
<1> DEFINE task == currentTasks[at]
<1>1. /\ task.id \in Nat
      /\ \A other \in Considered : other.id \in Nat /\ other.id < task.id
  BY TaskFields DEF PremissionInv, TasksInv, Considered
<1> HIDE DEF task
<1>2. \A p \in mapping : p[2] \in Nat /\ p[2] < task.id
  BY <1>1 DEF PremissionInv, DecidedInv
<1>3. TakenBefore(mapping, task.id) = Busy /\ Takers(mapping, task.id) = {}
  BY <1>1, <1>2 DEF TakenBefore, Takers, Busy
<1>4. DOMAIN robots \ Busy = Left
  BY DEF PremissionInv, RobotsInv, OneTaskOneRobot
<1>5. Contenders(mapping, task) = {currentRobots[i] : i \in Bidders(task)}
  BY <1>3, <1>4 DEF Contenders, Bidders, Left
<1> QED BY <1>1, <1>3, <1>5 DEF task

LEMMA AssignOrder ==
  ASSUME PremissionInv, OrderInv, AssignTask
  PROVE  OrderInv'
<1>0. PICK task, i, r :
        task = currentTasks[at] /\ i = Selected(task) /\ r = currentRobots[i]
  OBVIOUS
<1>1. /\ phase = "bids" /\ phase' = "bids" /\ at \in DOMAIN currentTasks /\ at' = at + 1
      /\ robots' = robots /\ currentTasks' = currentTasks
      /\ mapping' = mapping \cup {<<r, task.id>>}
      /\ currentRobots' = RemoveAt(currentRobots, i)
      /\ Bidders(task) # {}
  BY <1>0 DEF AssignTask, Remaining, input
<1>2. /\ task \in Task /\ Considered' = Considered \cup {task}
      /\ task.id \in Nat
      /\ \A other \in Considered : other.id \in Nat /\ other.id < task.id
      /\ Contenders(mapping, task) = {currentRobots[j] : j \in Bidders(task)}
      /\ Takers(mapping, task.id) = {}
  BY <1>0, <1>1, Turn, ContendersBid
<1>3. i \in Bidders(task) /\ \A j \in Bidders(task) : j <= i
  <2>1. Len(currentRobots) \in Nat /\ Bidders(task) \in SUBSET (1..Len(currentRobots))
    BY DEF PremissionInv, TypeOK, Bidders
  <2> QED BY <1>0, <1>1, <2>1, LastOne DEF Selected
<1>4. /\ currentRobots \in Seq(DOMAIN robots) /\ i \in 1..Len(currentRobots)
      /\ DOMAIN robots \subseteq Nat
  <2>1. currentRobots \in Seq(DOMAIN robots) /\ robots \in Fleets
    BY DEF PremissionInv, TypeOK
  <2>2. i \in 1..Len(currentRobots)
    BY <1>3, <2>1 DEF Bidders
  <2>3. DOMAIN robots \subseteq RobotIds
    BY <2>1 DEF Fleets
  <2>4. RobotIds \subseteq Nat
    BY PremissionAssumption
  <2> QED BY <2>1, <2>2, <2>3, <2>4
<1>5. /\ DOMAIN currentRobots = 1..Len(currentRobots) /\ Len(currentRobots) \in Nat
      /\ \A a \in 1..Len(currentRobots) : currentRobots[a] \in Nat
      /\ \A a, b \in 1..Len(currentRobots) : a < b => currentRobots[a] < currentRobots[b]
  <2>1. DOMAIN currentRobots = 1..Len(currentRobots) /\ Len(currentRobots) \in Nat
    BY <1>4
  <2>2. \A a \in 1..Len(currentRobots) : currentRobots[a] \in DOMAIN robots
    BY <1>4
  <2> QED BY <1>4, <2>1, <2>2 DEF OrderInv, Sorted
<1>6. Sorted'
  <2> DEFINE t == RemoveAt(currentRobots, i)
  <2>1. /\ t \in Seq(DOMAIN robots) /\ Len(t) = Len(currentRobots) - 1
        /\ \A a \in 1..Len(t) :
             t[a] = IF a < i THEN currentRobots[a] ELSE currentRobots[a + 1]
    BY <1>4, ErasedPlaces
  <2> HIDE DEF t
  <2>2. \A a, b \in 1..Len(t) : a < b => t[a] < t[b]
    BY <1>4, <1>5, ErasedSorted DEF t
  <2>3. currentRobots' = t /\ DOMAIN t = 1..Len(t)
    BY <1>1, <2>1 DEF t
  <2> QED BY <2>2, <2>3 DEF Sorted
<1>7. /\ r \in Contenders(mapping, task) /\ \A q \in Contenders(mapping, task) : q <= r
      /\ Contenders(mapping, task) \subseteq Nat
  <2>1. \A j \in Bidders(task) :
          /\ j \in 1..Len(currentRobots) /\ currentRobots[j] \in Nat
          /\ j # i => j < i /\ currentRobots[j] < r
    BY <1>0, <1>3, <1>4, <1>5 DEF Bidders
  <2>2. \A j \in Bidders(task) : currentRobots[j] <= r /\ currentRobots[j] \in Nat
    BY <1>0, <1>3, <2>1
  <2> QED BY <1>0, <1>2, <1>3, <2>2
<1>8. /\ Takers(mapping, task.id)' = {r}
      /\ Contenders(mapping, task)' = Contenders(mapping, task)
  <2> DEFINE pair == <<r, task.id>>
  <2>1. mapping' = mapping \cup {pair} /\ pair[1] = r /\ pair[2] = task.id
    BY <1>1
  <2> HIDE DEF pair
  <2>2. Takers(mapping, task.id)' = {r}
    BY <1>2, <2>1 DEF Takers
  <2>3. TakenBefore(mapping, task.id)' = TakenBefore(mapping, task.id)
    BY <1>2, <2>1 DEF TakenBefore
  <2> QED BY <1>1, <2>2, <2>3 DEF Contenders, BidOnTask, Objections
<1>9. {q \in Contenders(mapping, task) : \A o \in Contenders(mapping, task) : o <= q} = {r}
  BY <1>7
<1>10. ASSUME NEW other \in Considered
       PROVE  Takers(mapping, other.id)'
                = {q \in Contenders(mapping, other)' :
                     \A o \in Contenders(mapping, other)' : o <= q}
  <2>1. mapping' \in {mapping, mapping \cup {<<r, task.id>>}} /\ robots' = robots
    BY <1>1
  <2>2. other.id \in Nat /\ other.id < task.id /\ task.id \in Nat
    BY <1>2
  <2> QED BY <2>1, <2>2, EarlierTasksKept
<1>11. LastContenderTakes'
  BY <1>2, <1>8, <1>9, <1>10 DEF LastContenderTakes, FollowsOrder
<1> QED BY <1>6, <1>11 DEF OrderInv

LEMMA LeaveOrder ==
  ASSUME PremissionInv, OrderInv, LeaveTask
  PROVE  OrderInv'
<1>0. PICK task : task = currentTasks[at]
  OBVIOUS
<1>1. /\ phase = "bids" /\ phase' = "bids" /\ at \in DOMAIN currentTasks /\ at' = at + 1
      /\ robots' = robots /\ currentTasks' = currentTasks
      /\ mapping' = mapping /\ currentRobots' = currentRobots
      /\ Bidders(task) = {}
  BY <1>0 DEF LeaveTask, input
<1>2. /\ Considered' = Considered \cup {task}
      /\ task.id \in Nat
      /\ \A other \in Considered : other.id \in Nat /\ other.id < task.id
      /\ Contenders(mapping, task) = {} /\ Takers(mapping, task.id) = {}
  BY <1>0, <1>1, Turn, ContendersBid
<1>3. Takers(mapping, task.id)' = {} /\ Contenders(mapping, task)' = {}
  BY <1>1, <1>2 DEF Takers, Contenders, TakenBefore, BidOnTask, Objections
<1>4. ASSUME NEW other \in Considered
      PROVE  Takers(mapping, other.id)'
                = {q \in Contenders(mapping, other)' :
                     \A o \in Contenders(mapping, other)' : o <= q}
  BY <1>1, <1>2, EarlierTasksKept
<1>5. LastContenderTakes'
  BY <1>2, <1>3, <1>4 DEF LastContenderTakes, FollowsOrder
<1> QED BY <1>1, <1>5 DEF OrderInv, Sorted

\* The first two loops do not give tasks to anybody.
LEMMA ListOrder ==
  ASSUME PremissionInv, OrderInv,
         InstantiateTask \/ SkipUnknownTask \/ ListRobots
  PROVE  OrderInv'
<1>1. Considered' = {}
  BY DEF InstantiateTask, SkipUnknownTask, ListRobots, Considered, PremissionInv, TypeOK
<1>2. Sorted'
  BY DEF InstantiateTask, SkipUnknownTask, ListRobots, PremissionInv, TasksInv, Sorted
<1> QED BY <1>1, <1>2 DEF OrderInv, LastContenderTakes, FollowsOrder

LEMMA OrderInvariant == Spec => []OrderInv
<1>1. Init => OrderInv
  BY DEF Init, OrderInv, Sorted, LastContenderTakes, FollowsOrder, Considered
<1>2. ASSUME PremissionInv, OrderInv, [Next]_vars PROVE OrderInv'
  <2>1. CASE UNCHANGED vars
    <3>1. /\ Considered' = Considered
          /\ \A task : Takers(mapping, task.id)' = Takers(mapping, task.id)
                     /\ Contenders(mapping, task)' = Contenders(mapping, task)
      BY <2>1 DEF vars, Considered, Takers, Contenders, TakenBefore, BidOnTask, Objections
    <3> QED BY <1>2, <2>1, <3>1 DEF vars, OrderInv, Sorted, LastContenderTakes, FollowsOrder
  <2> QED BY <1>2, <2>1, AssignOrder, LeaveOrder, ListOrder DEF Next
<1> QED BY <1>1, <1>2, PremissionInvariant, PTL DEF Spec

-----------------------------------------------------------------------------
(* The input, the loops' state and the output have their types.                *)
THEOREM PremissionTyped == Spec => []TypeOK
<1>1. PremissionInv => TypeOK
  BY DEF PremissionInv
<1> QED BY <1>1, PremissionInvariant, PTL

(* The mapping handed to the planner is a matching of robots and tasks.        *)
THEOREM MappingIsMatching == Spec => []OneTaskOneRobot
<1>1. PremissionInv => OneTaskOneRobot
  BY DEF PremissionInv, RobotsInv
<1> QED BY <1>1, PremissionInvariant, PTL

(* The matching is maximal: no robot that goes without could do a task that    *)
(* was left to nobody.                                                         *)
THEOREM MappingIsMaximal == Spec => []NobodyLeftWilling
<1>1. PremissionInv => NobodyLeftWilling
  BY DEF PremissionInv, DecidedInv
<1> QED BY <1>1, PremissionInvariant, PTL

(* Each task goes to the last robot that can do it of those without an earlier *)
(* task: the order of the two lists alone determines the mapping.              *)
THEOREM MappingIsGreedy == Spec => []LastContenderTakes
<1>1. OrderInv => LastContenderTakes
  BY DEF OrderInv
<1> QED BY <1>1, OrderInvariant, PTL

(* And there is only one such mapping: what the call hands to the planner is a *)
(* function of the two lists and of which robot bids on which task.            *)
OnlyMapping ==
  \A map \in SUBSET ((DOMAIN robots) \X {task.id : task \in Considered}) :
    FollowsOrder(map) <=> map = mapping

Maps(m, T) == m \in SUBSET ((DOMAIN robots) \X T)

LEMMA PairsOf ==
  ASSUME NEW T, NEW m, Maps(m, T)
  PROVE  /\ \A p \in m : p = <<p[1], p[2]>> /\ p[1] \in DOMAIN robots /\ p[2] \in T
         /\ \A r, id : <<r, id>> \in m <=> id \in T /\ r \in Takers(m, id)
<1> PICK S : S = DOMAIN robots
  OBVIOUS
<1>1. \A p \in m : p = <<p[1], p[2]>> /\ p[1] \in S /\ p[2] \in T
  <2>1. \A p \in S \X T : p = <<p[1], p[2]>> /\ p[1] \in S /\ p[2] \in T
    OBVIOUS
  <2>2. \A p \in m : p \in S \X T
    BY Zenon DEF Maps
  <2> QED BY <2>1, <2>2, Zenon
<1>2. ASSUME NEW r, NEW id, <<r, id>> \in m
      PROVE  id \in T /\ r \in Takers(m, id)
  <2> PICK p : p = <<r, id>>
    OBVIOUS
  <2>1. p \in m /\ p[1] = r /\ p[2] = id
    BY <1>2
  <2> QED BY <1>1, <2>1 DEF Takers
<1>3. ASSUME NEW r, NEW id, r \in Takers(m, id)
      PROVE  <<r, id>> \in m
  <2>1. PICK p \in m : p[2] = id /\ p[1] = r
    BY <1>3 DEF Takers
  <2> QED BY <1>1, <2>1
<1> QED BY <1>1, <1>2, <1>3

LEMMA FollowedOnce ==
  ASSUME NEW places \in SUBSET Nat, NEW m1, NEW m2, Maps(m1, places), Maps(m2, places),
         places = {task.id : task \in Considered}, FollowsOrder(m1), FollowsOrder(m2)
  PROVE  m1 = m2
<1> DEFINE Less == {p \in Nat \X Nat : p[1] < p[2]}
           Apart == {id \in places : Takers(m1, id) # Takers(m2, id)}
<1>1. IsWellFoundedOn(Less, Nat)
  BY NatLessThanWellFounded DEF OpToRel
<1>2. Apart = {}
  <2> SUFFICES ASSUME Apart # {} PROVE FALSE
    OBVIOUS
  <2>1. PICK id \in Apart : \A other \in Apart : <<other, id>> \notin Less
    <3>1. Apart \in SUBSET Nat
      OBVIOUS
    <3> HIDE DEF Less, Apart
    <3> QED BY <1>1, <3>1, WFMin
  <2>2. ASSUME NEW other \in places, other < id
        PROVE  Takers(m1, other) = Takers(m2, other)
    <3>1. <<other, id>> \in Less
      BY <2>2
    <3> QED BY <2>1, <3>1
  <2>3. ASSUME NEW m, Maps(m, places)
        PROVE  TakenBefore(m, id)
                 = UNION {Takers(m, other) : other \in {o \in places : o < id}}
    <3> HIDE DEF Apart, Less
    <3>1. \A p \in m : p[2] \in places
      BY <2>3, PairsOf
    <3> QED BY <3>1 DEF TakenBefore, Takers
  <2>4. TakenBefore(m1, id) = TakenBefore(m2, id)
    <3>1. \A q : q \in TakenBefore(m1, id) <=> q \in TakenBefore(m2, id)
      <4> HIDE DEF Apart, Less
      <4>1. \A q : q \in TakenBefore(m1, id)
                     <=> \E other \in places : other < id /\ q \in Takers(m1, other)
        BY <2>3
      <4>2. \A q : q \in TakenBefore(m2, id)
                     <=> \E other \in places : other < id /\ q \in Takers(m2, other)
        BY <2>3
      <4> QED BY <2>2, <4>1, <4>2
    <3> QED BY <3>1
  <2>5. PICK task \in Considered : task.id = id
    OBVIOUS
  <2>6. Contenders(m1, task) = Contenders(m2, task)
    BY <2>4, <2>5 DEF Contenders
  <2> QED BY <2>5, <2>6 DEF FollowsOrder
<1>3. \A id \in places : Takers(m1, id) = Takers(m2, id)
  BY <1>2
<1> HIDE DEF Less, Apart
<1>4. \A r, id : <<r, id>> \in m1 <=> <<r, id>> \in m2
  <2>1. /\ \A r, id : <<r, id>> \in m1 <=> id \in places /\ r \in Takers(m1, id)
        /\ \A r, id : <<r, id>> \in m2 <=> id \in places /\ r \in Takers(m2, id)
    BY PairsOf
  <2> QED BY <1>3, <2>1
<1>5. /\ \A p \in m1 : p = <<p[1], p[2]>>
      /\ \A p \in m2 : p = <<p[1], p[2]>>
  BY PairsOf
<1>6. \A p : p \in m1 <=> p \in m2
  <2>1. ASSUME NEW p \in m1 PROVE p \in m2
    BY <1>4, <1>5
  <2>2. ASSUME NEW p \in m2 PROVE p \in m1
    BY <1>4, <1>5
  <2> QED BY <2>1, <2>2
<1> QED BY <1>6

THEOREM MappingIsDetermined == Spec => []OnlyMapping
<1>1. PremissionInv /\ OrderInv => OnlyMapping
  <2> SUFFICES ASSUME PremissionInv, OrderInv PROVE OnlyMapping
    OBVIOUS
  <2> PICK places : places = {task.id : task \in Considered}
    OBVIOUS
  <2>1. places \in SUBSET Nat
    BY TaskFields DEF Considered, PremissionInv
  <2>2. Maps(mapping, places)
    <3>1. Maps(mapping, 1..MaxTasks)
      <4>1. mapping \subseteq (DOMAIN robots) \X (1..MaxTasks)
        BY DEF PremissionInv, TypeOK
      <4> QED BY <4>1, Zenon DEF Maps
    <3>2. \A p \in mapping : p[2] \in places
      BY DEF PremissionInv, DecidedInv
    <3>3. ASSUME NEW p \in mapping PROVE p \in (DOMAIN robots) \X places
      <4>1. p = <<p[1], p[2]>> /\ p[1] \in DOMAIN robots /\ p[2] \in places
        BY <3>1, <3>2, PairsOf
      <4>2. \A a \in DOMAIN robots, b \in places : <<a, b>> \in (DOMAIN robots) \X places
        OBVIOUS
      <4> QED BY <4>1, <4>2, Zenon
    <3> QED BY <3>3 DEF Maps
  <2>3. ASSUME NEW m, Maps(m, places), FollowsOrder(m) PROVE m = mapping
    BY <2>1, <2>2, <2>3, FollowedOnce DEF OrderInv, LastContenderTakes
  <2> QED BY <2>3 DEF OnlyMapping, Maps, OrderInv, LastContenderTakes
<1> QED BY <1>1, OrderInvariant, PremissionInvariant, PTL

(* Robots break none of the constraints that were listed for the tasks they    *)
(* are given and that those tasks' kinds heed.                                 *)
THEOREM AssignedAreFit == Spec => []AssignedMeetNeeds
<1>1. PremissionInv => AssignedMeetNeeds
  <2> SUFFICES ASSUME PremissionInv, NEW p \in mapping
               PROVE  tasks[p[2]].needs \cap Heeded[tasks[p[2]].name]
                        \cap robots[p[1]].breaks = {}
    BY DEF AssignedMeetNeeds
  <2>1. PICK j \in DOMAIN currentTasks :
          currentTasks[j].id = p[2] /\ BidOnTask(p[1], currentTasks[j]) > 0
    BY DEF PremissionInv, DecidedInv, Considered
  <2>2. currentTasks[j] \in Task /\ p[1] \in DOMAIN robots
    BY DEF PremissionInv, TypeOK
  <2>3. currentTasks[j].constraints \cap Objections(p[1], currentTasks[j].name) = {}
    BY <2>1, <2>2, BidTypes DEF PremissionInv
  <2>4. /\ tasks[p[2]].needs \subseteq currentTasks[j].constraints
        /\ tasks[p[2]].name = currentTasks[j].name
    BY <2>1 DEF PremissionInv, TasksInv
  <2> QED BY <2>3, <2>4 DEF Objections
<1> QED BY <1>1, PremissionInvariant, PTL

(* The status tells whether tasks were left to nobody, and "normal" that every *)
(* robot has a task as well.                                                   *)
THEOREM StatusIsTrue == Spec => []StatusTellsOutcome
<1>1. PremissionInv => StatusTellsOutcome
  <2> SUFFICES ASSUME PremissionInv, Returned
               PROVE  /\ status \in {"incomplete", "excessive_incomplete"}
                           <=> \E task \in Considered : task.id \notin Given
                      /\ status = "normal" => Left = {}
    BY DEF StatusTellsOutcome
  <2>1. /\ phase = "bids" /\ at \in 1..(Len(currentTasks) + 1) /\ at \notin DOMAIN currentTasks
        /\ currentTasks \in Seq(Task) /\ currentRobots \in Seq(DOMAIN robots)
    BY DEF PremissionInv, TypeOK, DecidedInv, Returned
  <2>2. at = Len(currentTasks) + 1
    BY <2>1
  <2>3. status = "normal" => Left = {}
    <3>1. status = "normal" => Len(currentRobots) <= 0
      BY <2>1, <2>2 DEF PremissionInv, StatusInv
    <3> QED BY <2>1, <3>1 DEF Left
  <2> QED BY <2>1, <2>3 DEF PremissionInv, StatusInv
<1> QED BY <1>1, PremissionInvariant, PTL
=============================================================================
