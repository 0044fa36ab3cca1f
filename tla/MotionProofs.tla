----------------------------- MODULE MotionProofs -----------------------------
(***************************************************************************)
(* Proofs about autonomous motion, for every limit of central's queues and   *)
(* everything the navigator may send.                                        *)
(*                                                                          *)
(* The first part says what arriving and finished messages do to any queue:  *)
(* QueuesKept.  For StopSticks a stop is followed on its way (StopInv): it   *)
(* waits for the navigator with no go behind it, or the navigator has        *)
(* stopped and its order waits for the robot server with no trajectory       *)
(* behind it, or the robot server has stopped following too.                 *)
(***************************************************************************)
EXTENDS Motion, CarmenRobotProofs, FiniteSetTheorems, FunctionTheorems,
        SequenceTheorems, WellFoundedInduction, TLAPS

-----------------------------------------------------------------------------
(* What central's operations on a receiver's queue preserve, for any set of
   messages: the form of the queue, the limit, and that nothing waits for an idle
   receiver. *)

\* The queues of a receiver of the messages M.
Queues(M) == [attending : M \cup {Nobody}, pending : Seq(M)]

Kept(queue) == WithinLimit(queue) /\ WaitsOnlyBehind(queue)

\* There is a least one among some numbers.
LEMMA LeastOne ==
  ASSUME NEW S \in SUBSET Nat, S # {}
  PROVE  \E x \in S : \A y \in S : x <= y
<1> DEFINE Less == {p \in Nat \X Nat : p[1] < p[2]}
<1>1. IsWellFoundedOn(Less, Nat)
  BY NatLessThanWellFounded DEF OpToRel
<1>2. PICK x \in S : \A y \in S : <<y, x>> \notin Less
  BY <1>1, WFMin
<1>3. ASSUME NEW y \in S PROVE x <= y
  <2>1. x \in Nat /\ y \in Nat
    OBVIOUS
  <2>2. <<y, x>> \in Nat \X Nat /\ <<y, x>>[1] = y /\ <<y, x>>[2] = x
    BY <2>1
  <2>3. ~(y < x)
    BY <1>2, <2>2
  <2> QED BY <2>1, <2>3
<1> QED BY <1>3

\* The nearest of some slots of a list is one of them.
LEMMA NearestIsOne ==
  ASSUME NEW S \in SUBSET Nat, S # {}
  PROVE  Nearest(S) \in S
BY LeastOne DEF Nearest

\* A replacement keeps every slot for the name that had it.
LEMMA ReplaceKeepsNames ==
  ASSUME NEW M, NEW list \in Seq(M), NEW msg \in M
  PROVE  /\ ReplaceOldest(list, msg) \in Seq(M)
         /\ Len(ReplaceOldest(list, msg)) = Len(list)
         /\ \A i \in 1 .. Len(list) :
              ReplaceOldest(list, msg)[i].name = list[i].name
<1> DEFINE new == ReplaceOldest(list, msg)
<1>1. ASSUME NEW i \in 1 .. Len(list), Behind(list, i) # {}
      PROVE  /\ Nearest(Behind(list, i)) \in 1 .. Len(list)
             /\ list[Nearest(Behind(list, i))].name = list[i].name
  <2>1. Behind(list, i) \in SUBSET Nat
    BY DEF Behind
  <2>2. Nearest(Behind(list, i)) \in Behind(list, i)
    BY <1>1, <2>1, NearestIsOne
  <2> QED BY <2>2 DEF Behind
<1>2. ASSUME NEW i \in 1 .. Len(list)
      PROVE  new[i] \in M /\ new[i].name = list[i].name
  BY <1>1 DEF ReplaceOldest
<1>3. new = [i \in 1 .. Len(list) |-> new[i]]
  BY DEF ReplaceOldest
<1> HIDE DEF new
<1>4. new \in [1 .. Len(list) -> M]
  BY <1>2, <1>3
<1>5. new \in Seq(M) /\ Len(new) = Len(list)
  BY <1>4
<1> QED BY <1>2, <1>5 DEF new

\* Where each name belongs to one message, it leaves the list as it was.
LEMMA ReplaceSame ==
  ASSUME NEW M, \A a, b \in M : a.name = b.name => a = b,
         NEW list \in Seq(M), NEW msg \in M
  PROVE  ReplaceOldest(list, msg) = list
<1> DEFINE new == ReplaceOldest(list, msg)
<1>1. /\ new \in Seq(M) /\ Len(new) = Len(list)
      /\ \A i \in 1 .. Len(list) : new[i].name = list[i].name
  BY ReplaceKeepsNames
<1> HIDE DEF new
<1>2. \A i \in 1 .. Len(list) : new[i] \in M /\ list[i] \in M
  BY <1>1
<1>3. \A i \in 1 .. Len(list) : new[i] = list[i]
  BY <1>1, <1>2
<1>4. new = list
  BY <1>1, <1>3
<1> QED BY <1>4 DEF new

-----------------------------------------------------------------------------

\* What waits is finite, and a name that does not wait has no slots.
LEMMA WaitingFinite ==
  ASSUME NEW M, NEW list \in Seq(M), NEW name
  PROVE  IsFiniteSet(Waiting(list, name)) /\ Cardinality(Waiting(list, name)) \in Nat
<1>1. IsFiniteSet(1 .. Len(list))
  BY FS_Interval
<1>2. Waiting(list, name) \in SUBSET (1 .. Len(list))
  BY DEF Waiting
<1> QED BY <1>1, <1>2, FS_Subset, FS_CardinalityType

\* A message that arrives finds the receiver idle, is appended while the limit
\* allows it, or takes the place of one that waits.
LEMMA ArriveCases ==
  ASSUME NEW M, NEW queue \in Queues(M), WaitsOnlyBehind(queue), NEW msg \in M
  PROVE  \/ /\ queue = IdleQueue
            /\ Arrive(queue, msg) = [attending |-> msg, pending |-> <<>>]
         \/ /\ queue.attending # Nobody
            /\ Cardinality(Waiting(queue.pending, msg.name)) < QueueLimit
            /\ Arrive(queue, msg)
                 = [attending |-> queue.attending, pending |-> Append(queue.pending, msg)]
         \/ /\ queue.attending # Nobody
            /\ Waiting(queue.pending, msg.name) # {}
            /\ Arrive(queue, msg)
                 = [attending |-> queue.attending,
                    pending |-> ReplaceOldest(queue.pending, msg)]
<1>1. queue = [attending |-> queue.attending, pending |-> queue.pending]
  BY DEF Queues
<1>2. CASE queue.attending = Nobody
  <2>1. queue.pending = <<>>
    BY <1>2 DEF WaitsOnlyBehind
  <2>2. [queue EXCEPT !.attending = msg] = [attending |-> msg, pending |-> queue.pending]
    BY <1>1
  <2> QED BY <1>1, <1>2, <2>1, <2>2 DEF Arrive, IdleQueue
<1>3. CASE queue.attending # Nobody
  <2> DEFINE list == queue.pending
  <2>1. list \in Seq(M)
    BY DEF Queues
  <2>2. Arrive(queue, msg)
          = [attending |-> queue.attending, pending |-> AddPending(list, msg)]
    BY <1>1, <1>3 DEF Arrive
  <2>3. CASE Cardinality(Waiting(list, msg.name)) < QueueLimit
    BY <1>3, <2>2, <2>3 DEF AddPending
  <2>4. CASE ~(Cardinality(Waiting(list, msg.name)) < QueueLimit)
    <3>1. Waiting(list, msg.name) # {}
      BY <2>4, FS_EmptySet, QueueLimitAssumption
    <3> QED BY <1>3, <2>2, <2>4, <3>1 DEF AddPending
  <2> QED BY <2>3, <2>4
<1> QED BY <1>2, <1>3

\* An arriving message leaves the queue as it should look.
LEMMA ArriveKept ==
  ASSUME NEW M, NEW queue \in Queues(M), Kept(queue), NEW msg \in M, Nobody \notin M
  PROVE  Arrive(queue, msg) \in Queues(M) /\ Kept(Arrive(queue, msg))
<1> DEFINE list == queue.pending
<1> PICK new : new = Arrive(queue, msg)
  OBVIOUS
<1>0. list \in Seq(M) /\ queue.attending \in M \cup {Nobody} /\ QueueLimit \in Nat \ {0}
  BY QueueLimitAssumption DEF Queues
<1>1. CASE new = [attending |-> msg, pending |-> <<>>]
  <2>1. new \in Queues(M)
    BY <1>1 DEF Queues
  <2>2. Kept(new)
    BY <1>1 DEF Kept, WithinLimit, WaitsOnlyBehind
  <2> QED BY <2>1, <2>2
<1>2. CASE /\ queue.attending # Nobody
           /\ Cardinality(Waiting(list, msg.name)) < QueueLimit
           /\ new = [attending |-> queue.attending, pending |-> Append(list, msg)]
  <2> DEFINE longer == Append(list, msg)
  <2>1. /\ longer \in Seq(M) /\ Len(longer) = Len(list) + 1
        /\ \A i \in 1 .. Len(list) : longer[i] = list[i]
        /\ longer[Len(list) + 1] = msg
    BY <1>0, AppendProperties
  <2> HIDE DEF longer, list
  <2>2. ASSUME NEW name PROVE
          Waiting(longer, name) = IF name = msg.name
                                    THEN Waiting(list, name) \cup {Len(list) + 1}
                                    ELSE Waiting(list, name)
    <3>1. ASSUME NEW i \in 1 .. Len(list)
          PROVE  i \in Waiting(longer, name) <=> i \in Waiting(list, name)
      BY <1>0, <2>1 DEF Waiting
    <3>2. Len(list) + 1 \in Waiting(longer, name) <=> name = msg.name
      BY <1>0, <2>1 DEF Waiting
    <3>3. /\ Waiting(longer, name) \subseteq 1 .. Len(list) \cup {Len(list) + 1}
          /\ Waiting(list, name) \subseteq 1 .. Len(list)
      BY <1>0, <2>1 DEF Waiting
    <3>4. Len(list) + 1 \notin 1 .. Len(list)
      BY <1>0
    <3> QED BY <3>1, <3>2, <3>3, <3>4
  <2>3. ASSUME NEW i \in 1 .. Len(list)
        PROVE  Cardinality(Waiting(list, list[i].name)) <= QueueLimit
    BY <1>0 DEF Kept, WithinLimit, list
  <2>4. Cardinality(Waiting(longer, msg.name)) <= QueueLimit
    <3> PICK S : S = Waiting(list, msg.name)
      OBVIOUS
    <3>1. IsFiniteSet(S) /\ Cardinality(S) \in Nat /\ Cardinality(S) < QueueLimit
      BY <1>0, <1>2, WaitingFinite DEF list
    <3>2. Cardinality(S \cup {Len(list) + 1}) <= Cardinality(S) + 1
      <4> PICK n : n = Len(list) + 1
        OBVIOUS
      <4>1. Cardinality(S \cup {n}) \in {Cardinality(S), Cardinality(S) + 1}
        BY <3>1, FS_AddElement
      <4> QED BY <3>1, <4>1
    <3>3. Waiting(longer, msg.name) = S \cup {Len(list) + 1}
      BY <2>2
    <3>4. Cardinality(S \cup {Len(list) + 1}) \in Nat
      BY <3>1, FS_AddElement, FS_CardinalityType
    <3> QED BY <1>0, <3>1, <3>2, <3>3, <3>4
  <2>5. ASSUME NEW i \in 1 .. Len(longer)
        PROVE  Cardinality(Waiting(longer, longer[i].name)) <= QueueLimit
    <3>1. CASE longer[i].name = msg.name
      BY <2>4, <3>1
    <3>2. CASE longer[i].name # msg.name
      <4>1. i \in 1 .. Len(list) /\ longer[i] = list[i]
        BY <1>0, <2>1, <3>2
      <4> QED BY <2>2, <2>3, <3>2, <4>1
    <3> QED BY <3>1, <3>2
  <2>6. new \in Queues(M)
    BY <1>0, <1>2, <2>1 DEF Queues, longer, list
  <2>7. new.pending = longer /\ new.attending = queue.attending
    BY <1>2 DEF longer, list
  <2>8. Kept(new)
    <3>1. DOMAIN longer = 1 .. Len(longer)
      BY <2>1
    <3>2. WithinLimit(new)
      BY <2>5, <2>7, <3>1 DEF WithinLimit
    <3>3. WaitsOnlyBehind(new)
      BY <1>2, <2>7 DEF WaitsOnlyBehind
    <3> QED BY <3>2, <3>3 DEF Kept
  <2> QED BY <2>6, <2>8
<1>3. CASE /\ queue.attending # Nobody
           /\ new = [attending |-> queue.attending, pending |-> ReplaceOldest(list, msg)]
  <2> DEFINE other == ReplaceOldest(list, msg)
  <2>1. /\ other \in Seq(M) /\ Len(other) = Len(list)
        /\ \A i \in 1 .. Len(list) : other[i].name = list[i].name
    BY <1>0, ReplaceKeepsNames
  <2> HIDE DEF other, list
  <2>2. ASSUME NEW name PROVE Waiting(other, name) = Waiting(list, name)
    BY <1>0, <2>1 DEF Waiting
  <2>3. ASSUME NEW i \in 1 .. Len(list)
        PROVE  Cardinality(Waiting(list, list[i].name)) <= QueueLimit
    BY <1>0 DEF Kept, WithinLimit, list
  <2>4. ASSUME NEW i \in 1 .. Len(other)
        PROVE  Cardinality(Waiting(other, other[i].name)) <= QueueLimit
    BY <2>1, <2>2, <2>3
  <2>5. new \in Queues(M)
    BY <1>0, <1>3, <2>1 DEF Queues, other, list
  <2>6. new.pending = other /\ new.attending = queue.attending
    BY <1>3 DEF other, list
  <2>7. Kept(new)
    BY <1>3, <2>1, <2>4, <2>6 DEF Kept, WithinLimit, WaitsOnlyBehind
  <2> QED BY <2>5, <2>7
<1>4. WaitsOnlyBehind(queue)
  BY DEF Kept
<1> QED BY <1>1, <1>2, <1>3, <1>4, ArriveCases

\* So does the end of a handler.
LEMMA FinishKept ==
  ASSUME NEW M, NEW queue \in Queues(M), Kept(queue), Nobody \notin M
  PROVE  Finish(queue) \in Queues(M) /\ Kept(Finish(queue))
<1> DEFINE list == queue.pending
<1> PICK new : new = Finish(queue)
  OBVIOUS
<1>0. list \in Seq(M) /\ QueueLimit \in Nat \ {0}
  BY QueueLimitAssumption DEF Queues
<1>1. CASE list = <<>>
  <2>1. new = [queue EXCEPT !.attending = Nobody]
    BY <1>1 DEF Finish
  <2>2. new.attending = Nobody /\ new.pending = <<>> /\ new \in Queues(M)
    BY <1>1, <2>1 DEF Queues
  <2>3. Kept(new)
    BY <2>2 DEF Kept, WithinLimit, WaitsOnlyBehind
  <2> QED BY <2>2, <2>3
<1>2. CASE list # <<>>
  <2> DEFINE rest == Tail(list)
  <2>1. /\ Head(list) \in M
        /\ rest \in Seq(M) /\ Len(rest) = Len(list) - 1
        /\ \A i \in 1 .. Len(rest) : rest[i] = list[i + 1]
    BY <1>0, <1>2, HeadTailProperties
  <2>2. new = [attending |-> Head(list), pending |-> rest]
    BY <1>2 DEF Finish
  <2>3. new \in Queues(M)
    BY <2>1, <2>2 DEF Queues
  <2>4. new.attending # Nobody /\ new.pending = rest
    BY <2>1, <2>2
  <2> HIDE DEF rest, list
  <2>5. ASSUME NEW name
        PROVE  /\ Cardinality(Waiting(rest, name)) \in Nat
               /\ Cardinality(Waiting(rest, name)) <= Cardinality(Waiting(list, name))
    <3> DEFINE S == Waiting(rest, name)
               T == Waiting(list, name)
               f == [i \in S |-> i + 1]
    <3>1. S \in SUBSET Nat /\ \A i \in S : i + 1 \in T
      BY <1>0, <2>1 DEF Waiting
    <3>2. IsFiniteSet(T) /\ Cardinality(S) \in Nat
      BY <1>0, <2>1, WaitingFinite
    <3> HIDE DEF S, T
    <3>3. f \in Injection(S, T)
      <4>1. f \in [S -> T]
        BY <3>1
      <4>2. ASSUME NEW i \in S, NEW j \in S, f[i] = f[j] PROVE i = j
        BY <3>1, <4>2
      <4> QED BY <4>1, <4>2, Fun_IsInj
    <3>4. Cardinality(S) <= Cardinality(T)
      BY <3>2, <3>3, FS_Injection
    <3> QED BY <3>2, <3>4 DEF S, T
  <2>6. ASSUME NEW i \in 1 .. Len(rest)
        PROVE  Cardinality(Waiting(rest, rest[i].name)) <= QueueLimit
    <3>1. i + 1 \in 1 .. Len(list) /\ rest[i] = list[i + 1]
      BY <1>0, <2>1
    <3>2. Cardinality(Waiting(list, list[i + 1].name)) <= QueueLimit
      BY <1>0, <3>1 DEF Kept, WithinLimit, list
    <3>3. Cardinality(Waiting(list, list[i + 1].name)) \in Nat
      BY <1>0, WaitingFinite
    <3> QED BY <1>0, <2>5, <3>1, <3>2, <3>3
  <2>7. Kept(new)
    BY <2>1, <2>4, <2>6 DEF Kept, WithinLimit, WaitsOnlyBehind
  <2> QED BY <2>3, <2>7
<1> QED BY <1>1, <1>2

-----------------------------------------------------------------------------
(* The order of two messages in a queue.  Slot 0 is the one attended to. *)

Slots(queue) == 0 .. Len(queue.pending)

InSlot(queue, i) == IF i = 0 THEN queue.attending ELSE queue.pending[i]

Absent(queue, msg) == \A i \in Slots(queue) : InSlot(queue, i) # msg

\* msg is in the queue, and other is not behind it.
LastOf(queue, msg, other) ==
  \E i \in Slots(queue) :
    /\ InSlot(queue, i) = msg
    /\ \A j \in Slots(queue) : j > i => InSlot(queue, j) # other

OneMessageAName(M) == \A a, b \in M : a.name = b.name => a = b

\* In an idle queue there is no message at all.
LEMMA IdleAbsent ==
  ASSUME NEW msg, msg # Nobody
  PROVE  /\ Absent(IdleQueue, msg)
         /\ \A other : ~LastOf(IdleQueue, msg, other)
BY DEF Absent, LastOf, Slots, InSlot, IdleQueue

\* Where each name belongs to one message, a message that arrives takes a slot of
\* its own behind the others, or none at all.
LEMMA ArriveSlots ==
  ASSUME NEW M, OneMessageAName(M), Nobody \notin M,
         NEW queue \in Queues(M), Kept(queue), NEW msg \in M
  PROVE  \/ /\ queue = IdleQueue
            /\ Arrive(queue, msg).attending = msg
            /\ Arrive(queue, msg).pending = <<>>
         \/ /\ Slots(Arrive(queue, msg)) = Slots(queue) \cup {Len(queue.pending) + 1}
            /\ \A i \in Slots(queue) : InSlot(Arrive(queue, msg), i) = InSlot(queue, i)
            /\ InSlot(Arrive(queue, msg), Len(queue.pending) + 1) = msg
         \/ /\ Arrive(queue, msg) = queue
            /\ queue.attending # Nobody
            /\ Cardinality(Waiting(queue.pending, msg.name)) >= QueueLimit
            /\ Waiting(queue.pending, msg.name) # {}
<1> DEFINE list == queue.pending
<1> PICK new : new = Arrive(queue, msg)
  OBVIOUS
<1>0. /\ list \in Seq(M) /\ Len(list) \in Nat /\ WaitsOnlyBehind(queue)
      /\ queue = [attending |-> queue.attending, pending |-> list]
      /\ Cardinality(Waiting(list, msg.name)) \in Nat
      /\ QueueLimit \in Nat
  BY WaitingFinite, QueueLimitAssumption DEF Queues, Kept
<1>1. CASE queue = IdleQueue
  <2>1. new.attending = msg /\ new.pending = <<>>
    BY <1>1 DEF Arrive, IdleQueue
  <2> QED BY <1>1, <2>1
<1>2. CASE /\ queue.attending # Nobody
           /\ new = [attending |-> queue.attending, pending |-> Append(list, msg)]
  <2> DEFINE longer == Append(list, msg)
  <2>1. /\ longer \in Seq(M) /\ Len(longer) = Len(list) + 1
        /\ \A i \in 1 .. Len(list) : longer[i] = list[i]
        /\ longer[Len(list) + 1] = msg
    BY <1>0, AppendProperties
  <2>2. new.pending = longer /\ new.attending = queue.attending
    BY <1>2
  <2> HIDE DEF longer, list
  <2>3. Slots(new) = Slots(queue) \cup {Len(list) + 1}
    BY <1>0, <2>1, <2>2 DEF Slots, list
  <2>4. ASSUME NEW i \in Slots(queue) PROVE InSlot(new, i) = InSlot(queue, i)
    <3>1. i = 0 \/ i \in 1 .. Len(list)
      BY <1>0 DEF Slots, list
    <3> QED BY <2>1, <2>2, <3>1 DEF InSlot, list
  <2>5. InSlot(new, Len(list) + 1) = msg
    BY <1>0, <2>1, <2>2 DEF InSlot
  <2> QED BY <2>3, <2>4, <2>5 DEF list
<1>3. CASE queue.attending # Nobody /\ ~(Cardinality(Waiting(list, msg.name)) < QueueLimit)
  <2>1. ReplaceOldest(list, msg) = list
    BY <1>0, ReplaceSame DEF OneMessageAName
  <2>2. Arrive(queue, msg) = [attending |-> queue.attending, pending |-> list]
    BY <1>0, <1>3, <2>1 DEF Arrive, AddPending
  <2>3. Waiting(list, msg.name) # {}
    BY <1>3, FS_EmptySet, QueueLimitAssumption
  <2> QED BY <1>0, <1>3, <2>2, <2>3
<1>4. \/ queue = IdleQueue
      \/ /\ queue.attending # Nobody
         /\ new = [attending |-> queue.attending, pending |-> Append(list, msg)]
      \/ queue.attending # Nobody /\ ~(Cardinality(Waiting(list, msg.name)) < QueueLimit)
  <2>1. CASE queue.attending = Nobody
    BY <1>0, <2>1, ArriveCases
  <2>2. CASE queue.attending # Nobody
    BY <1>0, <2>2 DEF Arrive, AddPending
  <2> QED BY <2>1, <2>2
<1> QED BY <1>1, <1>2, <1>3, <1>4

\* A message that arrives brings no other with it.
LEMMA ArriveAbsent ==
  ASSUME NEW M, OneMessageAName(M), Nobody \notin M,
         NEW queue \in Queues(M), Kept(queue), NEW msg \in M,
         NEW other \in M, other # msg, Absent(queue, other)
  PROVE  Absent(Arrive(queue, msg), other)
<1> PICK new : new = Arrive(queue, msg)
  OBVIOUS
<1>1. CASE new.attending = msg /\ new.pending = <<>>
  BY <1>1 DEF Absent, Slots, InSlot
<1>2. CASE /\ Slots(new) = Slots(queue) \cup {Len(queue.pending) + 1}
           /\ \A i \in Slots(queue) : InSlot(new, i) = InSlot(queue, i)
           /\ InSlot(new, Len(queue.pending) + 1) = msg
  BY <1>2 DEF Absent
<1>3. CASE new = queue
  BY <1>3
<1> QED BY <1>1, <1>2, <1>3, ArriveSlots

\* Nor does one get in between the last of one name and the end.
LEMMA ArriveLast ==
  ASSUME NEW M, OneMessageAName(M), Nobody \notin M,
         NEW queue \in Queues(M), Kept(queue), NEW msg \in M,
         NEW first \in M, NEW other \in M, other # msg, LastOf(queue, first, other)
  PROVE  LastOf(Arrive(queue, msg), first, other)
<1> PICK new : new = Arrive(queue, msg)
  OBVIOUS
<1>0. queue # IdleQueue
  BY IdleAbsent
<1>1. CASE /\ Slots(new) = Slots(queue) \cup {Len(queue.pending) + 1}
           /\ \A i \in Slots(queue) : InSlot(new, i) = InSlot(queue, i)
           /\ InSlot(new, Len(queue.pending) + 1) = msg
  BY <1>1 DEF LastOf
<1>2. CASE new = queue
  BY <1>2
<1> QED BY <1>0, <1>1, <1>2, ArriveSlots

\* A message that overtakes no other of a name has none of that name behind it.
LEMMA ArriveNew ==
  ASSUME NEW M, OneMessageAName(M), Nobody \notin M,
         NEW queue \in Queues(M), Kept(queue), NEW msg \in M,
         NEW other \in M, other # msg, other.name \notin Overtaken(queue, msg)
  PROVE  LastOf(Arrive(queue, msg), msg, other)
<1> DEFINE list == queue.pending
<1> PICK new : new = Arrive(queue, msg)
  OBVIOUS
<1>0. list \in Seq(M) /\ Len(list) \in Nat
  BY DEF Queues
<1>1. CASE new.attending = msg /\ new.pending = <<>>
  <2>1. 0 \in Slots(new) /\ InSlot(new, 0) = msg /\ Slots(new) = {0}
    BY <1>1 DEF Slots, InSlot
  <2> QED BY <2>1 DEF LastOf
<1>2. CASE /\ Slots(new) = Slots(queue) \cup {Len(list) + 1}
           /\ InSlot(new, Len(list) + 1) = msg
  <2>1. \A j \in Slots(new) : ~(j > Len(list) + 1)
    BY <1>0, <1>2 DEF Slots
  <2> QED BY <1>2, <2>1 DEF LastOf
<1>3. CASE /\ new = queue
           /\ queue.attending # Nobody
           /\ Cardinality(Waiting(list, msg.name)) >= QueueLimit
           /\ Waiting(list, msg.name) # {}
  <2> DEFINE slots == Waiting(list, msg.name)
             after == {j \in DOMAIN list : \A k \in slots : j > k}
  <2>1. Overtaken(queue, msg) = {list[i].name : i \in after}
    BY <1>0, <1>3, WaitingFinite, QueueLimitAssumption DEF Overtaken
  <2>2. PICK k \in slots : \A j \in slots : j <= k
    <3>1. slots \in SUBSET (1 .. Len(list))
      BY <1>0 DEF Waiting
    <3> DEFINE Left == {Len(list) - j : j \in slots}
    <3>2. Left \in SUBSET Nat /\ Left # {}
      BY <1>0, <1>3, <3>1
    <3>3. Nearest(Left) \in Left /\ \A l \in Left : Nearest(Left) <= l
      <4>1. \E l \in Left : \A m \in Left : l <= m
        BY <3>2, LeastOne
      <4> QED BY <4>1 DEF Nearest
    <3>4. PICK k \in slots : Nearest(Left) = Len(list) - k
      BY <3>3
    <3>5. \A j \in slots : Len(list) - k <= Len(list) - j
      BY <3>3, <3>4
    <3> QED BY <1>0, <3>1, <3>4, <3>5
  <2>3. k \in Slots(queue) /\ InSlot(queue, k) = msg
    <3>1. k \in 1 .. Len(list) /\ list[k].name = msg.name
      BY <1>0 DEF Waiting
    <3>2. list[k] = msg
      BY <1>0, <3>1 DEF OneMessageAName
    <3> QED BY <1>0, <3>1, <3>2 DEF Slots, InSlot
  <2>4. ASSUME NEW j \in Slots(queue), j > k, InSlot(queue, j) = other
        PROVE  FALSE
    <3>1. k \in 1 .. Len(list)
      BY <1>0 DEF Waiting
    <3>2. j \in 1 .. Len(list) /\ list[j] = other
      BY <1>0, <2>4, <3>1 DEF Slots, InSlot
    <3>3. slots \in SUBSET (1 .. Len(list))
      BY <1>0 DEF Waiting
    <3>4. \A l \in slots : j > l
      BY <2>2, <2>4, <3>1, <3>2, <3>3
    <3>5. j \in after
      BY <1>0, <3>2, <3>4
    <3> QED BY <2>1, <3>2, <3>5
  <2> QED BY <1>3, <2>3, <2>4 DEF LastOf
<1>4. WaitsOnlyBehind(queue)
  BY DEF Kept
<1> QED BY <1>1, <1>2, <1>3, ArriveSlots

\* When a handler returns, every message moves up one slot.
LEMMA FinishSlots ==
  ASSUME NEW M, NEW queue \in Queues(M)
  PROVE  \/ /\ queue.pending = <<>>
            /\ Slots(Finish(queue)) = {0}
            /\ InSlot(Finish(queue), 0) = Nobody
         \/ /\ Slots(Finish(queue)) = {i \in Int : i + 1 \in Slots(queue) /\ i >= 0}
            /\ \A i \in Slots(Finish(queue)) :
                 InSlot(Finish(queue), i) = InSlot(queue, i + 1)
<1> DEFINE list == queue.pending
<1> PICK new : new = Finish(queue)
  OBVIOUS
<1>0. list \in Seq(M) /\ Len(list) \in Nat
  BY DEF Queues
<1>1. CASE list = <<>>
  <2>1. new = [queue EXCEPT !.attending = Nobody]
    BY <1>1 DEF Finish
  <2>2. new.attending = Nobody /\ new.pending = <<>>
    BY <1>1, <2>1 DEF Queues
  <2>3. Slots(new) = {0} /\ InSlot(new, 0) = Nobody
    BY <2>2 DEF Slots, InSlot
  <2> QED BY <1>1, <2>3
<1>2. CASE list # <<>>
  <2> DEFINE rest == Tail(list)
  <2>1. /\ Len(rest) = Len(list) - 1
        /\ \A i \in 1 .. Len(rest) : rest[i] = list[i + 1]
        /\ Head(list) = list[1] /\ Len(list) >= 1
    BY <1>0, <1>2, HeadTailProperties
  <2>2. new.attending = Head(list) /\ new.pending = rest
    BY <1>2 DEF Finish
  <2> HIDE DEF rest, list
  <2>3. Slots(new) = {i \in Int : i + 1 \in Slots(queue) /\ i >= 0}
    BY <1>0, <2>1, <2>2 DEF Slots, list
  <2>4. ASSUME NEW i \in Slots(new) PROVE InSlot(new, i) = InSlot(queue, i + 1)
    <3>1. i = 0 \/ i \in 1 .. Len(rest)
      BY <1>0, <2>1, <2>2 DEF Slots
    <3>2. CASE i = 0
      BY <2>1, <2>2, <3>2 DEF InSlot, list
    <3>3. CASE i \in 1 .. Len(rest)
      BY <1>0, <2>1, <2>2, <3>3 DEF InSlot, list
    <3> QED BY <3>1, <3>2, <3>3
  <2> QED BY <2>3, <2>4
<1> QED BY <1>1, <1>2

LEMMA FinishAbsent ==
  ASSUME NEW M, NEW queue \in Queues(M), NEW other, other # Nobody, Absent(queue, other)
  PROVE  Absent(Finish(queue), other)
BY FinishSlots DEF Absent

\* The last of one name is still the last, unless it was the one that was handled.
LEMMA FinishLast ==
  ASSUME NEW M, NEW queue \in Queues(M), NEW first, NEW other, other # Nobody,
         LastOf(queue, first, other)
  PROVE  \/ LastOf(Finish(queue), first, other)
         \/ queue.attending = first /\ Absent(Finish(queue), other)
<1> PICK new : new = Finish(queue)
  OBVIOUS
<1> PICK i \in Slots(queue) :
      /\ InSlot(queue, i) = first
      /\ \A j \in Slots(queue) : j > i => InSlot(queue, j) # other
  BY DEF LastOf
<1>0. Slots(queue) \subseteq Nat /\ queue.pending \in Seq(M)
  BY DEF Slots, Queues
<1>1. CASE i = 0
  <2>1. queue.attending = first
    BY <1>1 DEF InSlot
  <2>2. ASSUME NEW j \in Slots(new) PROVE InSlot(new, j) # other
    BY <1>0, <1>1, FinishSlots
  <2> QED BY <2>1, <2>2 DEF Absent
<1>2. CASE i # 0
  <2>1. queue.pending # <<>>
    BY <1>0, <1>2 DEF Slots
  <2>2. /\ Slots(new) = {j \in Int : j + 1 \in Slots(queue) /\ j >= 0}
        /\ \A j \in Slots(new) : InSlot(new, j) = InSlot(queue, j + 1)
    BY <2>1, FinishSlots
  <2>3. i - 1 \in Slots(new) /\ InSlot(new, i - 1) = first
    BY <1>0, <1>2, <2>2
  <2>4. ASSUME NEW j \in Slots(new), j > i - 1 PROVE InSlot(new, j) # other
    BY <1>0, <2>2, <2>4
  <2> QED BY <2>3, <2>4 DEF LastOf
<1> QED BY <1>1, <1>2

-----------------------------------------------------------------------------
(* The messages. *)

\* The messages of the navigator's queue are told apart by their names.
LEMMA NavMessages ==
  /\ OneMessageAName(NavMessage) /\ Nobody \notin NavMessage
  /\ Go # Stop /\ Go # SetGoal /\ Stop # SetGoal
  /\ Go.name = "go" /\ Go # Nobody /\ Stop # Nobody
<1>1. Go.name = "go" /\ Stop.name = "stop" /\ SetGoal.name = "set_goal" /\ Nobody.name = "none"
  BY DEF Go, Stop, SetGoal, Nobody
<1> QED BY <1>1 DEF OneMessageAName, NavMessage

\* So are those of the robot server's.
LEMMA RobotMessages ==
  /\ OneMessageAName(RobotMessage) /\ Nobody \notin RobotMessage
  /\ StopMessage # FollowMessage /\ FollowMessage.name = "follow"
  /\ StopMessage # Nobody /\ FollowMessage # Nobody
<1>1. /\ StopMessage.name = "velocity" /\ FollowMessage.name = "follow"
      /\ Nobody.name = "none"
  BY DEF StopMessage, FollowMessage, Nobody
<1> QED BY <1>1 DEF OneMessageAName, RobotMessage

-----------------------------------------------------------------------------
(* The navigator. *)

NavResult == [nav : NavState, out : {<<>>, <<StopMessage>>, <<FollowMessage>>}]

\* Planning keeps the navigator's intention.
LEMMA PlanType ==
  ASSUME NEW n \in NavState, NEW reach \in Reaches
  PROVE  Plan(n, reach) \in NavState /\ Plan(n, reach).autonomous = n.autonomous
<1> PICK s : s = [n EXCEPT !.current = TRUE, !.recent = TRUE,
                           !.accessible = (reach = "goal"),
                           !.havePlan = (reach # "nowhere")]
  OBVIOUS
<1>1. s \in NavState
  BY DEF NavState
<1>2. s.autonomous = n.autonomous
  BY DEF NavState
<1> QED BY <1>1, <1>2 DEF Plan

\* A motion command is published whatever the way; an arrival ends the motion.
LEMMA MotionCommandType ==
  ASSUME NEW n \in NavState, NEW way \in Ways
  PROVE  MotionCommand(n, way) \in NavResult
<1>1. [n EXCEPT !.autonomous = FALSE] \in NavState
  BY DEF NavState
<1> QED BY <1>1 DEF MotionCommand, Ways, NavResult

LEMMA GoType ==
  ASSUME NEW n \in NavState, NEW way \in Ways
  PROVE  GoHandler(n, way) \in NavResult
<1>1. [n EXCEPT !.autonomous = TRUE] \in NavState
  BY DEF NavState
<1> QED BY <1>1, MotionCommandType DEF GoHandler

\* A stop ends the motion and is passed on.
LEMMA StopHandlerType ==
  ASSUME NEW n \in NavState
  PROVE  /\ StopHandler(n) \in NavResult
         /\ ~StopHandler(n).nav.autonomous
         /\ StopHandler(n).out = <<StopMessage>>
<1> PICK s : s = [n EXCEPT !.autonomous = FALSE]
  OBVIOUS
<1>1. s \in NavState /\ ~s.autonomous
  BY DEF NavState
<1>2. StopHandler(n) = [nav |-> s, out |-> <<StopMessage>>]
  BY DEF StopHandler
<1>3. StopHandler(n).nav = s /\ StopHandler(n).out = <<StopMessage>>
  BY <1>2
<1>4. StopHandler(n) \in NavResult
  BY <1>1, <1>2 DEF NavResult
<1> QED BY <1>1, <1>3, <1>4

\* A goal, or a laser scan, changes the plan but not the intention.
LEMMA GoalType ==
  ASSUME NEW n \in NavState, NEW another \in BOOLEAN, NEW reach \in Reaches
  PROVE  /\ GoalHandler(n, another, reach) \in NavResult
         /\ GoalHandler(n, another, reach).nav.autonomous = n.autonomous
         /\ GoalHandler(n, another, reach).out = <<>>
<1> PICK s : s = [n EXCEPT !.goalSet = TRUE, !.current = n.current /\ ~another]
  OBVIOUS
<1>1. s \in NavState
  BY DEF NavState
<1>2. s.autonomous = n.autonomous
  BY DEF NavState
<1>3. GoalHandler(n, another, reach) = [nav |-> Plan(s, reach), out |-> <<>>]
  BY DEF GoalHandler, Silent
<1>4. /\ GoalHandler(n, another, reach).nav = Plan(s, reach)
      /\ GoalHandler(n, another, reach).out = <<>>
  BY <1>3
<1>5. Plan(s, reach) \in NavState /\ Plan(s, reach).autonomous = n.autonomous
  BY <1>1, <1>2, PlanType
<1>6. GoalHandler(n, another, reach) \in NavResult
  BY <1>3, <1>5 DEF NavResult
<1> QED BY <1>4, <1>5, <1>6

LEMMA LaserType ==
  ASSUME NEW n \in NavState, NEW isFront \in BOOLEAN, NEW reach \in Reaches
  PROVE  /\ LaserHandler(n, isFront, reach) \in NavResult
         /\ LaserHandler(n, isFront, reach).nav.autonomous = n.autonomous
         /\ LaserHandler(n, isFront, reach).out = <<>>
<1>1. LaserHandler(n, isFront, reach) \in
        {[nav |-> Plan(n, reach), out |-> <<>>], [nav |-> n, out |-> <<>>]}
  BY DEF LaserHandler, Silent
<1> QED BY <1>1, PlanType DEF NavResult

-----------------------------------------------------------------------------
(* The robot server. *)

\* The velocity command that a stop is ends the following.
LEMMA RobotStops ==
  ASSUME NEW r \in RobotState, NEW heading \in Headings
  PROVE  ~Handle(r, StopMessage, heading).robot.following
<1> PICK u : u = [Unfollow(r) EXCEPT !.tv = StopMessage.tv, !.rv = StopMessage.rv]
  OBVIOUS
<1>1. ~u.following
  BY DEF Unfollow, RobotState
<1>2. Handle(r, StopMessage, heading).robot = [u EXCEPT !.tv = LimitedTv(u)]
  BY DEF Handle, StopMessage, VelocityHandler, SendBaseVelocity
<1>3. u.following = [u EXCEPT !.tv = LimitedTv(u)].following
  BY UnfollowType DEF RobotState
<1> QED BY <1>1, <1>2, <1>3

\* A round of the main loop never begins to follow.
LEMMA RunFollowsOn ==
  ASSUME NEW r \in RobotState, NEW heading \in Headings, ~r.following
  PROVE  ~RobotRun(r, heading).robot.following
<1> PICK u : u = [Unfollow(r) EXCEPT !.tv = 0, !.rv = 0]
  OBVIOUS
<1>1. ~u.following
  BY DEF Unfollow, RobotState
<1>2. StopRobot(r, FALSE).robot = [u EXCEPT !.tv = LimitedTv(u)]
  BY DEF StopRobot, SendBaseVelocity
<1>3. u.following = [u EXCEPT !.tv = LimitedTv(u)].following
  BY UnfollowType DEF RobotState
<1>4. RobotRun(r, heading).robot \in {StopRobot(r, FALSE).robot, r}
  BY DEF RobotRun, Quiet
<1> QED BY <1>1, <1>2, <1>3, <1>4

-----------------------------------------------------------------------------
(* The inductive invariant. *)

\* Nothing is left of a process that has gone.
GoneInv ==
  /\ ~navUp => navQueue = IdleQueue
  /\ ~robotUp => robotQueue = IdleQueue /\ ~robot.following

\* Where a stop that was the users' last word has got to.
StopInRobot ==
  \/ LastOf(robotQueue, StopMessage, FollowMessage)
  \/ ~robot.following /\ Absent(robotQueue, FollowMessage)

StopInv ==
  lastStop = "kept" =>
    \/ LastOf(navQueue, Stop, Go)
    \/ ~nav.autonomous /\ Absent(navQueue, Go) /\ StopInRobot

MotionIInv ==
  /\ nav \in NavState /\ robot \in RobotState
  /\ navUp \in BOOLEAN /\ robotUp \in BOOLEAN
  /\ lastStop \in {"none", "kept", "overtook", "lost"}
  /\ navQueue \in Queues(NavMessage) /\ Kept(navQueue)
  /\ robotQueue \in Queues(RobotMessage) /\ Kept(robotQueue)
  /\ GoneInv
  /\ StopInv

\* A queue in which nothing has arrived.
LEMMA IdleKept ==
  ASSUME NEW M
  PROVE  IdleQueue \in Queues(M) /\ Kept(IdleQueue)
BY DEF IdleQueue, Queues, Kept, WithinLimit, WaitsOnlyBehind

\* A robot server with nothing in its way is in one of its states, and at rest.
LEMMA ReadyType == RobotReady \in RobotState /\ ~RobotReady.following
<1> PICK s : s = [RobotStart EXCEPT !.front = MaxTv]
  OBVIOUS
<1>1. ~s.following
  BY DEF RobotStart
<1>2. s \in RobotState
  BY StartType, RobotAssumption DEF RobotState
<1> QED BY <1>1, <1>2 DEF RobotReady

LEMMA MotionInit == Init => MotionIInv
<1> SUFFICES ASSUME Init PROVE MotionIInv
  OBVIOUS
<1>1. nav \in NavState
  BY DEF Init, NavStart, NavState
<1>2. robot \in RobotState
  BY ReadyType DEF Init
<1>3. navQueue = IdleQueue /\ robotQueue = IdleQueue /\ lastStop = "none"
  BY DEF Init
<1>4. GoneInv /\ StopInv /\ navUp \in BOOLEAN /\ robotUp \in BOOLEAN
  BY DEF Init, GoneInv, StopInv
<1> QED BY <1>1, <1>2, <1>3, <1>4, IdleKept DEF MotionIInv

-----------------------------------------------------------------------------
(* The users. *)

\* What users send leaves everything but the navigator's queue as it is.
LEMMA UserStep ==
  ASSUME MotionIInv, UNCHANGED <<nav, navUp, robot, robotUp, robotQueue>>,
         navQueue' \in Queues(NavMessage), Kept(navQueue)',
         ~navUp => navQueue' = navQueue,
         lastStop' \in {"none", "kept", "overtook", "lost"}, StopInv'
  PROVE  MotionIInv'
<1>1. GoneInv'
  BY DEF MotionIInv, GoneInv
<1> QED BY <1>1 DEF MotionIInv

LEMMA ToNavKept ==
  ASSUME NEW queue \in Queues(NavMessage), Kept(queue), NEW msg \in NavMessage
  PROVE  ToNav(queue, msg) \in Queues(NavMessage) /\ Kept(ToNav(queue, msg))
BY ArriveKept, NavMessages DEF ToNav

LEMMA UsersKeep ==
  ASSUME MotionIInv, UserGoes \/ UserStops \/ UserSetsGoal \/ MissionNavigates
  PROVE  MotionIInv'
<1>0. /\ navQueue \in Queues(NavMessage) /\ Kept(navQueue)
      /\ Go \in NavMessage /\ Stop \in NavMessage /\ SetGoal \in NavMessage
  BY DEF MotionIInv, NavMessage
<1>1. CASE UserGoes
  <2>1. navQueue' \in Queues(NavMessage) /\ Kept(navQueue)'
    BY <1>0, <1>1, ToNavKept DEF UserGoes, Kept, WithinLimit, WaitsOnlyBehind
  <2>2. StopInv'
    BY <1>1 DEF UserGoes, StopInv
  <2>3. ~navUp => navQueue' = navQueue
    BY <1>1 DEF UserGoes, ToNav
  <2> QED BY <1>1, <2>1, <2>2, <2>3, UserStep DEF UserGoes
<1>2. CASE UserStops
  <2>1. navQueue' \in Queues(NavMessage) /\ Kept(navQueue)'
    BY <1>0, <1>2, ToNavKept DEF UserStops, Kept, WithinLimit, WaitsOnlyBehind
  <2>2. ~navUp => navQueue' = navQueue
    BY <1>2 DEF UserStops, ToNav
  <2>3. lastStop' \in {"none", "kept", "overtook", "lost"}
    BY <1>2 DEF UserStops
  <2>4. ASSUME lastStop' = "kept" PROVE LastOf(navQueue, Stop, Go)'
    <3>1. navUp /\ "go" \notin Overtaken(navQueue, Stop)
      BY <1>2, <2>4 DEF UserStops
    <3>2. navQueue' = Arrive(navQueue, Stop)
      BY <1>2, <3>1 DEF UserStops, ToNav
    <3>3. LastOf(Arrive(navQueue, Stop), Stop, Go)
      BY <1>0, <3>1, NavMessages, ArriveNew
    <3> QED BY <3>2, <3>3 DEF LastOf, Slots, InSlot, Stop, Go
  <2>5. StopInv'
    BY <2>4 DEF StopInv
  <2> QED BY <1>2, <2>1, <2>2, <2>3, <2>5, UserStep DEF UserStops
<1>3. CASE UserSetsGoal
  <2>1. navQueue' \in Queues(NavMessage) /\ Kept(navQueue)'
    BY <1>0, <1>3, ToNavKept DEF UserSetsGoal, Kept, WithinLimit, WaitsOnlyBehind
  <2>2. ~navUp => navQueue' = navQueue
    BY <1>3 DEF UserSetsGoal, ToNav
  <2>3. lastStop' \in {"none", "kept", "overtook", "lost"}
    BY <1>3 DEF UserSetsGoal, MotionIInv
  <2>4. navQueue' \in {navQueue, Arrive(navQueue, SetGoal)}
    BY <1>3 DEF UserSetsGoal, ToNav
  <2>5. LastOf(navQueue, Stop, Go) => LastOf(navQueue', Stop, Go)
    BY <1>0, <2>4, NavMessages, ArriveLast
  <2>6. Absent(navQueue, Go) => Absent(navQueue', Go)
    BY <1>0, <2>4, NavMessages, ArriveAbsent
  <2>7. /\ lastStop' = lastStop /\ nav' = nav
        /\ StopInRobot' <=> StopInRobot
    BY <1>3 DEF UserSetsGoal, StopInRobot, LastOf, Absent, Slots, InSlot
  <2>8. StopInv'
    BY <2>5, <2>6, <2>7
       DEF MotionIInv, StopInv, LastOf, Absent, Slots, InSlot, Stop, Go
  <2> QED BY <1>3, <2>1, <2>2, <2>3, <2>8, UserStep DEF UserSetsGoal
<1>4. CASE MissionNavigates
  <2>1. navQueue' \in Queues(NavMessage) /\ Kept(navQueue)'
    BY <1>0, <1>4, ToNavKept DEF MissionNavigates, Kept, WithinLimit, WaitsOnlyBehind
  <2>2. StopInv'
    BY <1>4 DEF MissionNavigates, StopInv
  <2>3. ~navUp => navQueue' = navQueue
    BY <1>4 DEF MissionNavigates, ToNav
  <2> QED BY <1>4, <2>1, <2>2, <2>3, UserStep DEF MissionNavigates
<1> QED BY <1>1, <1>2, <1>3, <1>4

-----------------------------------------------------------------------------
(* The navigator. *)

\* What a handler of the navigator publishes arrives at the robot server, if that
\* is there; a stop keeps behind every trajectory, unless it overtakes one.
LEMMA PublishesKept ==
  ASSUME MotionIInv, NEW result \in NavResult, Publishes(result)
  PROVE  /\ nav' \in NavState
         /\ robotQueue' \in Queues(RobotMessage) /\ Kept(robotQueue)'
         /\ ~robotUp \/ result.out = <<>> => robotQueue' = robotQueue
         /\ robotUp /\ result.out # <<>>
              => robotQueue' = Arrive(robotQueue, result.out[1])
<1>0. robotQueue \in Queues(RobotMessage) /\ Kept(robotQueue)
  BY DEF MotionIInv
<1>1. nav' \in NavState
  BY DEF Publishes, NavResult
<1>2. CASE ~robotUp \/ result.out = <<>>
  <2>1. robotQueue' = robotQueue
    BY <1>2 DEF Publishes
  <2> QED BY <1>0, <1>1, <1>2, <2>1 DEF Kept, WithinLimit, WaitsOnlyBehind
<1>3. CASE robotUp /\ result.out # <<>>
  <2>1. robotQueue' = Arrive(robotQueue, result.out[1])
    BY <1>3 DEF Publishes
  <2>2. result.out[1] \in RobotMessage
    BY <1>3 DEF NavResult, RobotMessage
  <2>3. Arrive(robotQueue, result.out[1]) \in Queues(RobotMessage)
          /\ Kept(Arrive(robotQueue, result.out[1]))
    BY <1>0, <2>2, RobotMessages, ArriveKept
  <2> QED BY <1>1, <1>3, <2>1, <2>3 DEF Kept, WithinLimit, WaitsOnlyBehind
<1> QED BY <1>2, <1>3

LEMMA NavStep ==
  ASSUME MotionIInv, NEW result \in NavResult, Publishes(result),
         UNCHANGED <<navUp, robot, robotUp>>,
         navQueue' \in Queues(NavMessage), Kept(navQueue)',
         ~navUp => navQueue' = navQueue,
         lastStop' \in {"none", "kept", "overtook", "lost"}, StopInv'
  PROVE  MotionIInv'
<1>1. /\ nav' \in NavState
      /\ robotQueue' \in Queues(RobotMessage) /\ Kept(robotQueue)'
      /\ ~robotUp => robotQueue' = robotQueue
  BY PublishesKept
<1>2. GoneInv'
  BY <1>1 DEF MotionIInv, GoneInv
<1> QED BY <1>1, <1>2 DEF MotionIInv

\* A stop that is passed on without overtaking a trajectory is the last word there.
LEMMA StopPassedOn ==
  ASSUME MotionIInv, Publishes(StopHandler(nav)), UNCHANGED <<robot, robotUp>>,
         "follow" \notin Overtaken(robotQueue, StopMessage)
  PROVE  ~nav'.autonomous /\ StopInRobot'
<1>1. nav \in NavState /\ robotQueue \in Queues(RobotMessage) /\ Kept(robotQueue)
  BY DEF MotionIInv
<1>2. /\ StopHandler(nav) \in NavResult
      /\ ~StopHandler(nav).nav.autonomous
      /\ StopHandler(nav).out = <<StopMessage>>
  BY <1>1, StopHandlerType
<1>3. ~nav'.autonomous
  BY <1>2 DEF Publishes
<1>4. CASE robotUp
  <2>1. robotQueue' = Arrive(robotQueue, StopMessage)
    BY <1>2, <1>4, PublishesKept
  <2>2. StopMessage \in RobotMessage /\ FollowMessage \in RobotMessage
    BY DEF RobotMessage
  <2>3. LastOf(robotQueue', StopMessage, FollowMessage)
    BY <1>1, <2>1, <2>2, RobotMessages, ArriveNew
  <2> QED BY <1>3, <2>3 DEF StopInRobot, LastOf, Slots, InSlot
<1>5. CASE ~robotUp
  <2>1. robotQueue = IdleQueue /\ ~robot.following
    BY <1>5 DEF MotionIInv, GoneInv
  <2>2. robotQueue' = IdleQueue /\ ~robot'.following
    BY <1>2, <1>5, <2>1, PublishesKept
  <2>3. Absent(robotQueue', FollowMessage)
    BY <2>2, RobotMessages, IdleAbsent
  <2> QED BY <1>3, <2>2, <2>3 DEF StopInRobot, Absent, Slots, InSlot
<1> QED BY <1>4, <1>5

LEMMA NavHandlesKeeps ==
  ASSUME MotionIInv, NavHandles
  PROVE  MotionIInv'
<1>0. /\ navQueue \in Queues(NavMessage) /\ Kept(navQueue)
      /\ nav \in NavState /\ navQueue.attending # Nobody
      /\ navQueue.attending \in {Go, Stop, SetGoal}
      /\ navQueue' = Finish(navQueue)
      /\ UNCHANGED <<navUp, robot, robotUp>>
  BY DEF MotionIInv, NavHandles, Queues, NavMessage
<1>1. navQueue' \in Queues(NavMessage) /\ Kept(navQueue)'
  <2>1. Finish(navQueue) \in Queues(NavMessage) /\ Kept(Finish(navQueue))
    BY <1>0, NavMessages, FinishKept
  <2> QED BY <1>0, <2>1 DEF Kept, WithinLimit, WaitsOnlyBehind
<1>2. navUp
  BY <1>0 DEF MotionIInv, GoneInv, IdleQueue
<1>3. /\ lastStop' \in {"none", "kept", "overtook", "lost"}
      /\ lastStop' = "kept" => lastStop = "kept"
      /\ lastStop' = "kept" /\ navQueue.attending = Stop
           => "follow" \notin Overtaken(robotQueue, StopMessage)
  BY DEF NavHandles, MotionIInv
<1>4. LastOf(navQueue, Stop, Go)
        => \/ LastOf(navQueue, Stop, Go)'
           \/ navQueue.attending = Stop /\ Absent(navQueue, Go)'
  <2>1. LastOf(navQueue, Stop, Go)
          => \/ LastOf(Finish(navQueue), Stop, Go)
             \/ navQueue.attending = Stop /\ Absent(Finish(navQueue), Go)
    BY <1>0, NavMessages, FinishLast
  <2> QED BY <1>0, <2>1 DEF LastOf, Absent, Slots, InSlot, Stop, Go
<1>5. Absent(navQueue, Go) => navQueue.attending # Go /\ Absent(navQueue, Go)'
  <2>1. Absent(navQueue, Go) => Absent(Finish(navQueue), Go)
    BY <1>0, NavMessages, FinishAbsent
  <2>2. 0 \in Slots(navQueue) /\ InSlot(navQueue, 0) = navQueue.attending
    BY <1>0 DEF Slots, InSlot, Queues
  <2> QED BY <1>0, <2>1, <2>2 DEF Absent, Slots, InSlot, Go
<1>6. CASE navQueue.attending = Go
  <2> PICK way \in WaysOf(nav) : Publishes(GoHandler(nav, way))
    BY <1>6, NavMessages DEF NavHandles
  <2>1. GoHandler(nav, way) \in NavResult
    BY <1>0, GoType DEF WaysOf, Ways
  <2>2. StopInv'
    BY <1>3, <1>4, <1>5, <1>6, NavMessages DEF MotionIInv, StopInv
  <2> QED BY <1>0, <1>1, <1>2, <1>3, <2>1, <2>2, NavStep
<1>7. CASE navQueue.attending = Stop
  <2>1. Publishes(StopHandler(nav))
    BY <1>7, NavMessages DEF NavHandles
  <2>2. StopHandler(nav) \in NavResult
    BY <1>0, StopHandlerType
  <2>3. ASSUME lastStop' = "kept" PROVE ~nav'.autonomous /\ StopInRobot'
    BY <1>0, <1>3, <1>7, <2>1, <2>3, StopPassedOn
  <2>4. StopInv'
    BY <1>3, <1>4, <1>5, <2>3 DEF MotionIInv, StopInv
  <2> QED BY <1>0, <1>1, <1>2, <1>3, <2>2, <2>4, <2>1, NavStep
<1>8. CASE navQueue.attending = SetGoal
  <2> PICK another \in BOOLEAN, reach \in Reaches : Publishes(GoalHandler(nav, another, reach))
    BY <1>8, NavMessages DEF NavHandles
  <2>1. /\ GoalHandler(nav, another, reach) \in NavResult
        /\ GoalHandler(nav, another, reach).nav.autonomous = nav.autonomous
        /\ GoalHandler(nav, another, reach).out = <<>>
    BY <1>0, GoalType
  <2>2. nav'.autonomous = nav.autonomous /\ robotQueue' = robotQueue
    BY <2>1 DEF Publishes
  <2>3. StopInRobot => StopInRobot'
    BY <1>0, <2>2 DEF StopInRobot, LastOf, Absent, Slots, InSlot
  <2>4. StopInv'
    BY <1>3, <1>4, <1>5, <1>8, <2>2, <2>3, NavMessages DEF MotionIInv, StopInv
  <2> QED BY <1>0, <1>1, <1>2, <1>3, <2>1, <2>4, NavStep
<1> QED BY <1>0, <1>6, <1>7, <1>8

LEMMA NavHearsKeeps ==
  ASSUME MotionIInv, NavHearsPosition \/ NavHearsLaser
  PROVE  MotionIInv'
<1>0. /\ navQueue \in Queues(NavMessage) /\ Kept(navQueue) /\ nav \in NavState
      /\ UNCHANGED <<navUp, navQueue, robot, robotUp, lastStop>>
      /\ lastStop \in {"none", "kept", "overtook", "lost"}
  BY DEF MotionIInv, NavHearsPosition, NavHearsLaser
<1>1. navQueue' \in Queues(NavMessage) /\ Kept(navQueue)'
  BY <1>0 DEF Kept, WithinLimit, WaitsOnlyBehind
<1>2. /\ LastOf(navQueue, Stop, Go) => LastOf(navQueue, Stop, Go)'
      /\ Absent(navQueue, Go) => Absent(navQueue, Go)'
  BY <1>0 DEF LastOf, Absent, Slots, InSlot, Stop, Go
<1>3. CASE NavHearsPosition
  <2> PICK way \in WaysOf(nav) : Publishes(PositionHandler(nav, way))
    BY <1>3 DEF NavHearsPosition
  <2>1. nav.autonomous
    BY <1>3 DEF NavHearsPosition
  <2>2. PositionHandler(nav, way) \in NavResult
    BY <1>0, <2>1, MotionCommandType DEF PositionHandler, WaysOf, Ways
  <2>3. StopInv'
    BY <1>0, <1>2, <2>1 DEF MotionIInv, StopInv
  <2> QED BY <1>0, <1>1, <2>2, <2>3, NavStep
<1>4. CASE NavHearsLaser
  <2> PICK isFront \in BOOLEAN, reach \in Reaches : Publishes(LaserHandler(nav, isFront, reach))
    BY <1>4 DEF NavHearsLaser
  <2>1. /\ LaserHandler(nav, isFront, reach) \in NavResult
        /\ LaserHandler(nav, isFront, reach).nav.autonomous = nav.autonomous
        /\ LaserHandler(nav, isFront, reach).out = <<>>
    BY <1>0, LaserType
  <2>2. nav'.autonomous = nav.autonomous /\ robotQueue' = robotQueue
    BY <2>1 DEF Publishes
  <2>3. StopInRobot => StopInRobot'
    BY <1>0, <2>2 DEF StopInRobot, LastOf, Absent, Slots, InSlot
  <2>4. StopInv'
    BY <1>0, <1>2, <2>2, <2>3 DEF MotionIInv, StopInv
  <2> QED BY <1>0, <1>1, <2>1, <2>4, NavStep
<1> QED BY <1>3, <1>4

\* The rest of what happens to the navigator.
LEMMA NavLifeKeeps ==
  ASSUME MotionIInv, TimePasses \/ NavEnds \/ NavStarts
  PROVE  MotionIInv'
<1>0. /\ UNCHANGED <<robot, robotUp, robotQueue>>
      /\ robotQueue' \in Queues(RobotMessage) /\ Kept(robotQueue)'
      /\ nav \in NavState /\ lastStop \in {"none", "kept", "overtook", "lost"}
  BY DEF MotionIInv, TimePasses, NavEnds, NavStarts, Kept, WithinLimit, WaitsOnlyBehind
<1>1. StopInRobot => StopInRobot'
  BY <1>0 DEF StopInRobot, LastOf, Absent, Slots, InSlot
<1>2. CASE TimePasses \/ NavStarts
  <2>1. nav' \in NavState /\ nav'.autonomous = nav.autonomous
    <3>1. CASE TimePasses
      <4> PICK s : s = [nav EXCEPT !.recent = FALSE]
        OBVIOUS
      <4>1. s \in NavState /\ s.autonomous = nav.autonomous
        BY <1>0 DEF NavState
      <4> QED BY <3>1, <4>1 DEF TimePasses, PlanAges
    <3>2. CASE NavStarts
      BY <1>0, <3>2 DEF NavStarts
    <3> QED BY <1>2, <3>1, <3>2
  <2>2. UNCHANGED <<navQueue, lastStop>> /\ (navUp => navUp') /\ navUp' \in BOOLEAN
    BY <1>2 DEF TimePasses, NavStarts, MotionIInv
  <2>3. /\ LastOf(navQueue, Stop, Go) => LastOf(navQueue, Stop, Go)'
        /\ Absent(navQueue, Go) => Absent(navQueue, Go)'
        /\ Kept(navQueue)'
    BY <2>2 DEF MotionIInv, LastOf, Absent, Slots, InSlot, Stop, Go,
                Kept, WithinLimit, WaitsOnlyBehind
  <2>4. StopInv' /\ GoneInv'
    BY <1>0, <1>1, <2>1, <2>2, <2>3 DEF MotionIInv, StopInv, GoneInv
  <2> QED BY <1>0, <2>1, <2>2, <2>3, <2>4 DEF MotionIInv
<1>3. CASE NavEnds
  <2>1. nav' \in NavState
    BY <1>3 DEF NavEnds, NavStart, NavState
  <2>2. navQueue' = IdleQueue /\ lastStop' \in {"none", "lost"} /\ navUp' = FALSE
    BY <1>3 DEF NavEnds
  <2>3. navQueue' \in Queues(NavMessage) /\ Kept(navQueue)'
    BY <2>2, IdleKept DEF Kept, WithinLimit, WaitsOnlyBehind
  <2>4. StopInv' /\ GoneInv'
    BY <1>0, <2>2 DEF MotionIInv, StopInv, GoneInv
  <2> QED BY <1>0, <2>1, <2>2, <2>3, <2>4 DEF MotionIInv
<1> QED BY <1>2, <1>3

-----------------------------------------------------------------------------
(* The robot server. *)

\* What the robot server does leaves the navigator as it is.
LEMMA RobotStep ==
  ASSUME MotionIInv, UNCHANGED <<nav, navUp, navQueue, lastStop>>,
         robot' \in RobotState, robotUp' \in BOOLEAN,
         robotQueue' \in Queues(RobotMessage), Kept(robotQueue'),
         ~robotUp' => robotQueue' = IdleQueue /\ ~robot'.following,
         StopInRobot => StopInRobot'
  PROVE  MotionIInv'
<1>1. Kept(navQueue)' /\ Kept(robotQueue)'
  BY DEF MotionIInv, Kept, WithinLimit, WaitsOnlyBehind
<1>2. StopInv'
  BY DEF MotionIInv, StopInv, LastOf, Absent, Slots, InSlot, Stop, Go
<1>3. GoneInv'
  BY DEF MotionIInv, GoneInv
<1> QED BY <1>1, <1>2, <1>3 DEF MotionIInv

LEMMA RobotKeeps ==
  ASSUME MotionIInv, RobotHandles \/ RobotRound \/ RobotEnds \/ RobotStarts
  PROVE  MotionIInv'
<1>0. /\ robot \in RobotState /\ robotUp \in BOOLEAN
      /\ robotQueue \in Queues(RobotMessage) /\ Kept(robotQueue)
      /\ UNCHANGED <<nav, navUp, navQueue, lastStop>>
      /\ ~robotUp => robotQueue = IdleQueue /\ ~robot.following
  BY DEF MotionIInv, GoneInv, RobotHandles, RobotRound, RobotEnds, RobotStarts
<1>1. CASE RobotHandles
  <2>0. /\ robotQueue.attending # Nobody
        /\ robotQueue.attending \in {StopMessage, FollowMessage}
        /\ robotQueue' = Finish(robotQueue) /\ robotUp' = robotUp
    BY <1>0, <1>1 DEF RobotHandles, Queues, RobotMessage
  <2>1. robotUp
    BY <1>0, <2>0 DEF IdleQueue
  <2> PICK heading \in Headings, msg \in Received(robotQueue.attending) :
        robot' = Handle(robot, msg, heading).robot
    BY <1>1 DEF RobotHandles
  <2>2. msg \in Message
    <3>1. StopMessage \in Message
      BY DEF StopMessage, Message
    <3> QED BY <2>0, <3>1, MotionAssumption DEF Received
  <2>3. robot' \in RobotState
    BY <1>0, <2>2, HandleType DEF Result
  <2>4. Finish(robotQueue) \in Queues(RobotMessage) /\ Kept(Finish(robotQueue))
    BY <1>0, RobotMessages, FinishKept
  <2>5. robotQueue.attending = StopMessage => ~robot'.following
    BY <1>0, RobotMessages, RobotStops DEF Received
  <2>6. LastOf(robotQueue, StopMessage, FollowMessage)
          => \/ LastOf(robotQueue', StopMessage, FollowMessage)
             \/ robotQueue.attending = StopMessage /\ Absent(robotQueue', FollowMessage)
    BY <1>0, <2>0, RobotMessages, FinishLast
  <2>7. Absent(robotQueue, FollowMessage)
          => robotQueue.attending = StopMessage /\ Absent(robotQueue', FollowMessage)
    <3>1. Absent(robotQueue, FollowMessage) => Absent(robotQueue', FollowMessage)
      BY <1>0, <2>0, RobotMessages, FinishAbsent
    <3>2. 0 \in Slots(robotQueue) /\ InSlot(robotQueue, 0) = robotQueue.attending
      BY <1>0 DEF Slots, InSlot, Queues
    <3> QED BY <2>0, <3>1, <3>2 DEF Absent
  <2>8. StopInRobot => StopInRobot'
    <3>1. StopInRobot => \/ LastOf(robotQueue', StopMessage, FollowMessage)
                         \/ ~robot'.following /\ Absent(robotQueue', FollowMessage)
      BY <2>5, <2>6, <2>7 DEF StopInRobot
    <3> QED BY <3>1 DEF StopInRobot, LastOf, Absent, Slots, InSlot
  <2> QED BY <1>0, <2>0, <2>1, <2>3, <2>4, <2>8, RobotStep
<1>2. CASE RobotRound
  <2> PICK heading \in Headings : robot' = RobotRun(robot, heading).robot
    BY <1>2 DEF RobotRound
  <2>1. robotQueue' = robotQueue /\ robotUp' = robotUp /\ robotUp
    BY <1>2 DEF RobotRound
  <2>2. robot' \in RobotState
    BY <1>0, RunType DEF Result
  <2>3. ~robot.following => ~robot'.following
    BY <1>0, RunFollowsOn
  <2>4. StopInRobot => StopInRobot'
    BY <2>1, <2>3 DEF StopInRobot, LastOf, Absent, Slots, InSlot
  <2> QED BY <1>0, <2>1, <2>2, <2>4, RobotStep
<1>3. CASE RobotEnds
  <2>1. robotQueue' = IdleQueue /\ robotUp' = FALSE /\ robot' = RobotReady
    BY <1>3 DEF RobotEnds
  <2>2. Absent(IdleQueue, FollowMessage)
    BY RobotMessages, IdleAbsent
  <2>3. StopInRobot'
    <3>1. Absent(robotQueue', FollowMessage) /\ ~robot'.following
      BY <2>1, <2>2, ReadyType
    <3> QED BY <3>1 DEF StopInRobot, Absent, Slots, InSlot
  <2> QED BY <1>0, <2>1, <2>3, ReadyType, IdleKept, RobotStep
<1>4. CASE RobotStarts
  <2>1. UNCHANGED <<robot, robotQueue>> /\ robotUp' = TRUE
    BY <1>4 DEF RobotStarts
  <2>2. StopInRobot => StopInRobot'
    BY <2>1 DEF StopInRobot, LastOf, Absent, Slots, InSlot
  <2> QED BY <1>0, <2>1, <2>2, RobotStep
<1> QED BY <1>1, <1>2, <1>3, <1>4

-----------------------------------------------------------------------------

LEMMA MotionNext == MotionIInv /\ [Next]_vars => MotionIInv'
<1> SUFFICES ASSUME MotionIInv, [Next]_vars PROVE MotionIInv'
  OBVIOUS
<1>1. CASE Next
  BY <1>1, UsersKeep, NavHandlesKeeps, NavHearsKeeps, NavLifeKeeps, RobotKeeps DEF Next
<1>2. CASE UNCHANGED vars
  <2>1. UNCHANGED <<nav, navUp, navQueue, robot, robotUp, robotQueue, lastStop>>
    BY <1>2 DEF vars
  <2>2. Kept(navQueue)' /\ Kept(robotQueue)'
    BY <2>1 DEF MotionIInv, Kept, WithinLimit, WaitsOnlyBehind
  <2>3. GoneInv' /\ (StopInRobot => StopInRobot')
    BY <2>1 DEF MotionIInv, GoneInv, StopInRobot, LastOf, Absent, Slots, InSlot
  <2>4. StopInv'
    BY <2>1, <2>3 DEF MotionIInv, StopInv, LastOf, Absent, Slots, InSlot, Stop, Go
  <2> QED BY <2>1, <2>2, <2>3, <2>4 DEF MotionIInv
<1> QED BY <1>1, <1>2

LEMMA MotionInvariant == Spec => []MotionIInv
BY MotionInit, MotionNext, PTL DEF Spec

\* Both processes and central's queues for them keep to their types.
THEOREM MotionTyped == Spec => []MotionTypeOK
<1>1. ASSUME NEW M, NEW queue \in Queues(M) PROVE QueueTypeOK(queue, M)
  BY DEF Queues, QueueTypeOK
<1>2. MotionIInv => MotionTypeOK
  BY <1>1 DEF MotionIInv, MotionTypeOK
<1> QED BY <1>2, MotionInvariant, PTL

\* Central keeps to the limit of each receiver, and nothing waits for an idle one.
THEOREM CentralKeepsQueues == Spec => []QueuesKept
<1>1. MotionIInv => QueuesKept
  BY DEF MotionIInv, QueuesKept, Kept
<1> QED BY <1>1, MotionInvariant, PTL

\* A stop that was the users' last word, and overtook nothing, has ended the motion
\* in both processes once every message is handled.
THEOREM StopsStick == Spec => []StopSticks
<1>1. ASSUME MotionIInv, Settled, lastStop = "kept" PROVE AtRest
  <2>1. ~LastOf(navQueue, Stop, Go)
    BY <1>1, NavMessages, IdleAbsent DEF Settled
  <2>2. ~LastOf(robotQueue, StopMessage, FollowMessage)
    BY <1>1, RobotMessages, IdleAbsent DEF Settled
  <2> QED BY <1>1, <2>1, <2>2 DEF MotionIInv, StopInv, StopInRobot, AtRest
<1>2. MotionIInv => StopSticks
  BY <1>1 DEF StopSticks
<1> QED BY <1>2, MotionInvariant, PTL
=============================================================================
