-------------------------- MODULE ParamServerProofs --------------------------
(***************************************************************************)
(* Proofs about the parameters, for any modules, parameters, names, values,  *)
(* lists and any limit of central's queue.                                   *)
(*                                                                          *)
(* All changes have one name, so that central's queue of a module loses its  *)
(* oldest when it is full (ReplaceOneName).  Of every name under which the   *)
(* module was told a value, Informed says that the last change on its way    *)
(* tells the daemon's, or if none is, the variable of the first entry or the *)
(* answer it is about to take does.  A change under another name of the same *)
(* parameter takes the name from what was told.                              *)
(*                                                                          *)
(* The refinement of ChangeFeed compares central's queue, element by         *)
(* element, with a line that loses its second (ArriveMaps, FinishMaps), and  *)
(* needs that a module which hears nothing has an empty queue (HeardInv).    *)
(***************************************************************************)
EXTENDS ParamFeed, Sequences, FiniteSetTheorems, SequenceTheorems, TLAPS

\* The last change of p that waits tells v.
LastWaiting(queue, p, v) ==
  \A i \in DOMAIN queue.pending :
    /\ queue.pending[i].param = p
    /\ \A j \in DOMAIN queue.pending : j > i => queue.pending[j].param # p
    => queue.pending[i].value = v

LastWord(queue, p, v) ==
  /\ LastWaiting(queue, p, v)
  /\ p \notin Waits(queue) /\ queue.attending # Nobody /\ queue.attending.param = p
       => queue.attending.value = v

\* The module has v, or takes it up next.
Uses(c, cl, p, v) ==
  /\ p \in cl.known /\ v \in Convertible[p] => cl.copy[p] = v
  /\ cl.reply # NoReply /\ Wanted[c][cl.place].param = p /\ p \notin cl.known
       => cl.reply = v

Informed(c, cl, val) ==
  \A p \in cl.told :
    /\ LastWord(cl.queue, p, val[Joined[p]])
    /\ p \notin Underway(cl.queue) => Uses(c, cl, p, val[Joined[p]])

Sound(c, cl, val) == ClientOK(c, cl) /\ Informed(c, cl, val)

IInv ==
  /\ value \in [Params -> Values \cup {Absent}]
  /\ daemonUp \in BOOLEAN
  /\ client \in [Clients -> ClientState]
  /\ \A c \in Clients : Sound(c, client[c], value)

-----------------------------------------------------------------------------
(* Central's queue of changes. *)

QueueState == [attending : ChangeMessage \cup {Nobody}, pending : Seq(ChangeMessage)]

QueueKept(queue) ==
  queue \in QueueState /\ WaitsOnlyBehind(queue) /\ WithinLimit(queue)

LEMMA ChangeIsNot ==
  ASSUME NEW msg \in ChangeMessage
  PROVE  msg # Nobody /\ msg.name = "change" /\ msg.param \in Names /\ msg.value \in Values
BY DEF ChangeMessage, Nobody

\* All that waits has the one name.
LEMMA WaitingAll ==
  ASSUME NEW list \in Seq(ChangeMessage)
  PROVE  /\ Waiting(list, "change") = 1 .. Len(list)
         /\ Cardinality(Waiting(list, "change")) = Len(list)
<1>1. Waiting(list, "change") = 1 .. Len(list)
  BY ChangeIsNot DEF Waiting
<1>2. \A n \in Nat : Cardinality(1 .. n) = n
  <2>1. ASSUME NEW n \in Nat PROVE Cardinality(1 .. n) = n
    <3>1. Cardinality(1 .. n) = IF 1 > n THEN 0 ELSE n - 1 + 1
      BY FS_Interval
    <3> QED BY <3>1
  <2> QED BY <2>1
<1> QED BY <1>1, <1>2

\* So the limit is one on the length of the list.
LEMMA LimitIsLength ==
  ASSUME NEW queue \in QueueState
  PROVE  WithinLimit(queue) <=> Len(queue.pending) <= QueueLimit
<1> DEFINE list == queue.pending
<1>1. list \in Seq(ChangeMessage) /\ QueueLimit \in Nat \ {0}
  BY QueueLimitAssumption DEF QueueState
<1>2. \A i \in 1 .. Len(list) : list[i].name = "change"
  BY <1>1, ChangeIsNot
<1>3. Cardinality(Waiting(list, "change")) = Len(list)
  BY <1>1, WaitingAll
<1>4. WithinLimit(queue) <=> \A i \in 1 .. Len(list) : Len(list) <= QueueLimit
  BY <1>1, <1>2, <1>3 DEF WithinLimit
<1>5. (\A i \in 1 .. Len(list) : Len(list) <= QueueLimit) <=> Len(list) <= QueueLimit
  <2>1. CASE Len(list) = 0
    BY <1>1, <2>1
  <2>2. CASE Len(list) # 0
    BY <1>1, <2>2
  <2> QED BY <2>1, <2>2
<1> QED BY <1>4, <1>5

\* A replacement loses the oldest, moves the others up and puts the new one last.
LEMMA ReplaceOneName ==
  ASSUME NEW list \in Seq(ChangeMessage), list # <<>>, NEW msg \in ChangeMessage
  PROVE  /\ ReplaceOldest(list, msg) \in Seq(ChangeMessage)
         /\ Len(ReplaceOldest(list, msg)) = Len(list)
         /\ \A i \in 1 .. Len(list) - 1 : ReplaceOldest(list, msg)[i] = list[i + 1]
         /\ ReplaceOldest(list, msg)[Len(list)] = msg
<1> DEFINE new == ReplaceOldest(list, msg)
<1>0. Len(list) \in Nat \ {0} /\ DOMAIN list = 1 .. Len(list)
  OBVIOUS
<1>1. \A i \in 1 .. Len(list) : list[i] \in ChangeMessage /\ list[i].name = msg.name
  BY ChangeIsNot
<1>2. \A i \in 1 .. Len(list) : Behind(list, i) = (i + 1) .. Len(list)
  BY <1>0, <1>1 DEF Behind
<1>3. ASSUME NEW i \in 1 .. Len(list) - 1
      PROVE  Behind(list, i) # {} /\ Nearest(Behind(list, i)) = i + 1
  <2>1. /\ Behind(list, i) = (i + 1) .. Len(list)
        /\ i + 1 \in Behind(list, i)
    BY <1>0, <1>2
  <2>2. \E j \in Behind(list, i) : \A k \in Behind(list, i) : j <= k
    BY <1>0, <2>1
  <2>3. PICK j \in Behind(list, i) :
          j = Nearest(Behind(list, i)) /\ \A k \in Behind(list, i) : j <= k
    BY <2>2 DEF Nearest
  <2> QED BY <1>0, <2>1, <2>3
<1>4. Behind(list, Len(list)) = {}
  BY <1>0, <1>2
<1>5. \A i \in 1 .. Len(list) - 1 : new[i] = list[i + 1]
  BY <1>0, <1>1, <1>3 DEF ReplaceOldest
<1>6. new[Len(list)] = msg
  BY <1>0, <1>1, <1>4 DEF ReplaceOldest
<1>7. new = [i \in 1 .. Len(list) |-> new[i]]
  BY <1>0 DEF ReplaceOldest
<1> HIDE DEF new
<1>8. \A i \in 1 .. Len(list) : new[i] \in ChangeMessage
  BY <1>0, <1>1, <1>5, <1>6
<1>9. new \in [1 .. Len(list) -> ChangeMessage]
  BY <1>7, <1>8
<1>10. new \in Seq(ChangeMessage) /\ Len(new) = Len(list)
  BY <1>0, <1>9
<1> QED BY <1>5, <1>6, <1>10 DEF new

\* A change that arrives is attended to if nothing else is, or it waits behind all
\* others, of which the oldest may be lost.
AddedTo(new, list, msg) ==
  /\ new \in Seq(ChangeMessage)
  /\ Len(new) <= QueueLimit
  /\ \E lost \in {0, 1} :
       /\ Len(new) = Len(list) + 1 - lost
       /\ \A i \in 1 .. Len(new) - 1 : new[i] = list[i + lost]
       /\ new[Len(new)] = msg
       /\ lost = 1 <=> Len(list) = QueueLimit
  /\ Len(new) >= 1

LEMMA ArriveOneName ==
  ASSUME NEW queue, QueueKept(queue), NEW msg \in ChangeMessage
  PROVE  /\ QueueKept(Arrive(queue, msg))
         /\ \/ /\ queue.attending = Nobody /\ queue.pending = <<>>
               /\ Arrive(queue, msg).attending = msg
               /\ Arrive(queue, msg).pending = <<>>
            \/ /\ queue.attending # Nobody
               /\ Arrive(queue, msg).attending = queue.attending
               /\ AddedTo(Arrive(queue, msg).pending, queue.pending, msg)
<1> PICK new : new = Arrive(queue, msg)
  OBVIOUS
<1> PICK list : list = queue.pending
  OBVIOUS
<1>0. /\ queue \in QueueState /\ list \in Seq(ChangeMessage) /\ Len(list) \in Nat
      /\ Len(list) <= QueueLimit /\ QueueLimit \in Nat \ {0}
      /\ msg.name = "change" /\ msg # Nobody
  BY LimitIsLength, QueueLimitAssumption, ChangeIsNot DEF QueueKept, QueueState
<1>1. CASE queue.attending = Nobody
  <2>1. list = <<>>
    BY <1>1 DEF QueueKept, WaitsOnlyBehind
  <2>2. new = [queue EXCEPT !.attending = msg]
    BY <1>1 DEF Arrive
  <2>3. new \in QueueState /\ new.attending = msg /\ new.pending = <<>>
    BY <1>0, <2>1, <2>2 DEF QueueState
  <2>4. WithinLimit(new)
    BY <2>3 DEF WithinLimit
  <2> QED BY <1>0, <1>1, <2>1, <2>3, <2>4 DEF QueueKept, WaitsOnlyBehind
<1>2. CASE queue.attending # Nobody
  <2> PICK longer : longer = AddPending(list, msg)
    OBVIOUS
  <2>1. new = [queue EXCEPT !.pending = longer]
    BY <1>2 DEF Arrive
  <2>2. Cardinality(Waiting(list, msg.name)) = Len(list)
    BY <1>0, WaitingAll
  <2>3. AddedTo(longer, list, msg)
    <3>1. CASE Len(list) < QueueLimit
      <4>1. longer = Append(list, msg)
        BY <2>2, <3>1 DEF AddPending
      <4>2. /\ longer \in Seq(ChangeMessage) /\ Len(longer) = Len(list) + 1
            /\ \A i \in 1 .. Len(list) : longer[i] = list[i]
            /\ longer[Len(list) + 1] = msg
        BY <1>0, <4>1, AppendProperties
      <4>3. /\ Len(longer) = Len(list) + 1 - 0
            /\ \A i \in 1 .. Len(longer) - 1 : longer[i] = list[i + 0]
            /\ longer[Len(longer)] = msg
        BY <1>0, <4>2
      <4> QED BY <1>0, <3>1, <4>2, <4>3 DEF AddedTo
    <3>2. CASE ~(Len(list) < QueueLimit)
      <4>1. longer = ReplaceOldest(list, msg) /\ list # <<>>
        BY <1>0, <2>2, <3>2 DEF AddPending
      <4>2. /\ longer \in Seq(ChangeMessage) /\ Len(longer) = Len(list)
            /\ \A i \in 1 .. Len(list) - 1 : longer[i] = list[i + 1]
            /\ longer[Len(list)] = msg
        <5>1. /\ ReplaceOldest(list, msg) \in Seq(ChangeMessage)
              /\ Len(ReplaceOldest(list, msg)) = Len(list)
              /\ \A i \in 1 .. Len(list) - 1 : ReplaceOldest(list, msg)[i] = list[i + 1]
              /\ ReplaceOldest(list, msg)[Len(list)] = msg
          BY <1>0, <4>1, ReplaceOneName
        <5> QED BY <4>1, <5>1
      <4>3. /\ Len(longer) = Len(list) + 1 - 1
            /\ \A i \in 1 .. Len(longer) - 1 : longer[i] = list[i + 1]
            /\ longer[Len(longer)] = msg
        BY <1>0, <4>2
      <4> QED BY <1>0, <3>2, <4>2, <4>3 DEF AddedTo
    <3> QED BY <3>1, <3>2
  <2>4. /\ new \in QueueState /\ new.attending = queue.attending
        /\ new.pending = longer
    BY <1>0, <2>1, <2>3 DEF QueueState, AddedTo
  <2>5. WithinLimit(new)
    BY <2>3, <2>4, LimitIsLength DEF AddedTo
  <2> QED BY <1>0, <1>2, <2>3, <2>4, <2>5 DEF QueueKept, WaitsOnlyBehind
<1> QED BY <1>1, <1>2

\* When a handler has returned the first that waits is attended to.
LEMMA FinishOneName ==
  ASSUME NEW queue, QueueKept(queue)
  PROVE  /\ QueueKept(Finish(queue))
         /\ \/ /\ queue.pending = <<>>
               /\ Finish(queue).attending = Nobody /\ Finish(queue).pending = <<>>
            \/ /\ Len(queue.pending) >= 1
               /\ Finish(queue).attending = queue.pending[1]
               /\ Finish(queue).attending # Nobody
               /\ Len(Finish(queue).pending) = Len(queue.pending) - 1
               /\ \A i \in 1 .. Len(queue.pending) - 1 :
                    Finish(queue).pending[i] = queue.pending[i + 1]
<1> PICK new : new = Finish(queue)
  OBVIOUS
<1> PICK list : list = queue.pending
  OBVIOUS
<1>0. /\ queue \in QueueState /\ list \in Seq(ChangeMessage) /\ Len(list) \in Nat
      /\ Len(list) <= QueueLimit /\ QueueLimit \in Nat \ {0}
  BY LimitIsLength, QueueLimitAssumption DEF QueueKept, QueueState
<1>1. CASE list = <<>>
  <2>1. new = [queue EXCEPT !.attending = Nobody]
    BY <1>1 DEF Finish
  <2>2. new \in QueueState /\ new.attending = Nobody /\ new.pending = <<>>
    BY <1>0, <1>1, <2>1 DEF QueueState
  <2>3. WithinLimit(new)
    BY <2>2 DEF WithinLimit
  <2> QED BY <1>1, <2>2, <2>3 DEF QueueKept, WaitsOnlyBehind
<1>2. CASE list # <<>>
  <2> PICK rest : rest = Tail(list)
    OBVIOUS
  <2>1. /\ Head(list) = list[1] /\ list[1] \in ChangeMessage /\ list[1] # Nobody
        /\ rest \in Seq(ChangeMessage) /\ Len(rest) = Len(list) - 1 /\ Len(list) >= 1
        /\ \A i \in 1 .. Len(list) - 1 : rest[i] = list[i + 1]
    BY <1>0, <1>2, HeadTailProperties, ChangeIsNot
  <2>2. new = [attending |-> Head(list), pending |-> rest]
    BY <1>2 DEF Finish
  <2>3. new \in QueueState /\ new.attending = list[1] /\ new.pending = rest
    BY <2>1, <2>2 DEF QueueState
  <2>4. WithinLimit(new)
    <3>1. Len(new.pending) <= QueueLimit
      BY <1>0, <2>1, <2>3
    <3> QED BY <2>3, <3>1, LimitIsLength
  <2> QED BY <2>1, <2>3, <2>4 DEF QueueKept, WaitsOnlyBehind
<1> QED BY <1>1, <1>2

-----------------------------------------------------------------------------
(* The last word of a parameter. *)

LEMMA UnderwayIs ==
  ASSUME NEW queue, NEW p
  PROVE  p \in Underway(queue) <=>
           p \in Waits(queue) \/ (queue.attending # Nobody /\ queue.attending.param = p)
BY DEF Underway

\* A change that arrives is the last word of its parameter.
LEMMA ArriveOwn ==
  ASSUME NEW queue, QueueKept(queue), NEW msg \in ChangeMessage
  PROVE  /\ LastWord(Arrive(queue, msg), msg.param, msg.value)
         /\ msg.param \in Underway(Arrive(queue, msg))
<1> PICK new : new = Arrive(queue, msg)
  OBVIOUS
<1>0. msg # Nobody
  BY ChangeIsNot
<1>1. CASE new.attending = msg /\ new.pending = <<>>
  BY <1>0, <1>1 DEF LastWord, LastWaiting, Underway, Waits
<1>2. CASE AddedTo(new.pending, queue.pending, msg)
  <2> PICK list : list = new.pending
    OBVIOUS
  <2>1. /\ list \in Seq(ChangeMessage) /\ Len(list) \in 1 .. QueueLimit
        /\ list[Len(list)] = msg /\ DOMAIN list = 1 .. Len(list)
    BY <1>2, QueueLimitAssumption DEF AddedTo
  <2>2. msg.param \in Waits(new)
    BY <2>1 DEF Waits
  <2>3. LastWaiting(new, msg.param, msg.value)
    <3>1. ASSUME NEW i \in DOMAIN list,
                 \A j \in DOMAIN list : j > i => list[j].param # msg.param
          PROVE  i = Len(list)
      BY <2>1, <3>1
    <3> QED BY <2>1, <3>1 DEF LastWaiting
  <2> QED BY <2>2, <2>3 DEF LastWord, Underway
<1> QED BY <1>1, <1>2, ArriveOneName

\* It leaves the last word of another one, unless it is the one that was lost.
LEMMA ArriveOther ==
  ASSUME NEW queue, QueueKept(queue), NEW msg \in ChangeMessage,
         NEW p, NEW v, p # msg.param, LastWord(queue, p, v),
         p \notin Waits(queue) \ Waits(Arrive(queue, msg))
  PROVE  /\ LastWord(Arrive(queue, msg), p, v)
         /\ p \notin Underway(Arrive(queue, msg)) => p \notin Underway(queue)
<1> PICK new : new = Arrive(queue, msg)
  OBVIOUS
<1>1. CASE /\ queue.attending = Nobody /\ queue.pending = <<>>
           /\ new.attending = msg /\ new.pending = <<>>
  BY <1>1 DEF LastWord, LastWaiting, Underway, Waits
<1>2. CASE /\ queue.attending # Nobody /\ new.attending = queue.attending
           /\ AddedTo(new.pending, queue.pending, msg)
  <2> PICK list : list = new.pending
    OBVIOUS
  <2> PICK old : old = queue.pending
    OBVIOUS
  <2>0. old \in Seq(ChangeMessage) /\ Len(old) \in Nat /\ DOMAIN old = 1 .. Len(old)
    BY DEF QueueKept, QueueState
  <2>1. PICK lost \in {0, 1} :
          /\ list \in Seq(ChangeMessage) /\ Len(list) >= 1 /\ DOMAIN list = 1 .. Len(list)
          /\ Len(list) = Len(old) + 1 - lost
          /\ \A i \in 1 .. Len(list) - 1 : list[i] = old[i + lost]
          /\ list[Len(list)] = msg
    BY <1>2 DEF AddedTo
  <2>2. p \in Waits(queue) => p \in Waits(new)
    OBVIOUS
  <2>3. LastWaiting(new, p, v)
    <3>1. ASSUME NEW i \in DOMAIN list, list[i].param = p,
                 \A j \in DOMAIN list : j > i => list[j].param # p
          PROVE  list[i].value = v
      <4>1. i \in 1 .. Len(list) - 1 /\ i + lost \in 1 .. Len(old)
        <5>1. i # Len(list)
          BY <2>1, <3>1
        <5> QED BY <2>0, <2>1, <5>1
      <4>2. old[i + lost] = list[i]
        BY <2>1, <4>1
      <4>3. ASSUME NEW j \in 1 .. Len(old), j > i + lost
            PROVE  old[j].param # p
        <5>1. j - lost \in 1 .. Len(list) - 1 /\ j - lost > i /\ (j - lost) + lost = j
          BY <2>0, <2>1, <4>1, <4>3
        <5>2. list[j - lost] = old[j]
          BY <2>1, <5>1
        <5>3. list[j - lost].param # p
          <6>1. j - lost \in DOMAIN list
            BY <2>1, <5>1
          <6> QED BY <3>1, <5>1, <6>1
        <5> QED BY <5>2, <5>3
      <4>4. LastWaiting(queue, p, v)
        BY DEF LastWord
      <4>5. old[i + lost].value = v
        BY <2>0, <3>1, <4>1, <4>2, <4>3, <4>4 DEF LastWaiting
      <4> QED BY <4>2, <4>5
    <3> QED BY <3>1 DEF LastWaiting
  <2>4. p \notin Waits(new) /\ new.attending # Nobody /\ new.attending.param = p
          => new.attending.value = v
    BY <1>2, <2>2 DEF LastWord
  <2>5. p \notin Underway(new) => p \notin Underway(queue)
    BY <1>2, <2>2, UnderwayIs
  <2> QED BY <2>3, <2>4, <2>5 DEF LastWord
<1> QED BY <1>1, <1>2, ArriveOneName

\* The end of a handler leaves the last word; if nothing else of the parameter is
\* under way, it was the one that was handled.
LEMMA FinishWord ==
  ASSUME NEW queue, QueueKept(queue), queue.attending # Nobody,
         NEW p, NEW v, LastWord(queue, p, v)
  PROVE  /\ LastWord(Finish(queue), p, v)
         /\ p \notin Underway(Finish(queue)) =>
              IF queue.attending.param = p THEN queue.attending.value = v
              ELSE p \notin Underway(queue)
<1> PICK new : new = Finish(queue)
  OBVIOUS
<1>1. CASE /\ queue.pending = <<>>
           /\ new.attending = Nobody /\ new.pending = <<>>
  <2>1. Waits(queue) = {} /\ Waits(new) = {}
    BY <1>1 DEF Waits
  <2>2. LastWord(new, p, v)
    BY <1>1 DEF LastWord, LastWaiting
  <2> QED BY <2>1, <2>2, UnderwayIs DEF LastWord
<1>2. CASE /\ Len(queue.pending) >= 1
           /\ new.attending = queue.pending[1] /\ new.attending # Nobody
           /\ Len(new.pending) = Len(queue.pending) - 1
           /\ \A i \in 1 .. Len(queue.pending) - 1 : new.pending[i] = queue.pending[i + 1]
  <2> PICK list : list = new.pending
    OBVIOUS
  <2> PICK old : old = queue.pending
    OBVIOUS
  <2>0. /\ old \in Seq(ChangeMessage) /\ Len(old) \in Nat /\ DOMAIN old = 1 .. Len(old)
        /\ list \in Seq(ChangeMessage) /\ DOMAIN list = 1 .. Len(list)
        /\ Len(list) = Len(old) - 1 /\ Len(old) >= 1
        /\ \A i \in 1 .. Len(list) : list[i] = old[i + 1]
    <3>1. QueueKept(new)
      BY FinishOneName
    <3> QED BY <1>2, <3>1 DEF QueueKept, QueueState
  <2>1. LastWaiting(queue, p, v)
    BY DEF LastWord
  <2>2. LastWaiting(new, p, v)
    <3>1. ASSUME NEW i \in DOMAIN list, list[i].param = p,
                 \A j \in DOMAIN list : j > i => list[j].param # p
          PROVE  list[i].value = v
      <4>1. i + 1 \in 1 .. Len(old) /\ old[i + 1] = list[i]
        BY <2>0
      <4>2. ASSUME NEW j \in 1 .. Len(old), j > i + 1 PROVE old[j].param # p
        <5>1. j - 1 \in 1 .. Len(list) /\ j - 1 > i /\ (j - 1) + 1 = j
          BY <2>0, <4>2
        <5> QED BY <2>0, <3>1, <5>1
      <4>3. old[i + 1].value = v
        BY <2>0, <2>1, <3>1, <4>1, <4>2 DEF LastWaiting
      <4> QED BY <4>1, <4>3
    <3> QED BY <3>1 DEF LastWaiting
  <2>3. Waits(queue) = Waits(new) \cup {new.attending.param}
    <3>1. ASSUME NEW q PROVE q \in Waits(queue) <=> q \in Waits(new) \cup {old[1].param}
      <4>1. ASSUME NEW i \in 1 .. Len(old), old[i].param = q
            PROVE  q \in Waits(new) \cup {old[1].param}
        <5>1. CASE i = 1
          BY <4>1, <5>1
        <5>2. CASE i # 1
          <6>1. i - 1 \in 1 .. Len(list) /\ list[i - 1] = old[i]
            BY <2>0, <5>2
          <6> QED BY <2>0, <4>1, <6>1 DEF Waits
        <5> QED BY <5>1, <5>2
      <4>2. ASSUME NEW i \in 1 .. Len(list), list[i].param = q PROVE q \in Waits(queue)
        <5>1. i + 1 \in 1 .. Len(old) /\ old[i + 1].param = q
          BY <2>0, <4>2
        <5> QED BY <2>0, <5>1 DEF Waits
      <4>3. old[1].param \in Waits(queue)
        BY <2>0 DEF Waits
      <4> QED BY <2>0, <4>1, <4>2, <4>3 DEF Waits
    <3> QED BY <1>2, <3>1
  <2>4. ASSUME p \notin Waits(new), new.attending.param = p
        PROVE  new.attending.value = v
    <3>1. ASSUME NEW j \in 1 .. Len(old), j > 1 PROVE old[j].param # p
      <4>1. j - 1 \in 1 .. Len(list) /\ list[j - 1] = old[j]
        BY <2>0, <3>1
      <4> QED BY <2>0, <2>4, <4>1 DEF Waits
    <3>2. old[1].value = v
      BY <1>2, <2>0, <2>1, <2>4, <3>1 DEF LastWaiting
    <3> QED BY <1>2, <3>2
  <2>5. p \notin Underway(new) => p \notin Waits(queue)
    BY <1>2, <2>3, UnderwayIs
  <2> QED BY <2>2, <2>4, <2>5, UnderwayIs DEF LastWord
<1> QED BY <1>1, <1>2, FinishOneName

-----------------------------------------------------------------------------
(* What each operation preserves for a module. *)

Tables == [Params -> Values \cup {Absent}]

LEMMA ClientQueue ==
  ASSUME NEW c, NEW cl, ClientOK(c, cl)
  PROVE  QueueKept(cl.queue)
BY DEF ClientOK, ClientState, QueueKept, QueueState

LEMMA WantedType ==
  ASSUME NEW c \in Clients
  PROVE  /\ Len(Wanted[c]) \in Nat /\ DOMAIN Wanted[c] = 1 .. Len(Wanted[c])
         /\ \A i \in DOMAIN Wanted[c] :
              Wanted[c][i].param \in Names /\ Wanted[c][i].subscribe \in BOOLEAN
<1> DEFINE Entry == [param : Names, subscribe : BOOLEAN]
<1>1. Wanted[c] \in Seq(Entry)
  BY ParamAssumption
<1>2. \A e \in Entry : e.param \in Names /\ e.subscribe \in BOOLEAN
  OBVIOUS
<1> HIDE DEF Entry
<1>3. \A i \in 1 .. Len(Wanted[c]) : Wanted[c][i] \in Entry
  BY <1>1
<1> QED BY <1>1, <1>2, <1>3

\* The names of a parameter, of which one is in the changes.
LEMMA NameIs ==
  /\ \A n \in Names : Joined[n] \in Params
  /\ \A p \in Params : Split[p] \in Names /\ Joined[Split[p]] = p
BY ParamAssumption

LEMMA DownSound ==
  ASSUME NEW c \in Clients, NEW val
  PROVE  Sound(c, Down, val)
<1>1. Down \in ClientState
  BY ParamAssumption DEF Down, ClientState, IdleQueue, Copies
<1>2. Down.queue = IdleQueue /\ Down.place = 0 /\ Down.reply = NoReply
  BY DEF Down
<1>3. WaitsOnlyBehind(Down.queue) /\ WithinLimit(Down.queue)
  BY <1>2 DEF IdleQueue, WaitsOnlyBehind, WithinLimit
<1>4. ClientOK(c, Down)
  BY <1>1, <1>2, <1>3, WantedType DEF ClientOK, Down
<1>5. Informed(c, Down, val)
  BY DEF Informed, Down
<1> QED BY <1>4, <1>5 DEF Sound

LEMMA PublishSound ==
  ASSUME NEW c \in Clients, NEW cl, NEW val \in Tables, Sound(c, cl, val),
         NEW p0 \in Params, NEW v0 \in Values
  PROVE  /\ Publish(cl, Change(Split[p0], v0)) \in ClientState
         /\ Sound(c, Publish(cl, Change(Split[p0], v0)), [val EXCEPT ![p0] = v0])
<1> DEFINE n0 == Split[p0]
           msg == Change(n0, v0)
           val2 == [val EXCEPT ![p0] = v0]
           namesakes == {n \in Names : Joined[n] = Joined[msg.param]}
<1> PICK new : new = Publish(cl, msg)
  OBVIOUS
<1>0. /\ cl \in ClientState /\ QueueKept(cl.queue) /\ ClientOK(c, cl)
      /\ Informed(c, cl, val) /\ cl.told \in SUBSET Names
  BY ClientQueue DEF Sound, ClientOK, ClientState
<1>1. /\ msg \in ChangeMessage /\ msg.param = n0 /\ msg.value = v0
      /\ n0 \in Names /\ Joined[n0] = p0
  BY NameIs DEF Change, ChangeMessage
<1>2. val2[p0] = v0 /\ \A n \in Names : Joined[n] # p0 => val2[Joined[n]] = val[Joined[n]]
  BY NameIs DEF Tables
<1>3. \A n \in Names : n \in namesakes <=> Joined[n] = p0
  BY <1>1
<1> HIDE DEF n0, msg, val2, namesakes
<1>4. CASE cl.heard
  <2> PICK queue : queue = Arrive(cl.queue, msg)
    OBVIOUS
  <2> PICK told : told = (cl.told \ ((Waits(cl.queue) \ Waits(queue)) \cup namesakes)) \cup {n0}
    OBVIOUS
  <2>1. new = [cl EXCEPT !.queue = queue, !.told = told]
    BY <1>1, <1>4 DEF Publish, namesakes
  <2>2. QueueKept(queue) /\ told \in SUBSET Names
    BY <1>0, <1>1, ArriveOneName
  <2>3. new \in ClientState /\ new.queue = queue /\ new.told = told
    BY <1>0, <2>1, <2>2 DEF ClientState, QueueKept, QueueState
  <2>4. /\ new.place = cl.place /\ new.reply = cl.reply /\ new.copy = cl.copy
        /\ new.known = cl.known /\ new.followed = cl.followed
    BY <1>0, <2>1 DEF ClientState
  <2>5. ClientOK(c, new)
    BY <1>0, <2>2, <2>3, <2>4 DEF ClientOK, QueueKept
  <2>6. ASSUME NEW p \in told
        PROVE  /\ LastWord(queue, p, val2[Joined[p]])
               /\ p \notin Underway(queue) => Uses(c, new, p, val2[Joined[p]])
    <3>1. CASE p = n0
      <4>1. LastWord(queue, n0, v0) /\ n0 \in Underway(queue)
        BY <1>0, <1>1, ArriveOwn
      <4> QED BY <1>1, <1>2, <3>1, <4>1
    <3>2. CASE p # n0
      <4>1. /\ p \in cl.told /\ p \notin Waits(cl.queue) \ Waits(queue) /\ p \in Names
            /\ p \notin namesakes
        BY <1>0, <3>2
      <4>2. val2[Joined[p]] = val[Joined[p]] /\ LastWord(cl.queue, p, val[Joined[p]])
        BY <1>0, <1>2, <1>3, <4>1 DEF Informed
      <4>3. /\ LastWord(queue, p, val[Joined[p]])
            /\ p \notin Underway(queue) => p \notin Underway(cl.queue)
        BY <1>0, <1>1, <3>2, <4>1, <4>2, ArriveOther
      <4>4. p \notin Underway(queue) => Uses(c, new, p, val[Joined[p]])
        BY <1>0, <2>4, <4>1, <4>3 DEF Informed, Uses
      <4> QED BY <4>2, <4>3, <4>4
    <3> QED BY <3>1, <3>2
  <2>7. Informed(c, new, val2)
    BY <2>3, <2>6 DEF Informed
  <2> QED BY <2>3, <2>5, <2>7 DEF Sound, msg, n0, val2
<1>5. CASE ~cl.heard
  <2>1. new = [cl EXCEPT !.told = @ \ namesakes]
    BY <1>5 DEF Publish, namesakes
  <2>2. new \in ClientState /\ new.told = cl.told \ namesakes
    BY <1>0, <2>1 DEF ClientState
  <2>3. /\ new.place = cl.place /\ new.reply = cl.reply /\ new.copy = cl.copy
        /\ new.known = cl.known /\ new.followed = cl.followed /\ new.queue = cl.queue
    BY <1>0, <2>1 DEF ClientState
  <2>4. ClientOK(c, new)
    BY <1>0, <2>2, <2>3 DEF ClientOK
  <2>5. ASSUME NEW p \in new.told
        PROVE  /\ LastWord(new.queue, p, val2[Joined[p]])
               /\ p \notin Underway(new.queue) => Uses(c, new, p, val2[Joined[p]])
    <3>1. p \in cl.told /\ p \in Names /\ p \notin namesakes
      BY <1>0, <2>2
    <3>2. val2[Joined[p]] = val[Joined[p]]
      BY <1>2, <1>3, <3>1
    <3>3. /\ LastWord(cl.queue, p, val[Joined[p]])
          /\ p \notin Underway(cl.queue) => Uses(c, cl, p, val[Joined[p]])
      BY <1>0, <3>1 DEF Informed
    <3> QED BY <2>3, <3>2, <3>3 DEF Uses
  <2>6. Informed(c, new, val2)
    BY <2>5 DEF Informed
  <2> QED BY <2>2, <2>4, <2>6 DEF Sound, msg, n0, val2
<1> QED BY <1>4, <1>5

\* A new daemon: what is no longer the value is no longer told.
LEMMA RestartSound ==
  ASSUME NEW c \in Clients, NEW cl, NEW val, NEW val2, Sound(c, cl, val)
  PROVE  /\ [cl EXCEPT !.told = {p \in @ : val2[Joined[p]] = val[Joined[p]]}] \in ClientState
         /\ Sound(c, [cl EXCEPT !.told = {p \in @ : val2[Joined[p]] = val[Joined[p]]}], val2)
<1> PICK new : new = [cl EXCEPT !.told = {p \in @ : val2[Joined[p]] = val[Joined[p]]}]
  OBVIOUS
<1>0. cl \in ClientState /\ ClientOK(c, cl) /\ Informed(c, cl, val)
  BY DEF Sound, ClientOK
<1>1. new \in ClientState /\ new.told = {p \in cl.told : val2[Joined[p]] = val[Joined[p]]}
  BY <1>0 DEF ClientState
<1>2. /\ new.place = cl.place /\ new.reply = cl.reply /\ new.copy = cl.copy
      /\ new.known = cl.known /\ new.followed = cl.followed /\ new.queue = cl.queue
  BY <1>0 DEF ClientState
<1>3. ClientOK(c, new)
  BY <1>0, <1>1, <1>2 DEF ClientOK
<1>4. Informed(c, new, val2)
  BY <1>0, <1>1, <1>2 DEF Informed, Uses
<1> QED BY <1>1, <1>3, <1>4 DEF Sound

LEMMA StartSound ==
  ASSUME NEW c \in Clients, NEW cl, NEW val, Sound(c, cl, val), cl.place = 0
  PROVE  /\ [cl EXCEPT !.place = 1] \in ClientState
         /\ Sound(c, [cl EXCEPT !.place = 1], val)
<1> PICK new : new = [cl EXCEPT !.place = 1]
  OBVIOUS
<1>0. cl \in ClientState /\ ClientOK(c, cl) /\ Informed(c, cl, val)
  BY DEF Sound, ClientOK
<1>1. new \in ClientState /\ new.place = 1
  BY <1>0 DEF ClientState
<1>2. /\ new.reply = cl.reply /\ new.copy = cl.copy /\ new.told = cl.told
      /\ new.known = cl.known /\ new.followed = cl.followed /\ new.queue = cl.queue
  BY <1>0 DEF ClientState
<1>3. cl.reply = NoReply
  BY <1>0, WantedType DEF ClientOK
<1>4. ClientOK(c, new)
  BY <1>0, <1>1, <1>2, <1>3, WantedType DEF ClientOK
<1>5. Informed(c, new, val)
  BY <1>0, <1>2, <1>3 DEF Informed, Uses
<1> QED BY <1>1, <1>4, <1>5 DEF Sound

\* An answer is the last word, unless a change is still to come.
LEMMA AnswerSound ==
  ASSUME NEW c \in Clients, NEW cl, NEW val \in Tables, Sound(c, cl, val),
         cl.place \in DOMAIN Wanted[c], cl.reply = NoReply,
         NEW n0, n0 = Wanted[c][cl.place].param, NEW v0, v0 = val[Joined[n0]], v0 # Absent
  PROVE  LET new == [cl EXCEPT !.reply = v0,
                               !.told = IF n0 \in cl.known \cup Underway(cl.queue)
                                          THEN @ ELSE @ \cup {n0}]
         IN  new \in ClientState /\ Sound(c, new, val)
<1> DEFINE told == IF n0 \in cl.known \cup Underway(cl.queue) THEN cl.told ELSE cl.told \cup {n0}
<1> PICK new : new = [cl EXCEPT !.reply = v0, !.told = told]
  OBVIOUS
<1>0. /\ cl \in ClientState /\ ClientOK(c, cl) /\ Informed(c, cl, val)
      /\ cl.told \in SUBSET Names
  BY DEF Sound, ClientOK, ClientState
<1>1. n0 \in Names /\ v0 \in Values
  <2>1. n0 \in Names
    BY WantedType
  <2> QED BY <2>1, NameIs DEF Tables
<1>2. new \in ClientState /\ new.told = told /\ new.reply = v0
  BY <1>0, <1>1 DEF ClientState
<1>3. /\ new.place = cl.place /\ new.copy = cl.copy
      /\ new.known = cl.known /\ new.followed = cl.followed /\ new.queue = cl.queue
  BY <1>0 DEF ClientState
<1>4. ClientOK(c, new)
  BY <1>0, <1>2, <1>3 DEF ClientOK
<1>5. ASSUME NEW p \in told
      PROVE  /\ LastWord(cl.queue, p, val[Joined[p]])
             /\ p \notin Underway(cl.queue) => Uses(c, new, p, val[Joined[p]])
  <2>1. CASE p \in cl.told
    <3>1. /\ LastWord(cl.queue, p, val[Joined[p]])
          /\ p \notin Underway(cl.queue) => Uses(c, cl, p, val[Joined[p]])
      BY <1>0, <2>1 DEF Informed
    <3> QED BY <1>2, <1>3, <3>1 DEF Uses
  <2>2. CASE p = n0 /\ n0 \notin cl.known /\ n0 \notin Underway(cl.queue)
    <3>1. LastWord(cl.queue, n0, v0)
      <4>1. n0 \notin Waits(cl.queue)
        BY <2>2, UnderwayIs
      <4>2. LastWaiting(cl.queue, n0, v0)
        BY <4>1 DEF LastWaiting, Waits
      <4> QED BY <2>2, <4>2, UnderwayIs DEF LastWord
    <3>2. Uses(c, new, n0, v0)
      BY <1>2, <1>3, <2>2 DEF Uses
    <3> QED BY <2>2, <3>1, <3>2
  <2> QED BY <2>1, <2>2
<1>6. Informed(c, new, val)
  BY <1>2, <1>3, <1>5 DEF Informed
<1> QED BY <1>2, <1>4, <1>6 DEF Sound

\* The end of a handler, whatever becomes of copy and told.
LEMMA HandleSound ==
  ASSUME NEW c \in Clients, NEW cl, NEW val \in Tables, Sound(c, cl, val),
         cl.queue.attending # Nobody,
         NEW p0, p0 = cl.queue.attending.param,
         NEW v0, v0 = val[Joined[p0]],
         NEW copy \in Copies, NEW told \in SUBSET cl.told,
         \A p \in Names : p # p0 => copy[p] = cl.copy[p],
         p0 \in told /\ p0 \notin Underway(Finish(cl.queue)) /\ v0 = cl.queue.attending.value
           => Uses(c, [cl EXCEPT !.copy = copy], p0, v0),
         NEW new, new \in ClientState,
         new.queue = Finish(cl.queue), new.copy = copy, new.told = told,
         new.place = cl.place, new.reply = cl.reply, new.known = cl.known,
         new.followed = cl.followed
  PROVE  Sound(c, new, val)
<1>0. /\ cl \in ClientState /\ ClientOK(c, cl) /\ Informed(c, cl, val)
      /\ QueueKept(cl.queue)
  BY ClientQueue DEF Sound, ClientOK
<1>1. QueueKept(new.queue)
  BY <1>0, FinishOneName
<1>2. ClientOK(c, new)
  BY <1>0, <1>1 DEF ClientOK, QueueKept
<1>3. ASSUME NEW p \in told
      PROVE  /\ LastWord(new.queue, p, val[Joined[p]])
             /\ p \notin Underway(new.queue) => Uses(c, new, p, val[Joined[p]])
  <2>1. /\ p \in Names /\ LastWord(cl.queue, p, val[Joined[p]])
        /\ p \notin Underway(cl.queue) => Uses(c, cl, p, val[Joined[p]])
    BY <1>0 DEF Informed, ClientState
  <2>2. /\ LastWord(new.queue, p, val[Joined[p]])
        /\ p \notin Underway(new.queue) =>
             IF p0 = p THEN cl.queue.attending.value = val[Joined[p]]
             ELSE p \notin Underway(cl.queue)
    BY <1>0, <2>1, FinishWord
  <2>3. CASE p # p0
    BY <2>1, <2>2, <2>3 DEF Uses
  <2>4. CASE p = p0
    <3> PICK mid : mid = [cl EXCEPT !.copy = copy]
      OBVIOUS
    <3>1. mid.copy = copy /\ mid.known = cl.known /\ mid.reply = cl.reply /\ mid.place = cl.place
      BY <1>0 DEF ClientState
    <3>2. p0 \in told /\ p0 \notin Underway(new.queue) => Uses(c, mid, p0, v0)
      BY <2>2, <2>4
    <3> QED BY <2>2, <2>4, <3>1, <3>2 DEF Uses
  <2> QED BY <2>3, <2>4
<1>4. Informed(c, new, val)
  BY <1>3 DEF Informed
<1> QED BY <1>2, <1>4 DEF Sound

\* A module installs the entry it is at, or subscribes when it has installed all.
MovesOn(c, cl, new) ==
  \/ cl.place \in DOMAIN Wanted[c] /\ new.place = cl.place + 1
  \/ cl.place = Len(Wanted[c]) + 1 /\ new.place = cl.place

InstalledAs(cl, p, new) ==
  /\ new \in ClientState
  /\ new.queue = cl.queue /\ new.reply = NoReply
  /\ new.known = cl.known \cup {p}
  /\ new.followed = cl.followed \/ new.followed = cl.followed \cup {p}
  /\ \A q \in Names : q # p => new.copy[q] = cl.copy[q]
  /\ p \in cl.known => new.copy[p] = cl.copy[p]
  /\ new.told \in SUBSET cl.told

\* A name is installed: with its parameter's value, if it is the first entry and the
\* module is told of it.
LEMMA InstallSound ==
  ASSUME NEW c \in Clients, NEW cl, NEW val \in Tables, Sound(c, cl, val),
         NEW p0 \in Names, NEW new, InstalledAs(cl, p0, new), MovesOn(c, cl, new),
         NEW v0, v0 = val[Joined[p0]],
         p0 \in new.told /\ p0 \notin Underway(cl.queue) /\ v0 \in Convertible[p0]
           /\ p0 \notin cl.known => new.copy[p0] = v0
  PROVE  Sound(c, new, val)
<1> USE DEF InstalledAs, MovesOn
<1>0. /\ cl \in ClientState /\ ClientOK(c, cl) /\ Informed(c, cl, val)
      /\ cl.place \in Nat
  BY DEF Sound, ClientOK, ClientState
<1>1. ClientOK(c, new)
  <2>1. new.place <= Len(Wanted[c]) + 1
    BY <1>0, WantedType
  <2> QED BY <1>0, <2>1 DEF ClientOK
<1>2. ASSUME NEW p \in new.told
      PROVE  /\ LastWord(new.queue, p, val[Joined[p]])
             /\ p \notin Underway(new.queue) => Uses(c, new, p, val[Joined[p]])
  <2>1. /\ p \in Names /\ LastWord(cl.queue, p, val[Joined[p]])
        /\ p \notin Underway(cl.queue) => Uses(c, cl, p, val[Joined[p]])
    BY <1>0 DEF Informed, ClientState
  <2>2. CASE p = p0
    BY <2>1, <2>2 DEF Uses
  <2>3. CASE p # p0
    BY <2>1, <2>3 DEF Uses
  <2> QED BY <2>2, <2>3
<1>3. Informed(c, new, val)
  BY <1>2 DEF Informed
<1> QED BY <1>1, <1>3 DEF Sound

LEMMA InstalledType ==
  ASSUME NEW cl \in ClientState, NEW wanted, wanted.param \in Names,
         wanted.subscribe \in BOOLEAN
  PROVE  LET new == Installed(cl, wanted) IN
         /\ new \in ClientState
         /\ new.known = cl.known \cup {wanted.param}
         /\ new.followed = cl.followed \/ new.followed = cl.followed \cup {wanted.param}
         /\ new.place = cl.place /\ new.reply = cl.reply /\ new.copy = cl.copy
         /\ new.queue = cl.queue /\ new.told = cl.told
         /\ new.heard <=> cl.heard \/ wanted.subscribe
<1> PICK p : p = wanted.param
  OBVIOUS
<1> PICK known : known = cl.known \cup {p}
  OBVIOUS
<1> PICK followed : followed = IF wanted.subscribe /\ p \notin cl.known
                                 THEN cl.followed \cup {p} ELSE cl.followed
  OBVIOUS
<1> PICK heard : heard = (cl.heard \/ wanted.subscribe)
  OBVIOUS
<1>1. Installed(cl, wanted)
        = [cl EXCEPT !.known = known, !.followed = followed, !.heard = heard]
  BY DEF Installed
<1>2. followed \in SUBSET Names /\ known \in SUBSET Names
  BY DEF ClientState
<1>3. heard \in BOOLEAN
  OBVIOUS
<1> PICK new : new = [cl EXCEPT !.known = known, !.followed = followed, !.heard = heard]
  OBVIOUS
<1>4. new \in ClientState
  BY <1>2, <1>3 DEF ClientState
<1>5. /\ new.known = known /\ new.followed = followed
      /\ new.place = cl.place /\ new.reply = cl.reply /\ new.copy = cl.copy
      /\ new.queue = cl.queue /\ new.told = cl.told /\ new.heard = heard
  BY DEF ClientState
<1> QED BY <1>1, <1>4, <1>5

\* A value goes to the variable of the first entry of its name or to that of a later one.
LEMMA StoredType ==
  ASSUME NEW cl \in ClientState, NEW n \in Names, NEW v \in Values
  PROVE  LET new == Stored(cl, n, v) IN
         /\ new \in ClientState
         /\ new.place = cl.place /\ new.reply = cl.reply /\ new.known = cl.known
         /\ new.followed = cl.followed /\ new.heard = cl.heard
         /\ new.queue = cl.queue /\ new.told = cl.told
         /\ \A q \in Names : q # n => new.copy[q] = cl.copy[q]
         /\ n \in cl.known => new.copy[n] = cl.copy[n]
         /\ n \notin cl.known /\ v \in Convertible[n] => new.copy[n] = v
<1>0. cl.copy \in Copies /\ cl.later \in Copies
  BY DEF ClientState
<1>1. ASSUME NEW f \in Copies
      PROVE  /\ [f EXCEPT ![n] = Converted(n, v, @)] \in Copies
             /\ \A q \in Names : q # n => [f EXCEPT ![n] = Converted(n, v, @)][q] = f[q]
             /\ v \in Convertible[n] => [f EXCEPT ![n] = Converted(n, v, @)][n] = v
  BY DEF Copies, Converted
<1>2. CASE n \in cl.known
  <2> PICK f : f = [cl.later EXCEPT ![n] = Converted(n, v, @)]
    OBVIOUS
  <2>1. Stored(cl, n, v) = [cl EXCEPT !.later = f] /\ f \in Copies
    BY <1>0, <1>1, <1>2 DEF Stored
  <2> QED BY <1>2, <2>1 DEF ClientState
<1>3. CASE n \notin cl.known
  <2> PICK f : f = [cl.copy EXCEPT ![n] = Converted(n, v, @)]
    OBVIOUS
  <2>1. Stored(cl, n, v) = [cl EXCEPT !.copy = f] /\ f \in Copies
    BY <1>0, <1>1, <1>3 DEF Stored
  <2>2. /\ \A q \in Names : q # n => f[q] = cl.copy[q]
        /\ v \in Convertible[n] => f[n] = v
    BY <1>0, <1>1
  <2>3. /\ Stored(cl, n, v) \in ClientState /\ Stored(cl, n, v).copy = f
        /\ Stored(cl, n, v).place = cl.place /\ Stored(cl, n, v).reply = cl.reply
        /\ Stored(cl, n, v).known = cl.known /\ Stored(cl, n, v).followed = cl.followed
        /\ Stored(cl, n, v).heard = cl.heard /\ Stored(cl, n, v).queue = cl.queue
        /\ Stored(cl, n, v).told = cl.told
    BY <2>1 DEF ClientState
  <2> QED BY <1>3, <2>2, <2>3
<1> QED BY <1>2, <1>3

\* Both together.
Entered(cl, n, v, wanted, new) ==
  /\ new \in ClientState
  /\ new.known = cl.known \cup {n}
  /\ new.followed = cl.followed \/ new.followed = cl.followed \cup {n}
  /\ new.place = cl.place /\ new.reply = cl.reply
  /\ new.queue = cl.queue /\ new.told = cl.told
  /\ new.heard <=> cl.heard \/ wanted.subscribe
  /\ \A q \in Names : q # n => new.copy[q] = cl.copy[q]
  /\ n \in cl.known => new.copy[n] = cl.copy[n]
  /\ n \notin cl.known /\ v \in Convertible[n] => new.copy[n] = v

LEMMA EntryType ==
  ASSUME NEW cl \in ClientState, NEW n \in Names, NEW wanted, wanted.param = n,
         wanted.subscribe \in BOOLEAN, NEW v \in Values
  PROVE  Entered(cl, n, v, wanted, Installed(Stored(cl, n, v), wanted))
<1> PICK new : new = Installed(Stored(cl, n, v), wanted)
  OBVIOUS
<1> PICK mid : mid = Stored(cl, n, v)
  OBVIOUS
<1>1. /\ mid \in ClientState
      /\ mid.place = cl.place /\ mid.reply = cl.reply /\ mid.known = cl.known
      /\ mid.followed = cl.followed /\ mid.heard = cl.heard
      /\ mid.queue = cl.queue /\ mid.told = cl.told
      /\ \A q \in Names : q # n => mid.copy[q] = cl.copy[q]
      /\ n \in cl.known => mid.copy[n] = cl.copy[n]
      /\ n \notin cl.known /\ v \in Convertible[n] => mid.copy[n] = v
  BY StoredType
<1>2. /\ new \in ClientState
      /\ new.known = mid.known \cup {wanted.param}
      /\ new.followed = mid.followed \/ new.followed = mid.followed \cup {wanted.param}
      /\ new.place = mid.place /\ new.reply = mid.reply /\ new.copy = mid.copy
      /\ new.queue = mid.queue /\ new.told = mid.told
      /\ new.heard <=> mid.heard \/ wanted.subscribe
  BY <1>1, InstalledType
<1> QED BY <1>1, <1>2 DEF Entered

\* With an answer the module installs its entry and goes on to the next.
LEMMA InstallMakes ==
  ASSUME NEW c \in Clients, NEW cl, cl = client[c], ClientOK(c, cl), Install(c),
         NEW wanted, wanted = Wanted[c][cl.place], NEW n, n = wanted.param
  PROVE  /\ cl.place \in DOMAIN Wanted[c] /\ n \in Names /\ wanted.subscribe \in BOOLEAN
         /\ \E new :
              /\ Becomes(c, new) /\ InstalledAs(cl, n, new) /\ new.place = cl.place + 1
              /\ new.heard <=> cl.heard \/ wanted.subscribe
              /\ n \notin cl.known /\ cl.reply \in Convertible[n] => new.copy[n] = cl.reply
<1>1. /\ cl \in ClientState /\ cl.place \in DOMAIN Wanted[c] /\ cl.reply \in Values
      /\ cl.place \in Nat /\ cl.told \in SUBSET Names
  BY DEF Install, ClientOK, ClientState
<1>2. n \in Names /\ wanted.subscribe \in BOOLEAN
  BY <1>1, WantedType
<1>3. Becomes(c, [Installed(Stored(cl, n, cl.reply), wanted)
                    EXCEPT !.place = @ + 1, !.reply = NoReply])
  BY DEF Install
<1>5. PICK mid : mid = Installed(Stored(cl, n, cl.reply), wanted)
  OBVIOUS
<1>6. /\ mid \in ClientState /\ mid.known = cl.known \cup {n}
      /\ mid.followed = cl.followed \/ mid.followed = cl.followed \cup {n}
      /\ mid.place = cl.place /\ mid.queue = cl.queue /\ mid.told = cl.told
      /\ mid.reply = cl.reply
      /\ mid.heard <=> cl.heard \/ wanted.subscribe
      /\ \A q \in Names : q # n => mid.copy[q] = cl.copy[q]
      /\ n \in cl.known => mid.copy[n] = cl.copy[n]
      /\ n \notin cl.known /\ cl.reply \in Convertible[n] => mid.copy[n] = cl.reply
  <2>1. Entered(cl, n, cl.reply, wanted, Installed(Stored(cl, n, cl.reply), wanted))
    BY <1>1, <1>2, EntryType, Zenon
  <2>2. Entered(cl, n, cl.reply, wanted, mid)
    BY <1>5, <2>1
  <2> QED BY <2>2 DEF Entered
<1>7. PICK next, told : next = mid.place + 1 /\ told = cl.told
  OBVIOUS
<1>8. next \in Nat /\ next = cl.place + 1 /\ told \in SUBSET Names /\ told \in SUBSET cl.told
  BY <1>1, <1>6, <1>7
<1>9. PICK new : new = [mid EXCEPT !.place = next, !.reply = NoReply]
  OBVIOUS
<1>10. Becomes(c, new)
  BY <1>3, <1>5, <1>6, <1>7, <1>9, Zenon
<1>11. /\ new \in ClientState /\ new.copy = mid.copy /\ new.queue = mid.queue
       /\ new.reply = NoReply /\ new.known = mid.known /\ new.followed = mid.followed
       /\ new.told = told /\ new.place = next /\ new.heard = mid.heard
  BY <1>1, <1>6, <1>7, <1>8, <1>9 DEF ClientState
<1>12. InstalledAs(cl, n, new)
  BY <1>6, <1>8, <1>11 DEF InstalledAs
<1>13. new.heard <=> cl.heard \/ wanted.subscribe
  BY <1>6, <1>11
<1>14. n \notin cl.known /\ cl.reply \in Convertible[n] => new.copy[n] = cl.reply
  BY <1>6, <1>11
<1> QED BY <1>1, <1>2, <1>8, <1>10, <1>11, <1>12, <1>13, <1>14

\* With a value of its command line it does too, but is told nothing.
LEMMA CommandLineMakes ==
  ASSUME NEW c \in Clients, NEW cl, cl = client[c], ClientOK(c, cl), InstallFromCommandLine(c),
         NEW wanted, wanted = Wanted[c][cl.place], NEW n, n = wanted.param
  PROVE  /\ cl.place \in DOMAIN Wanted[c] /\ n \in Names /\ wanted.subscribe \in BOOLEAN
         /\ \E new :
              /\ Becomes(c, new) /\ InstalledAs(cl, n, new) /\ new.place = cl.place + 1
              /\ new.heard <=> cl.heard \/ wanted.subscribe
              /\ n \in new.told => n \in cl.known
<1>1. /\ cl \in ClientState /\ cl.place \in DOMAIN Wanted[c] /\ cl.reply = NoReply
      /\ cl.place \in Nat /\ cl.told \in SUBSET Names
  BY DEF InstallFromCommandLine, Asking, ClientOK, ClientState
<1>2. n \in Names /\ wanted.subscribe \in BOOLEAN
  BY <1>1, WantedType
<1>3. PICK v \in Convertible[n] :
        Becomes(c, [Installed(Stored(cl, n, v), wanted)
                      EXCEPT !.place = @ + 1,
                             !.told = IF n \in cl.known THEN @ ELSE @ \ {n}])
  BY DEF InstallFromCommandLine
<1>4. v \in Values
  BY <1>2, ParamAssumption
<1>5. PICK mid : mid = Installed(Stored(cl, n, v), wanted)
  OBVIOUS
<1>6. /\ mid \in ClientState /\ mid.known = cl.known \cup {n}
      /\ mid.followed = cl.followed \/ mid.followed = cl.followed \cup {n}
      /\ mid.place = cl.place /\ mid.queue = cl.queue /\ mid.told = cl.told
      /\ mid.reply = cl.reply
      /\ mid.heard <=> cl.heard \/ wanted.subscribe
      /\ \A q \in Names : q # n => mid.copy[q] = cl.copy[q]
      /\ n \in cl.known => mid.copy[n] = cl.copy[n]
      /\ n \notin cl.known /\ v \in Convertible[n] => mid.copy[n] = v
  <2>1. Entered(cl, n, v, wanted, Installed(Stored(cl, n, v), wanted))
    BY <1>1, <1>2, <1>4, EntryType, Zenon
  <2>2. Entered(cl, n, v, wanted, mid)
    BY <1>5, <2>1
  <2> QED BY <2>2 DEF Entered
<1>7. PICK next, told : /\ next = mid.place + 1
                          /\ told = IF n \in cl.known THEN cl.told ELSE cl.told \ {n}
  OBVIOUS
<1>8. next \in Nat /\ next = cl.place + 1 /\ told \in SUBSET Names /\ told \in SUBSET cl.told
  BY <1>1, <1>6, <1>7
<1>9. PICK new : new = [mid EXCEPT !.place = next, !.told = told]
  OBVIOUS
<1>10. Becomes(c, new)
  BY <1>3, <1>5, <1>6, <1>7, <1>9, Zenon
<1>11. /\ new \in ClientState /\ new.copy = mid.copy /\ new.queue = mid.queue
       /\ new.reply = NoReply /\ new.known = mid.known /\ new.followed = mid.followed
       /\ new.told = told /\ new.place = next /\ new.heard = mid.heard
  BY <1>1, <1>6, <1>7, <1>8, <1>9 DEF ClientState
<1>12. InstalledAs(cl, n, new)
  BY <1>6, <1>8, <1>11 DEF InstalledAs
<1>13. new.heard <=> cl.heard \/ wanted.subscribe
  BY <1>6, <1>11
<1>14. n \in new.told => n \in cl.known
  BY <1>7, <1>11
<1> QED BY <1>1, <1>2, <1>8, <1>10, <1>11, <1>12, <1>13, <1>14

-----------------------------------------------------------------------------
(* The invariant. *)

LEMMA InitSound == Init => IInv
<1> SUFFICES ASSUME Init PROVE IInv
  OBVIOUS
<1>1. \A c \in Clients : Sound(c, client[c], value)
  BY DownSound DEF Init
<1>2. client \in [Clients -> ClientState]
  <2>1. \A c \in Clients : Down \in ClientState
    BY DownSound DEF Sound, ClientOK
  <2> QED BY <2>1 DEF Init
<1> QED BY <1>1, <1>2 DEF Init, IInv

\* A step of one module leaves the others.
LEMMA OneModule ==
  ASSUME IInv, NEW c \in Clients, NEW cl, Becomes(c, cl), cl \in ClientState,
         Sound(c, cl, value)
  PROVE  IInv'
<1>1. /\ client' = [client EXCEPT ![c] = cl]
      /\ value' = value /\ daemonUp' = daemonUp /\ client \in [Clients -> ClientState]
  BY DEF Becomes, IInv
<1>2. client' \in [Clients -> ClientState]
  BY <1>1
<1>3. ASSUME NEW d \in Clients PROVE Sound(d, client'[d], value')
  <2>1. Sound(d, client[d], value)
    BY DEF IInv
  <2> QED BY <1>1, <2>1
<1> QED BY <1>1, <1>2, <1>3 DEF IInv

LEMMA SetParamSound ==
  ASSUME IInv, NEW p \in Params, NEW v \in Values, SetParam(p, v)
  PROVE  IInv'
<1>1. value \in Tables /\ value' = [value EXCEPT ![p] = v] /\ daemonUp' = daemonUp
  BY DEF IInv, SetParam, Tables
<1>2. value' \in Tables
  BY <1>1 DEF Tables
<1>3. client' = [c \in Clients |-> Publish(client[c], Change(Split[p], v))]
  BY DEF SetParam, Published
<1>4. ASSUME NEW c \in Clients
      PROVE  client'[c] \in ClientState /\ Sound(c, client'[c], value')
  <2>1. Sound(c, client[c], value)
    BY DEF IInv
  <2> PICK new : new = Publish(client[c], Change(Split[p], v))
    OBVIOUS
  <2>2. client'[c] = new
    BY <1>3
  <2>3. new \in ClientState /\ Sound(c, new, [value EXCEPT ![p] = v])
    BY <1>1, <2>1, PublishSound
  <2> QED BY <1>1, <2>2, <2>3
<1>5. client' \in [Clients -> ClientState]
  BY <1>3, <1>4
<1> QED BY <1>1, <1>2, <1>4, <1>5 DEF IInv, Tables

LEMMA DaemonStartsSound ==
  ASSUME IInv, DaemonStarts
  PROVE  IInv'
<1>1. /\ value' \in [Params -> Values \cup {Absent}] /\ daemonUp' = TRUE
      /\ client' = [c \in Clients |->
                      [client[c] EXCEPT !.told = {p \in @ : value'[Joined[p]] = value[Joined[p]]}]]
  BY DEF DaemonStarts
<1>2. ASSUME NEW c \in Clients
      PROVE  client'[c] \in ClientState /\ Sound(c, client'[c], value')
  <2>1. Sound(c, client[c], value)
    BY DEF IInv
  <2> PICK val2 : val2 = value'
    OBVIOUS
  <2> PICK new : new = [client[c] EXCEPT !.told = {p \in @ : val2[Joined[p]] = value[Joined[p]]}]
    OBVIOUS
  <2>2. new \in ClientState /\ Sound(c, new, val2)
    BY <2>1, RestartSound
  <2>3. client'[c] = new
    BY <1>1
  <2> QED BY <2>2, <2>3
<1>3. client' \in [Clients -> ClientState]
  BY <1>1, <1>2
<1> QED BY <1>1, <1>2, <1>3 DEF IInv

LEMMA HandleChangeSound ==
  ASSUME IInv, NEW c \in Clients, HandleChange(c)
  PROVE  IInv'
<1> DEFINE p0 == client[c].queue.attending.param
           v0 == client[c].queue.attending.value
           after == Finish(client[c].queue)
<1> PICK cl : cl = client[c]
  OBVIOUS
<1>0. /\ cl \in ClientState /\ Sound(c, cl, value) /\ value \in Tables
      /\ QueueKept(cl.queue) /\ cl.queue.attending # Nobody
      /\ ClientOK(c, cl)
  BY ClientQueue DEF IInv, HandleChange, Sound, Tables
<1>1. p0 \in Names /\ v0 \in Values /\ QueueKept(after)
  BY <1>0, ChangeIsNot, FinishOneName DEF QueueKept, QueueState
<1>2. cl.copy \in Copies /\ cl.told \in SUBSET Names
  BY <1>0 DEF ClientState
<1> PICK val0 : val0 = value[Joined[p0]]
  OBVIOUS
<1>4. CASE p0 \in cl.followed
  <2> DEFINE copy == [cl.copy EXCEPT ![p0] = Converted(p0, v0, @)]
             new == [cl EXCEPT !.queue = after, !.copy = copy]
  <2>1. Becomes(c, new)
    BY <1>4 DEF HandleChange
  <2>2. copy \in Copies
    BY <1>1, <1>2 DEF Converted, Copies
  <2>3. /\ \A p \in Names : p # p0 => copy[p] = cl.copy[p]
        /\ copy[p0] = Converted(p0, v0, cl.copy[p0])
    BY <1>1, <1>2 DEF Copies
  <2> HIDE DEF copy
  <2>4. /\ new \in ClientState /\ new.queue = after /\ new.copy = copy
        /\ new.told = cl.told /\ new.place = cl.place /\ new.reply = cl.reply
        /\ new.known = cl.known /\ new.followed = cl.followed
    BY <1>0, <1>1, <2>2 DEF ClientState, QueueKept, QueueState
  <2>5. val0 = v0 => Uses(c, [cl EXCEPT !.copy = copy], p0, val0)
    <3> PICK mid : mid = [cl EXCEPT !.copy = copy]
      OBVIOUS
    <3>1. mid.copy = copy /\ mid.known = cl.known /\ mid.reply = cl.reply /\ mid.place = cl.place
      BY <1>0 DEF ClientState
    <3>2. p0 \in cl.known
      BY <1>0, <1>4 DEF ClientOK
    <3> QED BY <2>3, <3>1, <3>2 DEF Uses, Converted
  <2> HIDE DEF new, p0, v0, after
  <2>6. Sound(c, new, value)
    BY <1>0, <2>2, <2>3, <2>4, <2>5, HandleSound DEF p0, v0, after
  <2> QED BY <2>1, <2>4, <2>6, OneModule
<1>5. CASE p0 \notin cl.followed
  <2> DEFINE told == IF p0 \in Underway(after) \/ Has(c, p0) = v0
                       THEN cl.told ELSE cl.told \ {p0}
             new == [cl EXCEPT !.queue = after, !.told = told]
  <2>1. Becomes(c, new)
    BY <1>5 DEF HandleChange
  <2>2. told \in SUBSET cl.told /\ told \in SUBSET Names
    BY <1>2
  <2>3. p0 \in told /\ p0 \notin Underway(after) => Has(c, p0) = v0
    OBVIOUS
  <2> HIDE DEF told
  <2>4. /\ new \in ClientState /\ new.queue = after /\ new.copy = cl.copy
        /\ new.told = told /\ new.place = cl.place /\ new.reply = cl.reply
        /\ new.known = cl.known /\ new.followed = cl.followed
    BY <1>0, <1>1, <2>2 DEF ClientState, QueueKept, QueueState
  <2>5. p0 \in told /\ p0 \notin Underway(after) /\ val0 = v0
          => Uses(c, [cl EXCEPT !.copy = cl.copy], p0, val0)
    <3>1. [cl EXCEPT !.copy = cl.copy] = cl
      BY <1>0 DEF ClientState
    <3>2. ASSUME Has(c, p0) = v0, val0 = v0
          PROVE  Uses(c, cl, p0, val0)
      BY <3>2 DEF Has, Uses
    <3> QED BY <2>3, <3>1, <3>2
  <2> HIDE DEF new, p0, v0, after
  <2>6. Sound(c, new, value)
    BY <1>0, <1>2, <2>2, <2>4, <2>5, HandleSound DEF p0, v0, after
  <2> QED BY <2>1, <2>4, <2>6, OneModule
<1> QED BY <1>4, <1>5

LEMMA ClientStepSound ==
  ASSUME IInv, NEW c \in Clients, ClientStep(c)
  PROVE  IInv'
<1> PICK cl : cl = client[c]
  OBVIOUS
<1>0. /\ cl \in ClientState /\ Sound(c, cl, value) /\ value \in Tables
      /\ ClientOK(c, cl) /\ Informed(c, cl, value)
  BY DEF IInv, Sound, Tables
<1>1. cl.place \in Nat
  BY <1>0 DEF ClientState
<1>2. CASE ClientStarts(c)
  BY <1>0, <1>2, StartSound, OneModule DEF ClientStarts
<1>3. CASE ClientEnds(c) \/ AnswerNotFound(c)
  <2>1. Becomes(c, Down)
    BY <1>3 DEF ClientEnds, AnswerNotFound
  <2>2. Sound(c, Down, value)
    BY DownSound
  <2> QED BY <2>1, <2>2, OneModule DEF Sound, ClientOK
<1>4. CASE Answer(c)
  <2> PICK n0 : n0 = Wanted[c][cl.place].param
    OBVIOUS
  <2> PICK v0 : v0 = value[Joined[n0]]
    OBVIOUS
  <2> DEFINE new == [cl EXCEPT !.reply = v0,
                               !.told = IF n0 \in cl.known \cup Underway(cl.queue)
                                          THEN @ ELSE @ \cup {n0}]
  <2>1. /\ Becomes(c, new) /\ v0 # Absent /\ cl.place \in DOMAIN Wanted[c]
        /\ cl.reply = NoReply
    BY <1>4 DEF Answer, Asking
  <2>2. new \in ClientState /\ Sound(c, new, value)
    BY <1>0, <2>1, AnswerSound
  <2> QED BY <2>1, <2>2, OneModule
<1>5. CASE Install(c)
  <2> PICK wanted, n0 : wanted = Wanted[c][cl.place] /\ n0 = wanted.param
    OBVIOUS
  <2> PICK v0 : v0 = value[Joined[n0]]
    OBVIOUS
  <2>1. cl.place \in DOMAIN Wanted[c] /\ n0 \in Names
    BY <1>0, <1>5, InstallMakes
  <2>2. PICK new :
          /\ Becomes(c, new) /\ InstalledAs(cl, n0, new) /\ new.place = cl.place + 1
          /\ n0 \notin cl.known /\ cl.reply \in Convertible[n0] => new.copy[n0] = cl.reply
    BY <1>0, <1>5, InstallMakes
  <2>3. new \in ClientState /\ new.told \in SUBSET cl.told /\ cl.reply # NoReply
    BY <1>5, <2>2 DEF InstalledAs, Install
  <2>4. n0 \in cl.told /\ n0 \notin Underway(cl.queue) => Uses(c, cl, n0, v0)
    BY <1>0 DEF Informed
  <2>5. n0 \in new.told /\ n0 \notin Underway(cl.queue) /\ v0 \in Convertible[n0]
          /\ n0 \notin cl.known => new.copy[n0] = v0
    BY <2>2, <2>3, <2>4 DEF Uses
  <2>6. MovesOn(c, cl, new)
    BY <2>1, <2>2 DEF MovesOn
  <2>7. Sound(c, new, value)
    BY <1>0, <2>1, <2>2, <2>5, <2>6, InstallSound
  <2> QED BY <2>2, <2>3, <2>7, OneModule
<1>6. CASE InstallFromCommandLine(c)
  <2> PICK wanted, n0 : wanted = Wanted[c][cl.place] /\ n0 = wanted.param
    OBVIOUS
  <2> PICK v0 : v0 = value[Joined[n0]]
    OBVIOUS
  <2>1. cl.place \in DOMAIN Wanted[c] /\ n0 \in Names
    BY <1>0, <1>6, CommandLineMakes
  <2>2. PICK new :
          /\ Becomes(c, new) /\ InstalledAs(cl, n0, new) /\ new.place = cl.place + 1
          /\ n0 \in new.told => n0 \in cl.known
    BY <1>0, <1>6, CommandLineMakes
  <2>3. new \in ClientState
    BY <2>2 DEF InstalledAs
  <2>4. MovesOn(c, cl, new)
    BY <2>1, <2>2 DEF MovesOn
  <2>5. Sound(c, new, value)
    BY <1>0, <2>1, <2>2, <2>4, InstallSound
  <2> QED BY <2>2, <2>3, <2>5, OneModule
<1>7. ASSUME NEW p0 \in Names, Subscribe(c, p0)
      PROVE  IInv'
  <2> PICK told : told = IF p0 \in cl.known THEN cl.told ELSE cl.told \ {p0}
    OBVIOUS
  <2> PICK new : new = [cl EXCEPT !.known = @ \cup {p0}, !.followed = @ \cup {p0},
                                  !.heard = TRUE,
                                  !.told = IF p0 \in cl.known THEN @ ELSE @ \ {p0}]
    OBVIOUS
  <2> PICK v0 : v0 = value[Joined[p0]]
    OBVIOUS
  <2>1. cl.place = Len(Wanted[c]) + 1 /\ Becomes(c, new)
    BY <1>7 DEF Subscribe
  <2>2. cl.reply = NoReply
    BY <1>0, <2>1, WantedType DEF ClientOK
  <2>3. /\ cl.known \in SUBSET Names /\ cl.followed \in SUBSET Names
        /\ told \in SUBSET Names /\ told \in SUBSET cl.told
    BY <1>0 DEF ClientState
  <2>4. /\ new \in ClientState /\ new.queue = cl.queue /\ new.reply = cl.reply
        /\ new.known = cl.known \cup {p0} /\ new.followed = cl.followed \cup {p0}
        /\ new.copy = cl.copy /\ new.told = told /\ new.place = cl.place
    BY <1>0, <2>3 DEF ClientState
  <2>5. Sound(c, new, value)
    <3>1. InstalledAs(cl, p0, new) /\ MovesOn(c, cl, new)
      BY <2>1, <2>2, <2>3, <2>4 DEF InstalledAs, MovesOn
    <3>2. p0 \in new.told => p0 \in cl.known
      BY <2>4
    <3> QED BY <1>0, <3>1, <3>2, InstallSound
  <2> QED BY <2>1, <2>4, <2>5, OneModule
<1>8. CASE HandleChange(c)
  BY <1>8, HandleChangeSound
<1> QED BY <1>2, <1>3, <1>4, <1>5, <1>6, <1>7, <1>8 DEF ClientStep

LEMMA NextSound == IInv /\ [Next]_vars => IInv'
<1> SUFFICES ASSUME IInv, [Next]_vars PROVE IInv'
  OBVIOUS
<1>1. CASE \E p \in Params, v \in Values : SetParam(p, v)
  BY <1>1, SetParamSound
<1>2. CASE DaemonEnds
  BY <1>2 DEF DaemonEnds, IInv
<1>3. CASE DaemonStarts
  BY <1>3, DaemonStartsSound
<1>4. CASE \E c \in Clients : ClientStep(c)
  BY <1>4, ClientStepSound
<1>5. CASE UNCHANGED vars
  BY <1>5 DEF vars, IInv
<1> QED BY <1>1, <1>2, <1>3, <1>4, <1>5 DEF Next

THEOREM IInvInvariant == Spec => []IInv
BY InitSound, NextSound, PTL DEF Spec

-----------------------------------------------------------------------------

\* The table, the modules' variables and central's queues of changes are what they
\* are taken for; no module has more changes waiting than the limit.
THEOREM ParamTypeCorrect == Spec => []TypeOK
<1>1. IInv => TypeOK
  BY DEF IInv, TypeOK, Sound
<1> QED BY <1>1, IInvInvariant, PTL

\* Once a module has handled all changes it has the daemon's value of every
\* parameter it follows and was told of, in the variable of the first entry of the
\* name, whatever was lost in central, passed over by change_handler or overtaken by
\* an answer, and whether or not the daemon's changes have the module's name for it.
THEOREM CopiesAreCurrent == Spec => []CopiesCurrent
<1>1. IInv => CopiesCurrent
  <2> SUFFICES ASSUME IInv, NEW c \in Clients, NEW n \in Names, Follows(c, n),
                      n \notin Underway(client[c].queue)
               PROVE  client[c].copy[n] = value[Joined[n]]
    BY DEF CopiesCurrent
  <2>1. Informed(c, client[c], value) /\ client[c].followed \subseteq client[c].known
    BY DEF IInv, Sound, ClientOK
  <2> QED BY <2>1 DEF Follows, Informed, Uses
<1> QED BY <1>1, IInvInvariant, PTL

-----------------------------------------------------------------------------
(***************************************************************************)
(* The lines of changes.  A module that does not hear of changes has an    *)
(* empty queue at central (HeardInv), so that it begins with an empty line *)
(* when it first subscribes.                                               *)
(***************************************************************************)
Quiet(cl) == ~cl.heard => cl.queue = IdleQueue

HeardInv == \A c \in Clients : Quiet(client[c])

LEMMA LineIs ==
  ASSUME NEW queue \in QueueState, queue.attending # Nobody
  PROVE  /\ Line(queue) \in Seq(ChangeMessage)
         /\ Len(Line(queue)) = Len(queue.pending) + 1
         /\ Line(queue)[1] = queue.attending
         /\ \A i \in 1 .. Len(queue.pending) : Line(queue)[i + 1] = queue.pending[i]
<1> DEFINE first == <<queue.attending>>
<1> PICK list : list = queue.pending
  OBVIOUS
<1>1. first \in Seq(ChangeMessage) /\ Len(first) = 1 /\ first[1] = queue.attending
  BY DEF QueueState
<1>2. list \in Seq(ChangeMessage) /\ Len(list) \in Nat
  BY DEF QueueState
<1>3. Line(queue) = first \o list
  BY DEF Line
<1> HIDE DEF first
<1>4. /\ first \o list \in Seq(ChangeMessage)
      /\ Len(first \o list) = 1 + Len(list)
      /\ \A i \in 1 .. 1 + Len(list) :
           (first \o list)[i] = IF i <= 1 THEN first[i] ELSE list[i - 1]
  <2>1. /\ first \o list \in Seq(ChangeMessage)
        /\ Len(first \o list) = Len(first) + Len(list)
        /\ \A i \in 1 .. Len(first) + Len(list) :
             (first \o list)[i] = IF i <= Len(first) THEN first[i] ELSE list[i - Len(first)]
    BY <1>1, <1>2, ConcatProperties, Zenon
  <2> QED BY <1>1, <2>1, Zenon
<1>5. (first \o list)[1] = queue.attending
  BY <1>1, <1>2, <1>4
<1>6. ASSUME NEW i \in 1 .. Len(list)
      PROVE  (first \o list)[i + 1] = list[i]
  <2>1. i + 1 \in 1 .. 1 + Len(list) /\ ~(i + 1 <= 1) /\ (i + 1) - 1 = i
    BY <1>2
  <2> QED BY <1>4, <2>1
<1> QED BY <1>2, <1>3, <1>4, <1>5, <1>6

\* What makes room in a full line takes out the second.
LEMMA RoomMade ==
  ASSUME NEW s \in Seq(ChangeMessage), Len(s) > 1
  PROVE  LET t == <<s[1]>> \o SubSeq(s, 3, Len(s)) IN
         /\ t \in Seq(ChangeMessage)
         /\ Len(t) = Len(s) - 1
         /\ t[1] = s[1]
         /\ \A i \in 2 .. Len(s) - 1 : t[i] = s[i + 1]
<1> DEFINE first == <<s[1]>>
           rest == SubSeq(s, 3, Len(s))
<1>1. first \in Seq(ChangeMessage) /\ Len(first) = 1 /\ first[1] = s[1]
  OBVIOUS
<1>2. rest \in Seq(ChangeMessage) /\ Len(rest) = Len(s) - 2
      /\ \A i \in 1 .. Len(s) - 2 : rest[i] = s[i + 2]
  <2>1. Len(s) \in Nat /\ \A i \in 3 .. Len(s) : s[i] \in ChangeMessage
    OBVIOUS
  <2>2. /\ rest \in Seq(ChangeMessage)
        /\ Len(rest) = IF 3 <= Len(s) THEN Len(s) - 3 + 1 ELSE 0
        /\ \A i \in 1 .. Len(s) - 3 + 1 : rest[i] = s[3 + i - 1]
    BY <2>1, SubSeqProperties
  <2> HIDE DEF rest
  <2>3. Len(rest) = Len(s) - 2
    <3>1. CASE 3 <= Len(s)
      BY <2>1, <2>2, <3>1
    <3>2. CASE ~(3 <= Len(s))
      <4>1. Len(s) = 2
        BY <2>1, <3>2
      <4> QED BY <2>2, <4>1
    <3> QED BY <3>1, <3>2
  <2>4. ASSUME NEW i \in 1 .. Len(s) - 2 PROVE rest[i] = s[i + 2]
    <3>1. i \in 1 .. Len(s) - 3 + 1 /\ 3 + i - 1 = i + 2
      BY <2>1
    <3> QED BY <2>2, <3>1
  <2> QED BY <2>2, <2>3, <2>4
<1> HIDE DEF first, rest
<1>3. /\ first \o rest \in Seq(ChangeMessage)
      /\ Len(first \o rest) = 1 + Len(rest)
      /\ \A i \in 1 .. 1 + Len(rest) :
           (first \o rest)[i] = IF i <= 1 THEN first[i] ELSE rest[i - 1]
  <2>1. /\ first \o rest \in Seq(ChangeMessage)
        /\ Len(first \o rest) = Len(first) + Len(rest)
        /\ \A i \in 1 .. Len(first) + Len(rest) :
             (first \o rest)[i] = IF i <= Len(first) THEN first[i] ELSE rest[i - Len(first)]
    BY <1>1, <1>2, ConcatProperties, Zenon
  <2> QED BY <1>1, <2>1, Zenon
<1>4. Len(s) \in Nat
  OBVIOUS
<1>5. (first \o rest)[1] = s[1]
  BY <1>1, <1>2, <1>3, <1>4
<1>6. ASSUME NEW i \in 2 .. Len(s) - 1
      PROVE  (first \o rest)[i] = s[i + 1]
  <2>1. i \in 1 .. 1 + Len(rest) /\ ~(i <= 1) /\ i - 1 \in 1 .. Len(s) - 2
        /\ (i - 1) + 2 = i + 1
    BY <1>2, <1>4
  <2>2. (first \o rest)[i] = rest[i - 1]
    BY <1>3, <2>1
  <2>3. rest[i - 1] = s[(i - 1) + 2]
    BY <1>2, <2>1
  <2> QED BY <2>1, <2>2, <2>3
<1>7. Len(first \o rest) = Len(s) - 1
  BY <1>2, <1>3, <1>4
<1> QED BY <1>3, <1>5, <1>6, <1>7 DEF first, rest

\* A place in the line between the first and the new one, and where its change was.
LEMMA InnerPlace ==
  ASSUME NEW n \in Nat, NEW k \in Nat, NEW lost \in {0, 1}, k = n + 1 - lost,
         NEW i \in 1 .. k + 1, i # 1, i # k + 1
  PROVE  /\ i - 1 \in 1 .. k - 1 /\ (i - 1) + 1 = i /\ i - 1 \in 1 .. k
         /\ i \in 2 .. (n + 1) - lost /\ i \in 1 .. k
         /\ (i - 1) + lost \in 1 .. n /\ ((i - 1) + lost) + 1 = i + lost
  OBVIOUS

\* Central's replacement in place is a line that loses its second and gets one more.
LEMMA ArriveMaps ==
  ASSUME NEW queue, QueueKept(queue), NEW msg \in ChangeMessage
  PROVE  Line(Arrive(queue, msg)) = Feed!Longer(Line(queue), msg)
<1> PICK new : new = Arrive(queue, msg)
  OBVIOUS
<1> PICK s : s = Line(queue)
  OBVIOUS
<1>0. /\ QueueKept(new) /\ queue \in QueueState /\ new \in QueueState
      /\ Len(queue.pending) \in Nat /\ QueueLimit \in Nat \ {0}
      /\ queue.pending \in Seq(ChangeMessage) /\ new.pending \in Seq(ChangeMessage)
      /\ Len(new.pending) \in Nat /\ msg # Nobody /\ Len(queue.pending) <= QueueLimit
  BY ArriveOneName, QueueLimitAssumption, ChangeIsNot, LimitIsLength
     DEF QueueKept, QueueState
<1>1. CASE queue.attending = Nobody
  <2>1. new.attending = msg /\ new.pending = <<>>
    BY <1>1, ArriveOneName
  <2>2. s = <<>>
    BY <1>1 DEF Line
  <2>3. Feed!Longer(s, msg) = <<msg>>
    <3>1. ~(Len(s) > QueueLimit)
      BY <1>0, <2>2
    <3>2. Feed!Longer(s, msg) = Append(s, msg)
      BY <3>1 DEF Feed!Longer
    <3> QED BY <2>2, <3>2
  <2>4. Line(new) = <<msg>>
    BY <1>0, <2>1 DEF Line
  <2> QED BY <2>3, <2>4
<1>2. CASE queue.attending # Nobody
  <2>1. new.attending = queue.attending /\ AddedTo(new.pending, queue.pending, msg)
    BY <1>2, ArriveOneName
  <2>2. /\ s \in Seq(ChangeMessage) /\ Len(s) = Len(queue.pending) + 1
        /\ s[1] = queue.attending
        /\ \A i \in 1 .. Len(queue.pending) : s[i + 1] = queue.pending[i]
    BY <1>0, <1>2, LineIs
  <2>3. /\ Line(new) \in Seq(ChangeMessage) /\ Len(Line(new)) = Len(new.pending) + 1
        /\ Line(new)[1] = queue.attending
        /\ \A i \in 1 .. Len(new.pending) : Line(new)[i + 1] = new.pending[i]
    BY <1>0, <1>2, <2>1, LineIs
  <2> PICK t : t = IF Len(s) > QueueLimit THEN <<s[1]>> \o SubSeq(s, 3, Len(s)) ELSE s
    OBVIOUS
  <2> PICK lost \in {0, 1} :
        /\ Len(new.pending) = Len(queue.pending) + 1 - lost
        /\ \A i \in 1 .. Len(new.pending) - 1 : new.pending[i] = queue.pending[i + lost]
        /\ new.pending[Len(new.pending)] = msg
        /\ lost = 1 <=> Len(queue.pending) = QueueLimit
    BY <2>1 DEF AddedTo
  <2>4. /\ t \in Seq(ChangeMessage) /\ Len(t) = Len(s) - lost /\ t[1] = s[1]
        /\ \A i \in 2 .. Len(s) - lost : t[i] = s[i + lost]
    <3>1. CASE lost = 1
      <4>1. Len(s) > QueueLimit /\ Len(s) > 1
        BY <1>0, <2>2, <3>1
      <4> QED BY <2>2, <3>1, <4>1, RoomMade
    <3>2. CASE lost = 0
      <4>1. ~(Len(s) > QueueLimit) /\ Len(s) \in Nat
        BY <1>0, <2>2, <3>2
      <4>2. \A i \in 2 .. Len(s) : i + 0 = i
        OBVIOUS
      <4> QED BY <2>2, <3>2, <4>1, <4>2
    <3> QED BY <3>1, <3>2
  <2>5. Feed!Longer(s, msg) = Append(t, msg)
    BY DEF Feed!Longer
  <2> PICK u : u = Append(t, msg)
    OBVIOUS
  <2>6. /\ u \in Seq(ChangeMessage) /\ Len(u) = Len(t) + 1
        /\ \A i \in 1 .. Len(t) : u[i] = t[i]
        /\ u[Len(t) + 1] = msg
    BY <2>4, AppendProperties
  <2> PICK r : r = Line(new)
    OBVIOUS
  <2>7. Len(r) = Len(u) /\ Len(t) = Len(new.pending) /\ Len(t) \in Nat
    BY <1>0, <2>2, <2>3, <2>4, <2>6
  <2>8. ASSUME NEW i \in 1 .. Len(r)
        PROVE  r[i] = u[i]
    <3>1. CASE i = 1
      <4>1. 1 \in 1 .. Len(t)
        BY <1>0, <2>1, <2>7 DEF AddedTo
      <4> QED BY <2>2, <2>3, <2>4, <2>6, <3>1, <4>1
    <3>2. CASE i = Len(r) /\ i # 1
      <4>1. r[i] = new.pending[Len(new.pending)]
        <5>1. Len(new.pending) \in 1 .. Len(new.pending) /\ i = Len(new.pending) + 1
          BY <1>0, <2>1, <2>3, <3>2 DEF AddedTo
        <5> QED BY <2>3, <5>1
      <4>2. u[i] = msg
        BY <2>3, <2>6, <2>7, <3>2
      <4> QED BY <4>1, <4>2
    <3>3. CASE i # 1 /\ i # Len(r)
      <4>1. /\ i - 1 \in 1 .. Len(new.pending) - 1 /\ (i - 1) + 1 = i
            /\ i - 1 \in 1 .. Len(new.pending)
            /\ i \in 2 .. Len(s) - lost /\ i \in 1 .. Len(t)
            /\ (i - 1) + lost \in 1 .. Len(queue.pending) /\ ((i - 1) + lost) + 1 = i + lost
        <5> DEFINE n == Len(queue.pending)
                   k == Len(new.pending)
        <5>1. /\ n \in Nat /\ k \in Nat /\ k = n + 1 - lost /\ Len(r) = k + 1
              /\ Len(s) = n + 1 /\ Len(t) = k
          BY <1>0, <2>2, <2>3, <2>7
        <5>2. i \in 1 .. k + 1 /\ i # 1 /\ i # k + 1
          BY <2>8, <3>3, <5>1
        <5> HIDE DEF n, k
        <5>3. /\ i - 1 \in 1 .. k - 1 /\ (i - 1) + 1 = i /\ i - 1 \in 1 .. k
              /\ i \in 2 .. (n + 1) - lost /\ i \in 1 .. k
              /\ (i - 1) + lost \in 1 .. n /\ ((i - 1) + lost) + 1 = i + lost
          BY <5>1, <5>2, InnerPlace
        <5> QED BY <5>1, <5>3 DEF n, k
      <4>2. r[i] = queue.pending[(i - 1) + lost]
        BY <2>3, <4>1
      <4>3. u[i] = s[i + lost]
        BY <2>4, <2>6, <4>1
      <4>4. s[i + lost] = queue.pending[(i - 1) + lost]
        BY <2>2, <4>1
      <4> QED BY <4>2, <4>3, <4>4
    <3> QED BY <3>1, <3>2, <3>3
  <2>9. r = u
    BY <2>3, <2>6, <2>7, <2>8, SeqEqual
  <2> QED BY <2>5, <2>9
<1> QED BY <1>1, <1>2

\* A handler that returns takes the first off the line.
LEMMA FinishMaps ==
  ASSUME NEW queue, QueueKept(queue), queue.attending # Nobody
  PROVE  Line(queue) # <<>> /\ Line(Finish(queue)) = Tail(Line(queue))
<1> PICK new : new = Finish(queue)
  OBVIOUS
<1> PICK s : s = Line(queue)
  OBVIOUS
<1>0. /\ QueueKept(new) /\ queue \in QueueState /\ new \in QueueState
      /\ Len(queue.pending) \in Nat /\ Len(new.pending) \in Nat
  BY FinishOneName DEF QueueKept, QueueState
<1>1. /\ s \in Seq(ChangeMessage) /\ Len(s) = Len(queue.pending) + 1
      /\ \A i \in 1 .. Len(queue.pending) : s[i + 1] = queue.pending[i]
  BY <1>0, LineIs
<1>2. s # <<>>
  BY <1>0, <1>1
<1> PICK t : t = Tail(s)
  OBVIOUS
<1>3. /\ t \in Seq(ChangeMessage) /\ Len(t) = Len(queue.pending)
      /\ \A i \in 1 .. Len(queue.pending) : t[i] = queue.pending[i]
  <2>1. t \in Seq(ChangeMessage) /\ Len(t) = Len(s) - 1
        /\ \A i \in 1 .. Len(t) : t[i] = s[i + 1]
    BY <1>1, <1>2, HeadTailProperties
  <2>2. Len(t) = Len(queue.pending)
    BY <1>0, <1>1, <2>1
  <2> QED BY <1>1, <2>1, <2>2
<1>4. CASE queue.pending = <<>>
  <2>1. new.attending = Nobody /\ Len(t) = 0
    BY <1>3, <1>4, FinishOneName
  <2> QED BY <1>2, <1>3, <2>1, EmptySeq DEF Line
<1>5. CASE queue.pending # <<>>
  <2>1. /\ new.attending = queue.pending[1] /\ new.attending # Nobody
        /\ Len(new.pending) = Len(queue.pending) - 1
        /\ \A i \in 1 .. Len(queue.pending) - 1 : new.pending[i] = queue.pending[i + 1]
    BY <1>5, FinishOneName
  <2>2. /\ Line(new) \in Seq(ChangeMessage) /\ Len(Line(new)) = Len(new.pending) + 1
        /\ Line(new)[1] = new.attending
        /\ \A i \in 1 .. Len(new.pending) : Line(new)[i + 1] = new.pending[i]
    BY <1>0, <2>1, LineIs
  <2> PICK r : r = Line(new)
    OBVIOUS
  <2>3. Len(r) = Len(t)
    BY <1>0, <1>3, <2>1, <2>2
  <2>4. ASSUME NEW i \in 1 .. Len(r)
        PROVE  r[i] = t[i]
    <3>1. CASE i = 1
      BY <1>0, <1>3, <2>1, <2>2, <2>3, <3>1
    <3>2. CASE i # 1
      <4>1. i - 1 \in 1 .. Len(new.pending) /\ (i - 1) + 1 = i
            /\ i \in 1 .. Len(queue.pending) /\ i - 1 \in 1 .. Len(queue.pending) - 1
        BY <1>0, <1>3, <2>1, <2>2, <2>3, <3>2
      <4>2. r[i] = new.pending[i - 1]
        BY <2>2, <4>1
      <4>3. new.pending[i - 1] = queue.pending[i]
        BY <2>1, <4>1
      <4> QED BY <1>3, <4>1, <4>2, <4>3
    <3> QED BY <3>1, <3>2
  <2>5. r = t
    BY <1>3, <2>2, <2>3, <2>4, SeqEqual
  <2> QED BY <1>2, <2>5
<1> QED BY <1>4, <1>5

\* What a step of a module does to what it hears of and to its queue.
SameLine(cl, new) == (new.heard <=> cl.heard) /\ new.queue = cl.queue
Begins(cl, new) == ~cl.heard /\ new.heard /\ new.queue = cl.queue
Handles(cl, new) ==
  /\ new.heard <=> cl.heard
  /\ cl.queue.attending # Nobody
  /\ new.queue = Finish(cl.queue)
Ends(new) == ~new.heard /\ new.queue = IdleQueue

ModuleStep(cl, new) ==
  SameLine(cl, new) \/ Begins(cl, new) \/ Handles(cl, new) \/ Ends(new)

LEMMA ClientFeed ==
  ASSUME IInv, NEW c \in Clients, ClientStep(c)
  PROVE  /\ value' = value /\ \A d \in Clients : d # c => client'[d] = client[d]
         /\ ModuleStep(client[c], client'[c])
<1> PICK cl : cl = client[c]
  OBVIOUS
<1>0. cl \in ClientState /\ client \in [Clients -> ClientState]
  BY DEF IInv
<1>1. ASSUME NEW new, Becomes(c, new)
      PROVE  /\ value' = value /\ \A d \in Clients : d # c => client'[d] = client[d]
             /\ client'[c] = new
  BY <1>0, <1>1 DEF Becomes
<1>2. ASSUME NEW new, Becomes(c, new), ModuleStep(cl, new)
      PROVE  /\ value' = value /\ \A d \in Clients : d # c => client'[d] = client[d]
             /\ ModuleStep(client[c], client'[c])
  BY <1>1, <1>2
<1>3. CASE ClientStarts(c)
  <2> PICK new : new = [cl EXCEPT !.place = 1]
    OBVIOUS
  <2>1. Becomes(c, new)
    BY <1>3 DEF ClientStarts
  <2>2. new.heard = cl.heard /\ new.queue = cl.queue
    BY <1>0 DEF ClientState
  <2> QED BY <1>2, <2>1, <2>2 DEF ModuleStep, SameLine
<1>4. CASE ClientEnds(c) \/ AnswerNotFound(c)
  <2>1. Becomes(c, Down)
    BY <1>4 DEF ClientEnds, AnswerNotFound
  <2>2. ~Down.heard /\ Down.queue = IdleQueue
    BY DEF Down
  <2> QED BY <1>2, <2>1, <2>2 DEF ModuleStep, Ends
<1>5. CASE Answer(c)
  <2> PICK n0 : n0 = Wanted[c][cl.place].param
    OBVIOUS
  <2> PICK new : new = [cl EXCEPT !.reply = value[Joined[n0]],
                                  !.told = IF n0 \in cl.known \cup Underway(cl.queue)
                                             THEN @ ELSE @ \cup {n0}]
    OBVIOUS
  <2>1. Becomes(c, new)
    BY <1>5 DEF Answer
  <2>2. new.heard = cl.heard /\ new.queue = cl.queue
    BY <1>0 DEF ClientState
  <2> QED BY <1>2, <2>1, <2>2 DEF ModuleStep, SameLine
<1>6. CASE Install(c) \/ InstallFromCommandLine(c)
  <2> PICK wanted, n0 : wanted = Wanted[c][cl.place] /\ n0 = wanted.param
    OBVIOUS
  <2>1. ClientOK(c, cl)
    BY DEF IInv, Sound
  <2>2. PICK new : /\ Becomes(c, new) /\ InstalledAs(cl, n0, new)
                   /\ new.heard <=> cl.heard \/ wanted.subscribe
    <3>1. CASE Install(c)
      BY <2>1, <3>1, InstallMakes
    <3>2. CASE InstallFromCommandLine(c)
      BY <2>1, <3>2, CommandLineMakes
    <3> QED BY <1>6, <3>1, <3>2
  <2>3. wanted.subscribe \in BOOLEAN /\ cl.heard \in BOOLEAN /\ new.queue = cl.queue
    <3>1. wanted.subscribe \in BOOLEAN
      BY <1>6, <2>1, InstallMakes, CommandLineMakes
    <3> QED BY <1>0, <2>2, <3>1 DEF InstalledAs, ClientState
  <2>4. ModuleStep(cl, new)
    BY <2>2, <2>3 DEF ModuleStep, SameLine, Begins
  <2> QED BY <1>2, <2>2, <2>4
<1>7. ASSUME NEW p0 \in Names, Subscribe(c, p0)
      PROVE  /\ value' = value /\ \A d \in Clients : d # c => client'[d] = client[d]
             /\ ModuleStep(client[c], client'[c])
  <2> PICK new : new = [cl EXCEPT !.known = @ \cup {p0}, !.followed = @ \cup {p0},
                                  !.heard = TRUE,
                                  !.told = IF p0 \in cl.known THEN @ ELSE @ \ {p0}]
    OBVIOUS
  <2>1. new.heard = TRUE /\ new.queue = cl.queue
    BY <1>0 DEF ClientState
  <2>2. Becomes(c, new)
    BY <1>7 DEF Subscribe
  <2>3. ModuleStep(cl, new)
    BY <1>0, <2>1 DEF ModuleStep, SameLine, Begins
  <2> QED BY <1>2, <2>2, <2>3
<1>8. CASE HandleChange(c)
  <2> PICK after : after = Finish(cl.queue)
    OBVIOUS
  <2>1. \E new : Becomes(c, new) /\ new.heard = cl.heard /\ new.queue = after
    <3> PICK p, v : p = cl.queue.attending.param /\ v = cl.queue.attending.value
      OBVIOUS
    <3>1. CASE p \in cl.followed
      <4> PICK new : new = [cl EXCEPT !.queue = after, !.copy[p] = Converted(p, v, @)]
        OBVIOUS
      <4>1. Becomes(c, new)
        BY <1>8, <3>1 DEF HandleChange
      <4>2. new.heard = cl.heard /\ new.queue = after
        BY <1>0 DEF ClientState
      <4> QED BY <4>1, <4>2
    <3>2. CASE p \notin cl.followed
      <4> PICK told : told = IF p \in Underway(after) \/ Has(c, p) = v
                               THEN cl.told ELSE cl.told \ {p}
        OBVIOUS
      <4> PICK new : new = [cl EXCEPT !.queue = after, !.told = told]
        OBVIOUS
      <4>1. Becomes(c, new)
        BY <1>8, <3>2 DEF HandleChange
      <4>2. new.heard = cl.heard /\ new.queue = after
        BY <1>0 DEF ClientState
      <4> QED BY <4>1, <4>2
    <3> QED BY <3>1, <3>2
  <2>2. cl.queue.attending # Nobody
    BY <1>8 DEF HandleChange
  <2> QED BY <1>2, <2>1, <2>2 DEF ModuleStep, Handles
<1> QED BY <1>3, <1>4, <1>5, <1>6, <1>7, <1>8 DEF ClientStep

\* A change that is published is one line further for all that hear of it.
LEMMA PublishLine ==
  ASSUME NEW cl \in ClientState, NEW msg \in ChangeMessage
  PROVE  /\ Publish(cl, msg).heard <=> cl.heard
         /\ Publish(cl, msg).queue = IF cl.heard THEN Arrive(cl.queue, msg) ELSE cl.queue
<1> PICK namesakes : namesakes = {n \in Names : Joined[n] = Joined[msg.param]}
  OBVIOUS
<1>1. CASE cl.heard
  <2> PICK queue : queue = Arrive(cl.queue, msg)
    OBVIOUS
  <2> PICK told : told = (cl.told \ ((Waits(cl.queue) \ Waits(queue)) \cup namesakes))
                        \cup {msg.param}
    OBVIOUS
  <2>1. Publish(cl, msg) = [cl EXCEPT !.queue = queue, !.told = told]
    BY <1>1 DEF Publish
  <2> QED BY <1>1, <2>1 DEF ClientState
<1>2. CASE ~cl.heard
  <2>1. Publish(cl, msg) = [cl EXCEPT !.told = @ \ namesakes]
    BY <1>2 DEF Publish
  <2> QED BY <1>2, <2>1 DEF ClientState
<1> QED BY <1>1, <1>2

LEMMA HeardInvariant == Spec => []HeardInv
<1>1. Init => HeardInv
  BY DEF Init, HeardInv, Quiet, Down
<1>2. ASSUME IInv, HeardInv, [Next]_vars PROVE HeardInv'
  <2> SUFFICES ASSUME NEW d \in Clients PROVE Quiet(client'[d])
    BY DEF HeardInv
  <2>1. Quiet(client[d]) /\ client[d] \in ClientState
    BY <1>2 DEF HeardInv, IInv
  <2>2. ASSUME NEW p \in Params, NEW v \in Values, SetParam(p, v)
        PROVE  Quiet(client'[d])
    <3>1. Published(p, v) \in ChangeMessage /\ client'[d] = Publish(client[d], Published(p, v))
      BY <2>2, NameIs DEF SetParam, Published, Change, ChangeMessage
    <3> QED BY <2>1, <3>1, PublishLine DEF Quiet
  <2>3. CASE DaemonEnds \/ UNCHANGED vars
    BY <2>1, <2>3 DEF DaemonEnds, vars
  <2>4. CASE DaemonStarts
    <3>1. client'[d] = [client[d] EXCEPT !.told = {p \in @ : value'[Joined[p]] = value[Joined[p]]}]
      BY <2>4 DEF DaemonStarts
    <3>2. client'[d].heard = client[d].heard /\ client'[d].queue = client[d].queue
      BY <2>1, <3>1 DEF ClientState
    <3> QED BY <2>1, <3>2 DEF Quiet
  <2>5. ASSUME NEW c \in Clients, ClientStep(c)
        PROVE  Quiet(client'[d])
    <3>1. CASE d = c
      BY <1>2, <2>1, <2>5, <3>1, ClientFeed
         DEF ModuleStep, SameLine, Begins, Handles, Ends, Quiet, IdleQueue
    <3>2. CASE d # c
      BY <1>2, <2>1, <2>5, <3>2, ClientFeed
    <3> QED BY <3>1, <3>2
  <2> QED BY <1>2, <2>2, <2>3, <2>4, <2>5 DEF Next
<1> QED BY <1>1, <1>2, IInvInvariant, PTL DEF Spec

-----------------------------------------------------------------------------
(* The steps of the feed. *)

LEMMA ModuleMaps ==
  ASSUME IInv, HeardInv, NEW c \in Clients, ClientStep(c)
  PROVE  [Feed!FeedNext]_(Feed!feedVars)
<1> PICK cl : cl = client[c]
  OBVIOUS
<1> PICK new : new = client'[c]
  OBVIOUS
<1>1. /\ value' = value /\ \A d \in Clients : d # c => client'[d] = client[d]
      /\ ModuleStep(cl, new)
      /\ cl \in ClientState /\ QueueKept(cl.queue) /\ Quiet(cl)
  <2>1. Sound(c, cl, value) /\ cl \in ClientState
    BY DEF IInv
  <2> QED BY <2>1, ClientFeed, ClientQueue DEF Sound, HeardInv
<1>2. \A d \in Clients : d # c => (d \in Hearing' <=> d \in Hearing) /\ Lines'[d] = Lines[d]
  BY <1>1 DEF Hearing, Lines
<1>3. /\ c \in Hearing <=> cl.heard
      /\ c \in Hearing' <=> new.heard
      /\ Lines[c] = Line(cl.queue) /\ Lines'[c] = Line(new.queue)
  BY DEF Hearing, Lines
<1>4. /\ Hearing \in SUBSET Clients /\ Hearing' \in SUBSET Clients
      /\ Lines = [d \in Clients |-> Lines[d]] /\ Lines' = [d \in Clients |-> Lines'[d]]
  BY DEF Hearing, Lines
<1>5. Line(IdleQueue) = <<>>
  BY DEF Line, IdleQueue
<1>6. ASSUME new.heard <=> cl.heard PROVE Hearing' = Hearing
  BY <1>2, <1>3, <1>4, <1>6
<1>7. ASSUME Line(new.queue) = Line(cl.queue) PROVE Lines' = Lines
  <2>1. \A d \in Clients : Lines'[d] = Lines[d]
    BY <1>2, <1>3, <1>7
  <2> QED BY <1>4, <2>1
<1>8. Lines' = [Lines EXCEPT ![c] = Line(new.queue)]
  <2> PICK lines : lines = [Lines EXCEPT ![c] = Line(new.queue)]
    OBVIOUS
  <2>1. \A d \in Clients : lines[d] = Lines'[d]
    BY <1>2, <1>3, <1>4
  <2>2. lines = [d \in Clients |-> lines[d]]
    BY <1>4
  <2> QED BY <1>4, <2>1, <2>2
<1>9. CASE SameLine(cl, new)
  BY <1>1, <1>6, <1>7, <1>9 DEF SameLine, Feed!feedVars
<1>10. CASE Begins(cl, new)
  <2>1. Line(cl.queue) = <<>> /\ Line(new.queue) = <<>>
    BY <1>1, <1>5, <1>10 DEF Begins, Quiet
  <2>2. Hearing' = Hearing \cup {c}
    BY <1>2, <1>3, <1>4, <1>10 DEF Begins
  <2>3. Feed!Hear(c)
    BY <1>1, <1>3, <1>7, <1>10, <2>1, <2>2 DEF Begins, Feed!Hear
  <2> QED BY <2>3 DEF Feed!FeedNext
<1>11. CASE Handles(cl, new)
  <2>1. Line(cl.queue) # <<>> /\ Line(new.queue) = Tail(Line(cl.queue))
    BY <1>1, <1>11, FinishMaps DEF Handles
  <2>2. Lines' = [Lines EXCEPT ![c] = Tail(@)]
    BY <1>3, <1>8, <2>1
  <2>3. Feed!Handle(c)
    BY <1>1, <1>3, <1>6, <1>11, <2>1, <2>2 DEF Handles, Feed!Handle
  <2> QED BY <2>3 DEF Feed!FeedNext
<1>12. CASE Ends(new)
  <2>1. Line(new.queue) = <<>>
    BY <1>5, <1>12 DEF Ends
  <2>2. CASE cl.heard
    <3>1. Hearing' = Hearing \ {c}
      BY <1>2, <1>3, <1>4, <1>12 DEF Ends
    <3>2. Feed!Leave(c)
      BY <1>1, <1>3, <1>8, <2>1, <2>2, <3>1 DEF Feed!Leave
    <3> QED BY <3>2 DEF Feed!FeedNext
  <2>3. CASE ~cl.heard
    <3>1. Line(cl.queue) = <<>>
      BY <1>1, <1>5, <2>3 DEF Quiet
    <3> QED BY <1>1, <1>6, <1>7, <1>12, <2>1, <2>3, <3>1 DEF Ends, Feed!feedVars
  <2> QED BY <2>2, <2>3
<1> QED BY <1>1, <1>9, <1>10, <1>11, <1>12 DEF ModuleStep

LEMMA SetParamMaps ==
  ASSUME IInv, NEW p \in Params, NEW v \in Values, SetParam(p, v)
  PROVE  Feed!Store(p, v)
<1> PICK msg : msg = [name |-> "change", param |-> Split[p], value |-> v]
  OBVIOUS
<1>1. msg \in ChangeMessage /\ Published(p, v) = msg
  BY NameIs DEF Published, Change, ChangeMessage
<1>2. /\ value' = [value EXCEPT ![p] = v]
      /\ \A c \in Clients : client'[c] = Publish(client[c], msg)
  BY <1>1 DEF SetParam
<1>3. ASSUME NEW c \in Clients
      PROVE  /\ client'[c].heard <=> client[c].heard
             /\ Line(client'[c].queue)
                  = IF client[c].heard THEN Feed!Longer(Line(client[c].queue), msg)
                    ELSE Line(client[c].queue)
  <2>1. client[c] \in ClientState /\ QueueKept(client[c].queue)
    BY ClientQueue DEF IInv, Sound
  <2> QED BY <1>1, <1>2, <2>1, PublishLine, ArriveMaps
<1>4. Hearing' = Hearing
  BY <1>3 DEF Hearing
<1>5. Lines' = [c \in Clients |->
                  IF c \in Hearing THEN Feed!Longer(Lines[c], msg) ELSE Lines[c]]
  BY <1>3 DEF Hearing, Lines
<1> QED BY <1>2, <1>4, <1>5 DEF Feed!Store

LEMMA DaemonMaps ==
  ASSUME IInv, DaemonEnds \/ DaemonStarts \/ UNCHANGED vars
  PROVE  [Feed!FeedNext]_(Feed!feedVars)
<1>1. CASE DaemonEnds \/ UNCHANGED vars
  BY <1>1 DEF DaemonEnds, vars, Hearing, Lines, Feed!feedVars
<1>2. CASE DaemonStarts
  <2>1. ASSUME NEW c \in Clients
        PROVE  client'[c].heard = client[c].heard /\ client'[c].queue = client[c].queue
    <3>1. client[c] \in ClientState
      BY DEF IInv
    <3>2. client'[c] = [client[c] EXCEPT !.told = {p \in @ : value'[Joined[p]] = value[Joined[p]]}]
      BY <1>2 DEF DaemonStarts
    <3> QED BY <3>1, <3>2 DEF ClientState
  <2>2. Hearing' = Hearing /\ Lines' = Lines
    BY <2>1 DEF Hearing, Lines
  <2>3. Feed!Reload
    BY <1>2, <2>2 DEF DaemonStarts, Feed!Reload, Feed!Tables
  <2> QED BY <2>3 DEF Feed!FeedNext
<1> QED BY <1>1, <1>2

\* Central, the daemon and the modules implement the feed: for any modules,
\* parameters, values and limit, changes arrive in the order and with the values in
\* which they were stored, once, and only the oldest that waits is ever missed.
THEOREM ImplementsChangeFeed == Spec => FeedsKept
<1>1. Init => Feed!FeedInit
  <2> SUFFICES ASSUME Init PROVE Feed!FeedInit
    OBVIOUS
  <2>1. \A c \in Clients : ~client[c].heard /\ client[c].queue = IdleQueue
    BY DEF Init, Down
  <2>2. Hearing = {} /\ Lines = [c \in Clients |-> <<>>]
    BY <2>1 DEF Hearing, Lines, Line, IdleQueue
  <2> QED BY <2>2 DEF Init, Feed!FeedInit, Feed!Tables
<1>2. IInv /\ HeardInv /\ [Next]_vars => [Feed!FeedNext]_(Feed!feedVars)
  <2> SUFFICES ASSUME IInv, HeardInv, [Next]_vars
               PROVE  [Feed!FeedNext]_(Feed!feedVars)
    OBVIOUS
  <2>1. CASE \E p \in Params, v \in Values : SetParam(p, v)
    BY <2>1, SetParamMaps DEF Feed!FeedNext
  <2>2. CASE \E c \in Clients : ClientStep(c)
    BY <2>2, ModuleMaps
  <2> QED BY <2>1, <2>2, DaemonMaps DEF Next
<1> QED BY <1>1, <1>2, IInvInvariant, HeardInvariant, PTL
        DEF Spec, FeedsKept, Feed!FeedSpec
=============================================================================
