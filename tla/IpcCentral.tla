----------------------------- MODULE IpcCentral -----------------------------
(***************************************************************************)
(* The dispatcher of central, the message server every CARMEN module is    *)
(* connected to (src/src/ipc, compiled with NMP_IPC).  Central hands a      *)
(* receiver one message at a time: the message it attends to is out at the  *)
(* receiver until the receiver reports that its handler has returned, and   *)
(* the others wait in a list.  A receiver bounds the messages of one name   *)
(* that wait (IPC_setMsgQueueLength); every CARMEN handler modelled here    *)
(* asks for 1.                                                              *)
(*                                                                          *)
(* The state of one receiver is a record [attending, pending]; a message is *)
(* a record with at least the field name.                                   *)
(***************************************************************************)
EXTENDS Integers, Sequences, FiniteSets

CONSTANT QueueLimit   \* messages of one name that may wait for a receiver

ASSUME QueueLimitAssumption == QueueLimit \in Nat \ {0}

Nobody == [name |-> "none"]

IdleQueue == [attending |-> Nobody, pending |-> <<>>]

\* Where the messages of a name wait in a list.
Waiting(list, name) == {i \in DOMAIN list : list[i].name = name}

\* The slot of the same name behind slot i, if there is one.
Behind(list, i) ==
  {j \in DOMAIN list : j > i /\ list[j].name = list[i].name}

Nearest(slots) == CHOOSE j \in slots : \A k \in slots : j <= k

\* The list keeps its length when the limit is met: the oldest message of the
\* name is dropped, the others of that name move up one slot of theirs, and the
\* new one is put in the last slot of the name, in front of every message of
\* another name that arrived since.
ReplaceOldest(list, msg) ==
  [i \in DOMAIN list |->
     IF list[i].name # msg.name THEN list[i]
     ELSE IF Behind(list, i) = {} THEN msg
     ELSE list[Nearest(Behind(list, i))]]

AddPending_OneMore(list, msg) ==
  IF Cardinality(Waiting(list, msg.name)) <= QueueLimit
    THEN Append(list, msg)
    ELSE ReplaceOldest(list, msg)
AddPending(list, msg) ==
  IF Cardinality(Waiting(list, msg.name)) < QueueLimit
    THEN Append(list, msg)
    ELSE ReplaceOldest(list, msg)

\* Central receives a message for the receiver.
Arrive(queue, msg) ==
  IF queue.attending = Nobody
    THEN [queue EXCEPT !.attending = msg]
    ELSE [queue EXCEPT !.pending = AddPending(@, msg)]

\* The receiver's handler has returned and the first waiting message goes out.
Finish_Forgets(queue) == [queue EXCEPT !.attending = Nobody]
Finish(queue) ==
  IF queue.pending = <<>>
    THEN [queue EXCEPT !.attending = Nobody]
    ELSE [attending |-> Head(queue.pending), pending |-> Tail(queue.pending)]

-----------------------------------------------------------------------------
(* What the queue of a receiver should look like. *)

WithinLimit(queue) ==
  \A i \in DOMAIN queue.pending :
    Cardinality(Waiting(queue.pending, queue.pending[i].name)) <= QueueLimit

WaitsOnlyBehind(queue) == queue.attending = Nobody => queue.pending = <<>>

\* The names of the messages that a new one gets ahead of, as it takes over the
\* slot of an older one.
Overtaken(queue, msg) ==
  LET slots == Waiting(queue.pending, msg.name) IN
  IF queue.attending = Nobody \/ Cardinality(slots) < QueueLimit
    THEN {}
    ELSE {queue.pending[i].name :
            i \in {j \in DOMAIN queue.pending : \A k \in slots : j > k}}
=============================================================================
