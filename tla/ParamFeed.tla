------------------------------- MODULE ParamFeed -------------------------------
(***************************************************************************)
(* ParamServer as an implementation of ChangeFeed: the line of a module is *)
(* the change central has handed to it and those that wait behind.         *)
(***************************************************************************)
EXTENDS ParamServer

Line(queue) ==
  IF queue.attending = Nobody THEN <<>> ELSE <<queue.attending>> \o queue.pending

Hearing == {c \in Clients : client[c].heard}

Lines == [c \in Clients |-> Line(client[c].queue)]

Feed == INSTANCE ChangeFeed WITH
  Hearers <- Clients, Names <- Params, Title <- Split, Contents <- Values,
  Unknown <- Absent, Limit <- QueueLimit, stored <- value, hearing <- Hearing, line <- Lines

\* A module is handed the changes in the order in which the daemon stored the
\* values, each as it was stored and once, and misses only what was the oldest in
\* a full line, although central replaces messages in place; it begins with an
\* empty line when it first subscribes and leaves none behind when it ends.
FeedsKept == Feed!FeedSpec
=============================================================================
