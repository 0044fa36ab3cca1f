------------------------------ MODULE LaserFeed ------------------------------
(***************************************************************************)
(* LaserServer as an implementation of ScanFeed: the line of scans is what *)
(* the ring holds from its head on.                                        *)
(***************************************************************************)
EXTENDS LaserServer

Line == [i \in 1 .. size |-> readings[Slot(head + i - 1)]]

Feed == INSTANCE ScanFeed WITH arrived <- scans, waiting <- Line, taken <- m

\* The ring hands the scans of all lasers to the main thread in the order in which
\* they arrived, none twice, and loses none but the oldest when it is full,
\* wherever head and tail wrap around.
FeedKept == Feed!FeedSpec
=============================================================================
