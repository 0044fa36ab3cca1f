------------------------------- MODULE ScanFeed -------------------------------
(***************************************************************************)
(* What the laser server promises of the scans of its lasers, without the  *)
(* ring, the semaphore and the threads: scans wait in one line, at most    *)
(* Size of them, and are taken in the order in which they arrived.  A scan *)
(* that arrives while the line is full drives out the oldest.  LaserFeed   *)
(* shows that LaserServer implements this.                                 *)
(***************************************************************************)
EXTENDS Naturals, Sequences

CONSTANTS Lasers, Size, NoScan

VARIABLES
  arrived,   \* how many scans each laser has sent
  waiting,   \* the line, oldest first
  taken      \* the scan that was taken last

feedVars == <<arrived, waiting, taken>>

FeedInit ==
  /\ arrived = [l \in Lasers |-> 0]
  /\ waiting = <<>>
  /\ taken = NoScan

Arrive(l) ==
  /\ arrived' = [arrived EXCEPT ![l] = @ + 1]
  /\ waiting' = Append(IF Len(waiting) = Size THEN Tail(waiting) ELSE waiting,
                       [id |-> l, n |-> arrived[l] + 1])
  /\ UNCHANGED taken

Take ==
  /\ waiting # <<>>
  /\ taken' = Head(waiting)
  /\ waiting' = Tail(waiting)
  /\ UNCHANGED arrived

FeedNext == Take \/ \E l \in Lasers : Arrive(l)

FeedSpec == FeedInit /\ [][FeedNext]_feedVars
=============================================================================
