----------------------------- MODULE LaserServer -----------------------------
(***************************************************************************)
(* The laser server: a thread for each laser reads its scans and puts them *)
(* into a ring buffer, the main thread takes them out and publishes them.  *)
(*                                                                         *)
(* What is done under the mutex of the ring is one step.  Outside it are   *)
(* the post of the semaphore after a scan was added, and the look at the   *)
(* size before one is taken.  A scan is its laser and its number; its      *)
(* readings and timestamps are left out.                                   *)
(***************************************************************************)
EXTENDS Integers, FiniteSets

CONSTANTS
  Lasers,        \* the lasers this instance uses
  Size,          \* CARMEN_LASER_MESSAGE_QUEQE_SIZE
  Calibration,   \* scans of each laser that only serve to time it
  MaxScans,      \* bound: scans a laser sends before it falls silent
  NoScan         \* what is in a slot nothing was put into

ASSUME LaserAssumption ==
  /\ IsFiniteSet(Lasers)
  /\ Size \in Nat \ {0}
  /\ Calibration \in Nat
  /\ MaxScans \in Nat

VARIABLES
  readings, head, tail, size,   \* carmen_laser_queue
  semaphore,                    \* and its semaphore
  hasToStop,                    \* carmen_laser_has_to_stop
  thread,                       \* where the thread of each laser is
  calibrating,                  \* scans it still needs to time its laser
  scans,                        \* how many scans of each laser were enqueued
  main,                         \* where the main thread is
  m                             \* the scan it took last

ring == <<readings, head, tail, size>>
vars == <<ring, semaphore, hasToStop, thread, calibrating, scans, main, m>>

Scan == [id : Lasers, n : Nat]

LaserTypeOK ==
  /\ readings \in [0 .. Size - 1 -> Scan \cup {NoScan}]
  /\ head \in 0 .. Size - 1 /\ tail \in 0 .. Size - 1
  /\ size \in 0 .. Size
  /\ semaphore \in 0 .. Size
  /\ hasToStop \in BOOLEAN
  /\ thread \in [Lasers -> {"starting", "checking", "handling", "posting",
                            "stopping", "ended"}]
  /\ calibrating \in [Lasers -> 0 .. Calibration]
  /\ scans \in [Lasers -> 0 .. MaxScans]
  /\ main \in {"checking", "waiting", "woken", "taking", "publishing", "joining",
               "ended"}
  /\ m \in Scan \cup {NoScan}

Init ==
  /\ readings = [i \in 0 .. Size - 1 |-> NoScan]
  /\ head = 0 /\ tail = 0 /\ size = 0
  /\ semaphore = 0
  /\ hasToStop = FALSE
  /\ thread = [l \in Lasers |-> "starting"]
  /\ calibrating = [l \in Lasers |-> Calibration]
  /\ scans = [l \in Lasers |-> 0]
  /\ main = "checking"
  /\ m = NoScan

-----------------------------------------------------------------------------
(* The ring buffer, under its mutex. *)

\* Head and tail wrap around.
Slot(i) == i % Size

\* A scan goes in at the tail.  In a full ring that is where the oldest is, and
\* the head moves on past it.
Add_ForgetsHead(scan) ==
  /\ readings' = [readings EXCEPT ![tail] = scan]
  /\ tail' = Slot(tail + 1)
  /\ size' = IF size = Size THEN size ELSE size + 1
  /\ UNCHANGED head
Add(scan) ==
  /\ readings' = [readings EXCEPT ![tail] = scan]
  /\ tail' = Slot(tail + 1)
  /\ IF size = Size
       THEN head' = Slot(head + 1) /\ UNCHANGED size
       ELSE size' = size + 1 /\ UNCHANGED head

\* The semaphore counts the scans that were added, not those that took the place
\* of another.
Posts_Always == TRUE
Posts_WhenEmpty == size = 0
Posts == size < Size

\* The size is decremented, and looked at for the scan only.
Get ==
  /\ IF size > 0
       THEN m' = readings[head] /\ head' = Slot(head + 1)
       ELSE UNCHANGED <<m, head>>
  /\ size' = size - 1
  /\ UNCHANGED <<readings, tail>>

-----------------------------------------------------------------------------
(* The thread of a laser. *)

Goes(l, from, to) ==
  /\ thread[l] = from
  /\ thread' = [thread EXCEPT ![l] = to]

\* The laser is told to send scans.  One that cannot be started stops the server.
Starts(l) ==
  /\ \/ Goes(l, "starting", "checking") /\ UNCHANGED hasToStop
     \/ Goes(l, "starting", "ended") /\ hasToStop' = TRUE
  /\ UNCHANGED <<ring, semaphore, calibrating, scans, main, m>>

Checks_Never(l) ==
  /\ Goes(l, "checking", "handling")
  /\ UNCHANGED <<ring, semaphore, hasToStop, calibrating, scans, main, m>>
Checks(l) ==
  /\ Goes(l, "checking", IF hasToStop THEN "stopping" ELSE "handling")
  /\ UNCHANGED <<ring, semaphore, hasToStop, calibrating, scans, main, m>>

\* No scan within the time-out of the device, or a broken one.
HearsNothing(l) ==
  /\ Goes(l, "handling", "checking")
  /\ UNCHANGED <<ring, semaphore, hasToStop, calibrating, scans, main, m>>

\* The first scans tell the period of the laser.
Calibrates(l) ==
  /\ calibrating[l] > 0
  /\ Goes(l, "handling", "checking")
  /\ calibrating' = [calibrating EXCEPT ![l] = @ - 1]
  /\ UNCHANGED <<ring, semaphore, hasToStop, scans, main, m>>

Enqueues(l) ==
  /\ calibrating[l] = 0 /\ scans[l] < MaxScans
  /\ Goes(l, "handling", IF Posts THEN "posting" ELSE "checking")
  /\ scans' = [scans EXCEPT ![l] = @ + 1]
  /\ Add([id |-> l, n |-> scans[l] + 1])
  /\ UNCHANGED <<semaphore, hasToStop, calibrating, main, m>>

PostsSemaphore(l) ==
  /\ Goes(l, "posting", "checking")
  /\ semaphore' = semaphore + 1
  /\ UNCHANGED <<ring, hasToStop, calibrating, scans, main, m>>

\* The laser is told to stop sending; one that does not answer is told again.
Stops(l) ==
  /\ Goes(l, "stopping", "ended")
  /\ UNCHANGED <<ring, semaphore, hasToStop, calibrating, scans, main, m>>

ThreadStep(l) ==
  \/ Starts(l) \/ Checks(l) \/ HearsNothing(l) \/ Calibrates(l)
  \/ Enqueues(l) \/ PostsSemaphore(l) \/ Stops(l)

-----------------------------------------------------------------------------
(* The main thread. *)

MainGoes(from, to) == main = from /\ main' = to

MainChecks ==
  /\ MainGoes("checking", IF hasToStop THEN "joining" ELSE "waiting")
  /\ UNCHANGED <<ring, semaphore, hasToStop, thread, calibrating, scans, m>>

\* sem_wait.  A signal does not end it: signal installs handlers that restart it.
MainWaits ==
  /\ semaphore > 0
  /\ MainGoes("waiting", "woken")
  /\ semaphore' = semaphore - 1
  /\ UNCHANGED <<ring, hasToStop, thread, calibrating, scans, m>>

\* The size is looked at without the mutex.  In an empty ring there is nothing to
\* take, and what was taken last is published once more.
MainLooks ==
  /\ MainGoes("woken", IF size = 0 THEN "publishing" ELSE "taking")
  /\ UNCHANGED <<ring, semaphore, hasToStop, thread, calibrating, scans, m>>

MainTakes ==
  /\ MainGoes("taking", "publishing")
  /\ Get
  /\ UNCHANGED <<semaphore, hasToStop, thread, calibrating, scans>>

MainPublishes ==
  /\ MainGoes("publishing", "checking")
  /\ UNCHANGED <<ring, semaphore, hasToStop, thread, calibrating, scans, m>>

\* The threads are joined, the devices closed.
MainJoins ==
  /\ \A l \in Lasers : thread[l] = "ended"
  /\ MainGoes("joining", "ended")
  /\ UNCHANGED <<ring, semaphore, hasToStop, thread, calibrating, scans, m>>

MainStep ==
  MainChecks \/ MainWaits \/ MainLooks \/ MainTakes \/ MainPublishes \/ MainJoins

\* SIGINT.
Interrupt ==
  /\ main # "ended"
  /\ hasToStop' = TRUE
  /\ UNCHANGED <<ring, semaphore, thread, calibrating, scans, main, m>>

Next == MainStep \/ Interrupt \/ \E l \in Lasers : ThreadStep(l)

Spec == Init /\ [][Next]_vars

\* The threads are scheduled, and the devices answer or time out.
FairSpec == Spec /\ WF_vars(MainStep) /\ \A l \in Lasers : WF_vars(ThreadStep(l))

-----------------------------------------------------------------------------
(* Properties. *)

\* A main thread that sem_wait has let through finds a scan, although the semaphore
\* is posted outside the mutex and scans are overwritten between its waking and
\* its taking: it never publishes an old scan as a new one, nor takes the size of
\* the ring below zero.
WokenFindsScan == main \in {"woken", "taking"} => size > 0

\* No scan is left in the ring with the main thread asleep: it is published or, in
\* a ring that is full, overwritten, unless the server is told to stop.
InRing(scan) == \E i \in 0 .. size - 1 : readings[Slot(head + i)] = scan
InHand(scan) == main = "publishing" /\ m = scan
Held(scan) == InRing(scan) \/ InHand(scan)

ScansMoveOn ==
  \A l \in Lasers, n \in 1 .. MaxScans :
    LET scan == [id |-> l, n |-> n]
    IN  Held(scan) ~> ~Held(scan) \/ hasToStop

\* A server that is told to stop, by a signal or by a laser that does not start, ends;
\* or all lasers have stopped with the main thread in sem_wait, which nobody posts
\* any more.
Deserted ==
  /\ main = "waiting" /\ semaphore = 0
  /\ \A l \in Lasers : thread[l] = "ended"

StopEnds == hasToStop ~> main = "ended" \/ Deserted
=============================================================================
