-------------------------- MODULE LaserServerProofs --------------------------
(***************************************************************************)
(* Theorems about LaserServer and LaserFeed, for any number of lasers and  *)
(* any size of the ring.                                                   *)
(*                                                                         *)
(* Everything rests on the account of the semaphore: the scans in the ring *)
(* are those it counts, those whose post is still to come, and the one the *)
(* main thread has been let through for.  With it the size never falls     *)
(* below zero, and the tail stays that far ahead of the head, which is     *)
(* what the order of the scans needs.                                      *)
(***************************************************************************)
EXTENDS LaserFeed, Sequences, FiniteSetTheorems, TLAPS

Posting == {l \in Lasers : thread[l] = "posting"}

LetThrough == IF main \in {"woken", "taking"} THEN 1 ELSE 0

SemaphoreCounts == size = semaphore + Cardinality(Posting) + LetThrough

TailFollows == tail = Slot(head + size)

\* The inductive invariant.
LaserInv == LaserTypeOK /\ SemaphoreCounts /\ TailFollows

-----------------------------------------------------------------------------
(* The arithmetic of the ring, and the threads that post. *)

\* An index that is moved on by at most the size of the ring wraps around once.
LEMMA Wrap ==
  ASSUME NEW i \in 0 .. 2 * Size - 1
  PROVE  Slot(i) = IF i < Size THEN i ELSE i - Size
  BY LaserAssumption, Z3T(30) DEF Slot

\* An index counted from the head, and the next one, turn around once at most.
LEMMA WithinTwoTurns ==
  ASSUME NEW n \in Nat, NEW s \in 0 .. n,
         NEW h \in 0 .. n - 1, NEW g \in 0 .. n - 1, NEW i \in 1 .. s - 1
  PROVE  h + i - 1 \in 0 .. 2 * n - 1 /\ g + (i + 1) - 1 \in 0 .. 2 * n - 1
  BY SMT

\* What the ring's part of the type says.
LEMMA RingType ==
  ASSUME LaserTypeOK
  PROVE  /\ Size \in Nat /\ Size > 0
         /\ head \in 0 .. Size - 1 /\ tail \in 0 .. Size - 1 /\ size \in 0 .. Size
         /\ readings \in [0 .. Size - 1 -> Scan \cup {NoScan}]
  BY LaserAssumption DEF LaserTypeOK

\* The threads that are about to post are finitely many.
LEMMA PostingFinite ==
  IsFiniteSet(Posting) /\ Cardinality(Posting) \in Nat
<1>1. IsFiniteSet(Posting)
  BY LaserAssumption, FS_Subset DEF Posting
<1> QED
  BY <1>1, FS_CardinalityType

\* A thread that takes a step adds itself to them, leaves them, or does neither.
LEMMA PostingMoves ==
  ASSUME LaserTypeOK, NEW l \in Lasers, NEW from, NEW to, Goes(l, from, to)
  PROVE  /\ from # "posting" /\ to # "posting" => Posting' = Posting
         /\ from # "posting" /\ to = "posting"
              => Cardinality(Posting') = Cardinality(Posting) + 1
         /\ from = "posting" /\ to # "posting"
              => Cardinality(Posting') = Cardinality(Posting) - 1
<1>1. /\ thread[l] = from
      /\ \A k \in Lasers : thread'[k] = IF k = l THEN to ELSE thread[k]
  BY DEF LaserTypeOK, Goes
<1>2. ASSUME from # "posting", to # "posting" PROVE Posting' = Posting
  BY <1>1, <1>2 DEF Posting
<1>3. ASSUME from # "posting", to = "posting"
      PROVE  Cardinality(Posting') = Cardinality(Posting) + 1
  <2>1. Posting' = Posting \cup {l} /\ l \notin Posting
    BY <1>1, <1>3 DEF Posting
  <2> QED
    BY <2>1, PostingFinite, FS_AddElement
<1>4. ASSUME from = "posting", to # "posting"
      PROVE  Cardinality(Posting') = Cardinality(Posting) - 1
  <2>1. Posting' = Posting \ {l} /\ l \in Posting
    BY <1>1, <1>4 DEF Posting
  <2> QED
    BY <2>1, PostingFinite, FS_RemoveElement
<1> QED
  BY <1>2, <1>3, <1>4

-----------------------------------------------------------------------------
(* The inductive invariant. *)

LEMMA LaserInitially == Init => LaserInv
<1> SUFFICES ASSUME Init PROVE LaserInv
  OBVIOUS
<1>1. LaserTypeOK
  <2>1. /\ 0 \in 0 .. Size - 1 /\ 0 \in 0 .. Size
        /\ Calibration \in 0 .. Calibration /\ 0 \in 0 .. MaxScans
    BY LaserAssumption
  <2> QED
    BY <2>1 DEF Init, LaserTypeOK
<1>2. Posting = {}
  BY DEF Init, Posting
<1>3. SemaphoreCounts
  BY <1>2, FS_EmptySet DEF Init, SemaphoreCounts, LetThrough
<1>4. TailFollows
  BY Wrap, LaserAssumption DEF Init, TailFollows
<1> QED
  BY <1>1, <1>3, <1>4 DEF LaserInv

\* A thread's step but Enqueues and PostsSemaphore leaves the ring and the semaphore
\* alone, and nobody posts.
LEMMA ThreadQuiet ==
  ASSUME LaserInv, NEW l \in Lasers,
         Starts(l) \/ Checks(l) \/ HearsNothing(l) \/ Calibrates(l) \/ Stops(l)
  PROVE  LaserInv'
<1> USE DEF LaserInv
<1>1. /\ UNCHANGED <<ring, semaphore, scans, main, m>>
      /\ hasToStop' \in BOOLEAN
      /\ calibrating' \in [Lasers -> 0 .. Calibration]
      /\ thread' \in [Lasers -> {"starting", "checking", "handling", "posting",
                                 "stopping", "ended"}]
  <2>1. ASSUME Starts(l) \/ Checks(l) \/ HearsNothing(l) \/ Stops(l)
        PROVE  calibrating' = calibrating
    BY <2>1 DEF Starts, Checks, HearsNothing, Stops
  <2>2. ASSUME Calibrates(l) PROVE calibrating' \in [Lasers -> 0 .. Calibration]
    <3>1. calibrating[l] - 1 \in 0 .. Calibration
      BY <2>2, LaserAssumption DEF LaserTypeOK, Calibrates
    <3> QED
      BY <2>2, <3>1 DEF LaserTypeOK, Calibrates
  <2>3. UNCHANGED <<ring, semaphore, scans, main, m>>
    BY DEF Starts, Checks, HearsNothing, Calibrates, Stops
  <2>4. hasToStop' \in BOOLEAN
    BY DEF LaserTypeOK, Starts, Checks, HearsNothing, Calibrates, Stops
  <2>5. thread' \in [Lasers -> {"starting", "checking", "handling", "posting",
                               "stopping", "ended"}]
    BY DEF LaserTypeOK, Starts, Checks, HearsNothing, Calibrates, Stops, Goes
  <2> QED
    BY <2>1, <2>2, <2>3, <2>4, <2>5 DEF LaserTypeOK
<1>2. Posting' = Posting
  <2>1. PICK from, to : Goes(l, from, to) /\ from # "posting" /\ to # "posting"
    BY DEF Starts, Checks, HearsNothing, Calibrates, Stops
  <2> QED
    BY <2>1, PostingMoves
<1> QED
  BY <1>1, <1>2 DEF LaserTypeOK, SemaphoreCounts, TailFollows, LetThrough, ring

LEMMA EnqueueKeeps ==
  ASSUME LaserInv, NEW l \in Lasers, Enqueues(l)
  PROVE  LaserInv'
<1> USE DEF LaserInv
<1>1. /\ UNCHANGED <<semaphore, hasToStop, calibrating, main, m>>
      /\ scans' \in [Lasers -> 0 .. MaxScans]
      /\ thread' \in [Lasers -> {"starting", "checking", "handling", "posting",
                                 "stopping", "ended"}]
      /\ [id |-> l, n |-> scans[l] + 1] \in Scan
  BY LaserAssumption DEF LaserTypeOK, Enqueues, Goes, Scan
<1>2. LetThrough' = LetThrough /\ LetThrough \in 0 .. 1
  BY <1>1 DEF LetThrough
<1>3. readings' \in [0 .. Size - 1 -> Scan \cup {NoScan}]
  BY <1>1 DEF LaserTypeOK, Enqueues, Add
<1>4. CASE size < Size
  <2>1. /\ size' = size + 1 /\ head' = head
        /\ tail' = Slot(tail + 1)
    BY <1>4, RingType DEF Enqueues, Add
  <2>2. Goes(l, "handling", "posting")
    BY <1>4 DEF Enqueues, Posts
  <2>3. SemaphoreCounts'
    <3>1. Cardinality(Posting') = Cardinality(Posting) + 1
      BY <2>2, PostingMoves
    <3>2. /\ size = semaphore + Cardinality(Posting) + LetThrough
          /\ semaphore \in Nat /\ Cardinality(Posting) \in Nat
      BY PostingFinite, LaserAssumption DEF SemaphoreCounts, LaserTypeOK
    <3>3. size' = semaphore' + Cardinality(Posting') + LetThrough'
      BY <1>1, <1>2, <2>1, <3>1, <3>2
    <3> QED
      BY <3>3 DEF SemaphoreCounts, Posting
  <2>4. TailFollows' /\ tail' \in 0 .. Size - 1
    BY <1>4, <2>1, Wrap, LaserAssumption DEF TailFollows, LaserTypeOK
  <2> QED
    <3>1. head' \in 0 .. Size - 1 /\ size' \in 0 .. Size
      BY <1>4, <2>1, RingType
    <3>2. LaserTypeOK'
      BY <1>1, <1>3, <2>4, <3>1 DEF LaserTypeOK
    <3> QED
      BY <2>3, <2>4, <3>2
<1>5. CASE size = Size
  <2>1. /\ size' = size /\ head' = Slot(head + 1)
        /\ tail' = Slot(tail + 1)
    BY <1>5 DEF Enqueues, Add
  <2>2. Goes(l, "handling", "checking")
    BY <1>5, LaserAssumption DEF Enqueues, Posts
  <2>3. SemaphoreCounts'
    BY <1>1, <1>2, <2>1, <2>2, PostingMoves DEF SemaphoreCounts
  <2>4. tail = head
    BY <1>5, Wrap, LaserAssumption DEF TailFollows, LaserTypeOK
  <2>5. TailFollows' /\ tail' \in 0 .. Size - 1 /\ head' \in 0 .. Size - 1
    BY <1>5, <2>1, <2>4, Wrap, LaserAssumption DEF TailFollows, LaserTypeOK
  <2> QED
    BY <1>1, <1>3, <1>5, <2>1, <2>3, <2>5 DEF LaserTypeOK
<1> QED
  BY <1>4, <1>5, LaserAssumption DEF LaserTypeOK

LEMMA PostKeeps ==
  ASSUME LaserInv, NEW l \in Lasers, PostsSemaphore(l)
  PROVE  LaserInv'
<1> USE DEF LaserInv
<1>1. /\ Goes(l, "posting", "checking")
      /\ semaphore' = semaphore + 1
      /\ UNCHANGED <<ring, hasToStop, calibrating, scans, main, m>>
  BY DEF PostsSemaphore
<1>2. thread' \in [Lasers -> {"starting", "checking", "handling", "posting",
                              "stopping", "ended"}]
  BY <1>1 DEF LaserTypeOK, Goes
<1>3. LetThrough' = LetThrough /\ LetThrough \in 0 .. 1
  BY <1>1 DEF LetThrough
<1>4. Cardinality(Posting') = Cardinality(Posting) - 1 /\ Cardinality(Posting') \in Nat
  <2>1. Cardinality(Posting') = Cardinality(Posting) - 1
    BY <1>1, PostingMoves
  <2>2. IsFiniteSet(Posting')
    BY LaserAssumption, FS_Subset DEF Posting
  <2> QED
    BY <2>1, <2>2, FS_CardinalityType
<1>5. SemaphoreCounts' /\ semaphore' \in 0 .. Size
  BY <1>1, <1>3, <1>4, PostingFinite, LaserAssumption
  DEF SemaphoreCounts, LaserTypeOK, ring
<1> QED
  BY <1>1, <1>2, <1>5 DEF LaserTypeOK, TailFollows, ring

LEMMA MainKeeps ==
  ASSUME LaserInv, MainStep
  PROVE  LaserInv'
<1> USE DEF LaserInv
<1>1. Posting' = Posting
  BY DEF Posting, MainStep, MainChecks, MainWaits, MainLooks, MainTakes, MainPublishes,
         MainJoins
<1>2. ASSUME MainChecks \/ MainPublishes \/ MainJoins PROVE LaserInv'
  BY <1>1, <1>2
  DEF LaserTypeOK, SemaphoreCounts, TailFollows, LetThrough, MainChecks, MainPublishes,
      MainJoins, MainGoes, ring
<1>3. ASSUME MainWaits PROVE LaserInv'
  BY <1>1, <1>3, PostingFinite, LaserAssumption
  DEF LaserTypeOK, SemaphoreCounts, TailFollows, LetThrough, MainWaits, MainGoes, ring
<1>4. ASSUME MainLooks PROVE LaserInv'
  <2>1. size > 0
    BY <1>4, PostingFinite
    DEF LaserTypeOK, SemaphoreCounts, LetThrough, MainLooks, MainGoes
  <2> QED
    BY <1>1, <1>4, <2>1
    DEF LaserTypeOK, SemaphoreCounts, TailFollows, LetThrough, MainLooks, MainGoes, ring
<1>5. ASSUME MainTakes PROVE LaserInv'
  <2>1. size > 0
    BY <1>5, PostingFinite
    DEF LaserTypeOK, SemaphoreCounts, LetThrough, MainTakes, MainGoes
  <2>2. /\ m' = readings[head] /\ head' = Slot(head + 1) /\ size' = size - 1
        /\ UNCHANGED <<readings, tail, semaphore, hasToStop, thread, calibrating, scans>>
        /\ main = "taking" /\ main' = "publishing"
    BY <1>5, <2>1 DEF MainTakes, Get, MainGoes
  <2>3. SemaphoreCounts'
    BY <1>1, <2>2, PostingFinite DEF SemaphoreCounts, LetThrough, LaserTypeOK
  <2>4. TailFollows' /\ head' \in 0 .. Size - 1
    <3>1. head' = IF head + 1 < Size THEN head + 1 ELSE 0
      BY <2>2, RingType, Wrap
    <3>2. Slot(head + size)
            = IF head + size < Size THEN head + size ELSE head + size - Size
      BY RingType, Wrap
    <3>3. Slot(head' + size') = IF head' + size' < Size THEN head' + size'
                                                        ELSE head' + size' - Size
      <4>1. head' + size' \in 0 .. 2 * Size - 1
        BY <2>1, <2>2, <3>1, RingType
      <4> QED
        BY <2>2, <3>1, <4>1, RingType, Wrap
    <3>4. Slot(head + size) = Slot(head' + size')
      BY <2>1, <2>2, <3>1, <3>2, <3>3, RingType
    <3> QED
      BY <2>2, <3>1, <3>4, RingType DEF TailFollows
  <2>5. size' \in 0 .. Size /\ m' \in Scan \cup {NoScan}
    BY <2>1, <2>2, RingType
  <2> QED
    BY <2>2, <2>3, <2>4, <2>5 DEF LaserTypeOK
<1> QED
  BY <1>2, <1>3, <1>4, <1>5 DEF MainStep

LEMMA LaserStep == LaserInv /\ [Next]_vars => LaserInv'
<1> SUFFICES ASSUME LaserInv, [Next]_vars PROVE LaserInv'
  OBVIOUS
<1>1. CASE MainStep
  BY <1>1, MainKeeps
<1>2. CASE Interrupt
  BY <1>2
  DEF Interrupt, LaserInv, LaserTypeOK, SemaphoreCounts, TailFollows, LetThrough,
      Posting, ring
<1>3. ASSUME NEW l \in Lasers, ThreadStep(l) PROVE LaserInv'
  BY <1>3, ThreadQuiet, EnqueueKeeps, PostKeeps DEF ThreadStep
<1>4. CASE UNCHANGED vars
  BY <1>4
  DEF vars, LaserInv, LaserTypeOK, SemaphoreCounts, TailFollows, LetThrough, Posting,
      ring
<1> QED
  BY <1>1, <1>2, <1>3, <1>4 DEF Next

LEMMA LaserInvariant == Spec => []LaserInv
  BY LaserInitially, LaserStep, PTL DEF Spec

\* The ring, its semaphore and the threads stay well formed: the size never leaves
\* 0 .. Size though it is decremented without a look, for any number of lasers.
THEOREM LaserTyped == Spec => []LaserTypeOK
<1>1. LaserInv => LaserTypeOK
  BY DEF LaserInv
<1> QED
  BY <1>1, LaserInvariant, PTL

\* A main thread that sem_wait let through finds a scan, however the lasers' threads
\* are scheduled between the mutex and the semaphore.
THEOREM WokenFinds == Spec => []WokenFindsScan
<1>1. LaserInv => WokenFindsScan
  BY PostingFinite DEF LaserInv, LaserTypeOK, SemaphoreCounts, LetThrough, WokenFindsScan
<1> QED
  BY <1>1, LaserInvariant, PTL

-----------------------------------------------------------------------------
(* The ring implements the line of scans. *)

LEMMA LineType ==
  ASSUME LaserInv
  PROVE  Line \in Seq(Scan \cup {NoScan}) /\ Len(Line) = size
<1>1. \A i \in 1 .. size : Slot(head + i - 1) \in 0 .. Size - 1
  BY Wrap, RingType DEF LaserInv
<1>2. /\ Line \in [1 .. size -> Scan \cup {NoScan}]
      /\ size \in Nat
  BY <1>1, RingType DEF LaserInv, Line
<1> QED
  BY <1>2 DEF Line

LEMMA FeedInitially == Init => Feed!FeedInit
<1> SUFFICES ASSUME Init PROVE Feed!FeedInit
  OBVIOUS
<1>1. Line = <<>>
  BY DEF Init, Line
<1> QED
  BY <1>1 DEF Init, Feed!FeedInit

\* Adding to the ring is arriving at the end of the line, the first in line driven
\* out if it is full.
LEMMA EnqueueArrives ==
  ASSUME LaserInv, NEW l \in Lasers, Enqueues(l)
  PROVE  Feed!Arrive(l)
<1> DEFINE scan == [id |-> l, n |-> scans[l] + 1]
           rest == IF Len(Line) = Size THEN Tail(Line) ELSE Line
<1>1. /\ readings' = [readings EXCEPT ![tail] = scan]
      /\ scans' = [scans EXCEPT ![l] = @ + 1] /\ m' = m
  BY DEF Enqueues, Add
<1>2. Line \in Seq(Scan \cup {NoScan}) /\ Len(Line) = size
  BY LineType
<1>3. \A i \in 0 .. Size - 1 : readings'[i] = IF i = tail THEN scan ELSE readings[i]
  BY <1>1 DEF LaserInv, LaserTypeOK
<1>4. Line' = Append(rest, scan)
  <2>1. CASE size < Size
    <3>1. size' = size + 1 /\ head' = head
      BY <2>1, RingType DEF Enqueues, Add, LaserInv
    <3>2. \A i \in 1 .. size : Slot(head + i - 1) \in 0 .. Size - 1
                               /\ Slot(head + i - 1) # tail
      BY <2>1, Wrap, RingType DEF LaserInv, TailFollows
    <3>3. Slot(head + (size + 1) - 1) = tail
      BY DEF LaserInv, LaserTypeOK, TailFollows
    <3>4. Line' = [i \in 1 .. size + 1 |-> readings'[Slot(head + i - 1)]]
      BY <3>1 DEF Line
    <3>5. \A i \in 1 .. size + 1 : readings'[Slot(head + i - 1)]
                                     = IF i <= size THEN Line[i] ELSE scan
      <4>1. ASSUME NEW i \in 1 .. size
            PROVE  readings'[Slot(head + i - 1)] = Line[i]
        BY <1>3, <3>2, RingType DEF Line, LaserInv
      <4>2. readings'[Slot(head + (size + 1) - 1)] = scan
        BY <1>3, <3>3, RingType DEF LaserInv
      <4> QED
        BY <4>1, <4>2, RingType DEF LaserInv
    <3>6. Append(Line, scan)
            = [i \in 1 .. size + 1 |-> IF i <= size THEN Line[i] ELSE scan]
      BY <1>2 DEF LaserInv, LaserTypeOK
    <3> QED
      BY <1>2, <2>1, <3>4, <3>5, <3>6
  <2>2. CASE size = Size
    <3>1. size' = size /\ head' = Slot(head + 1) /\ tail = head
      BY <2>2, Wrap, LaserAssumption
      DEF Enqueues, Add, LaserInv, LaserTypeOK, TailFollows
    <3>2. \A i \in 1 .. Size - 1 : /\ Slot(head' + i - 1) = Slot(head + (i + 1) - 1)
                                   /\ Slot(head' + i - 1) \in 0 .. Size - 1
                                   /\ Slot(head' + i - 1) # tail
      <4>1. head' = IF head + 1 < Size THEN head + 1 ELSE 0
        BY <3>1, RingType, Wrap DEF LaserInv
      <4> SUFFICES ASSUME NEW i \in 1 .. Size - 1
                   PROVE  /\ Slot(head' + i - 1) = Slot(head + (i + 1) - 1)
                          /\ Slot(head' + i - 1) \in 0 .. Size - 1
                          /\ Slot(head' + i - 1) # tail
        OBVIOUS
      <4>2. /\ head' + i - 1 \in 0 .. 2 * Size - 1
            /\ head + (i + 1) - 1 \in 0 .. 2 * Size - 1
        BY <4>1, RingType DEF LaserInv
      <4>3. Slot(head' + i - 1)
              = IF head' + i - 1 < Size THEN head' + i - 1 ELSE head' + i - 1 - Size
        BY <4>1, <4>2, RingType, Wrap DEF LaserInv
      <4>4. Slot(head + (i + 1) - 1)
              = IF head + (i + 1) - 1 < Size THEN head + (i + 1) - 1
                                             ELSE head + (i + 1) - 1 - Size
        BY <4>1, <4>2, RingType, Wrap DEF LaserInv
      <4> QED
        BY <3>1, <4>1, <4>3, <4>4, RingType DEF LaserInv
    <3>3. Slot(head' + Size - 1) = tail
      <4>1. head' = IF head + 1 < Size THEN head + 1 ELSE 0
        BY <3>1, RingType, Wrap DEF LaserInv
      <4>2. head' + Size - 1 \in 0 .. 2 * Size - 1
        BY <4>1, RingType DEF LaserInv
      <4>3. Slot(head' + Size - 1)
              = IF head' + Size - 1 < Size THEN head' + Size - 1
                                           ELSE head' + Size - 1 - Size
        BY <4>1, <4>2, RingType, Wrap DEF LaserInv
      <4> QED
        BY <3>1, <4>1, <4>3, RingType DEF LaserInv
    <3>4. Line' = [i \in 1 .. Size |-> readings'[Slot(head' + i - 1)]]
      BY <2>2, <3>1 DEF Line
    <3>5. \A i \in 1 .. Size : readings'[Slot(head' + i - 1)]
                                 = IF i < Size THEN Line[i + 1] ELSE scan
      <4>1. ASSUME NEW i \in 1 .. Size - 1
            PROVE  readings'[Slot(head' + i - 1)] = Line[i + 1]
        <5>1. readings'[Slot(head' + i - 1)] = readings[Slot(head + (i + 1) - 1)]
          BY <1>3, <3>2
        <5>2. i + 1 \in 1 .. size
          BY <2>2, RingType DEF LaserInv
        <5> QED
          BY <5>1, <5>2 DEF Line
      <4>2. readings'[Slot(head' + Size - 1)] = scan
        BY <1>3, <3>3, RingType DEF LaserInv
      <4> QED
        BY <4>1, <4>2, RingType DEF LaserInv
    <3>6. Append(Tail(Line), scan)
            = [i \in 1 .. Size |-> IF i < Size THEN Line[i + 1] ELSE scan]
      BY <1>2, <2>2, LaserAssumption
    <3> QED
      BY <1>2, <2>2, <3>4, <3>5, <3>6
  <2> QED
    BY <2>1, <2>2, LaserAssumption DEF LaserInv, LaserTypeOK
<1> QED
  BY <1>1, <1>4 DEF Feed!Arrive

\* Getting from the ring is taking the first in line.
LEMMA GetTakes ==
  ASSUME LaserInv, MainTakes
  PROVE  Feed!Take
<1>1. size > 0
  BY PostingFinite
  DEF LaserInv, LaserTypeOK, SemaphoreCounts, LetThrough, MainTakes, MainGoes
<1>2. /\ m' = readings[head] /\ head' = Slot(head + 1) /\ size' = size - 1
      /\ readings' = readings /\ scans' = scans
  BY <1>1 DEF MainTakes, Get
<1>3. Line \in Seq(Scan \cup {NoScan}) /\ Len(Line) = size
  BY LineType
<1>4. Head(Line) = readings[head]
  <2>1. Slot(head + 1 - 1) = head
    BY Wrap, RingType DEF LaserInv
  <2> QED
    BY <1>1, <1>3, <2>1 DEF Line, LaserInv, LaserTypeOK
<1>5. Line' = Tail(Line)
  <2>1. \A i \in 1 .. size - 1 : Slot(head' + i - 1) = Slot(head + (i + 1) - 1)
    <3>1. head' = IF head + 1 < Size THEN head + 1 ELSE 0
      BY <1>2, RingType, Wrap DEF LaserInv
    <3> SUFFICES ASSUME NEW i \in 1 .. size - 1
                 PROVE  Slot(head' + i - 1) = Slot(head + (i + 1) - 1)
      OBVIOUS
    <3>2. /\ head' + i - 1 \in 0 .. 2 * Size - 1
          /\ head + (i + 1) - 1 \in 0 .. 2 * Size - 1
      <4>1. /\ Size \in Nat /\ size \in 0 .. Size
            /\ head \in 0 .. Size - 1 /\ head' \in 0 .. Size - 1
        BY <3>1, RingType DEF LaserInv
      <4> QED
        BY <4>1, WithinTwoTurns
    <3>3. Slot(head' + i - 1)
            = IF head' + i - 1 < Size THEN head' + i - 1 ELSE head' + i - 1 - Size
      BY <3>1, <3>2, RingType, Wrap DEF LaserInv
    <3>4. Slot(head + (i + 1) - 1)
            = IF head + (i + 1) - 1 < Size THEN head + (i + 1) - 1
                                           ELSE head + (i + 1) - 1 - Size
      BY <3>1, <3>2, RingType, Wrap DEF LaserInv
    <3> QED
      BY <3>1, <3>3, <3>4, RingType DEF LaserInv
  <2>2. Line' = [i \in 1 .. size - 1 |-> readings[Slot(head' + i - 1)]]
    BY <1>2 DEF Line
  <2>3. Tail(Line) = [i \in 1 .. size - 1 |-> Line[i + 1]]
    BY <1>1, <1>3, RingType DEF LaserInv
  <2>4. \A i \in 1 .. size - 1 : readings[Slot(head' + i - 1)] = Line[i + 1]
    BY <2>1 DEF Line, LaserInv, LaserTypeOK
  <2> QED
    BY <2>2, <2>3, <2>4
<1>6. Line # <<>>
  BY <1>1, <1>3
<1> QED
  BY <1>2, <1>4, <1>5, <1>6 DEF Feed!Take

LEMMA FeedStep == LaserInv /\ [Next]_vars => [Feed!FeedNext]_(Feed!feedVars)
<1> SUFFICES ASSUME LaserInv, [Next]_vars
             PROVE  [Feed!FeedNext]_(Feed!feedVars)
  OBVIOUS
<1>1. CASE MainTakes
  BY <1>1, GetTakes DEF Feed!FeedNext
<1>2. ASSUME NEW l \in Lasers, Enqueues(l) PROVE Feed!FeedNext
  BY <1>2, EnqueueArrives DEF Feed!FeedNext
<1>3. ASSUME UNCHANGED <<ring, scans, m>> PROVE UNCHANGED Feed!feedVars
  BY <1>3 DEF ring, Line, Feed!feedVars
<1>4. \/ MainTakes
      \/ \E l \in Lasers : Enqueues(l)
      \/ UNCHANGED <<ring, scans, m>>
  BY DEF Next, MainStep, MainChecks, MainWaits, MainLooks, MainPublishes, MainJoins,
         Interrupt, ThreadStep, Starts, Checks, HearsNothing, Calibrates,
         PostsSemaphore, Stops, vars
<1> QED
  BY <1>1, <1>2, <1>3, <1>4

\* The laser server implements ScanFeed: scans are taken in the order in which they
\* arrived, each once, and only the oldest of a full ring is lost, for any number of
\* lasers and any size of the ring.
THEOREM RingImplementsFeed == Spec => FeedKept
<1>1. Init => Feed!FeedInit
  BY FeedInitially
<1>2. LaserInv /\ [Next]_vars => [Feed!FeedNext]_(Feed!feedVars)
  BY FeedStep
<1> QED
  BY <1>1, <1>2, LaserInvariant, PTL DEF Spec, FeedKept, Feed!FeedSpec
=============================================================================
