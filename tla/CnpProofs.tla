------------------------------- MODULE CnpProofs -------------------------------
(***************************************************************************)
(* Proofs about the runtime protocol, for every set of robots, tasks and   *)
(* managers and every bound on the messages under way.                     *)
(*                                                                         *)
(* First the console alone, with CnpServer's Spec, for every environment   *)
(* that sends it the messages of Next.  TypeOK is inductive by itself;     *)
(* with it OneContractPerTask is, and with both ExclusionsMatchRecord is.  *)
(* The two action properties follow from the same invariants, step by      *)
(* step.                                                                   *)
(*                                                                         *)
(* Then the protocol as a whole.  RuntimeSpec implies Spec: the robots of  *)
(* robot_side_com.c are one of the environments CnpServer allows, so what  *)
(* was shown of the console holds here.  SingleOwner is not inductive.     *)
(* Two robots could both come to own a task if the console's award list    *)
(* named the second while the first still owned it, or had its release     *)
(* under way, or could release it again: ClaimsAwarded and ReleasedOnce    *)
(* rule that out and are inductive together with the types.                *)
(* ExcludedNeverHolds needs that nothing an excluded robot has under way   *)
(* can lead to an award (NotExcluded), and that a reneg is the last word   *)
(* of its sender on any auction (RenegsLast).                              *)
(*                                                                         *)
(* Last, with one task at a time (OneTask), that award list and contracts  *)
(* agree, and what follows for owners and losers.                          *)
(***************************************************************************)
EXTENDS CnpLease, CnpRuntime, FiniteSetTheorems, WellFoundedInduction, TLAPS

-----------------------------------------------------------------------------
(***************************************************************************)
(* Numbers.                                                                *)
(***************************************************************************)

\* The Min of the community modules finds the least element of every
\* non-empty set of naturals: the console searches its maps in ascending order.
LEMMA LeastNat ==
  ASSUME NEW S \in SUBSET Nat, S # {}
  PROVE  Min(S) \in S /\ \A y \in S : Min(S) <= y
<1> DEFINE Less == {p \in Nat \X Nat : p[1] < p[2]}
<1>1. IsWellFoundedOn(Less, Nat)
  BY NatLessThanWellFounded DEF OpToRel
<1>2. \E x \in S : \A y \in S : <<y, x>> \notin Less
  BY <1>1, WFMin
<1>3. PICK x \in S : \A y \in S : <<y, x>> \notin Less
  BY <1>2
<1>4. ASSUME NEW y \in S PROVE x <= y
  <2>1. x \in Nat /\ y \in Nat
    OBVIOUS
  <2>2. <<y, x>> \in Nat \X Nat /\ <<y, x>>[1] = y /\ <<y, x>>[2] = x
    BY <2>1
  <2>3. ~(y < x)
    BY <1>3, <2>2
  <2> QED BY <2>1, <2>3
<1> QED BY <1>4 DEF Min

\* The reply to MSG_GetAward is read off the first award of the task.
LEMMA FirstAwardIndex ==
  ASSUME TypeOK, NEW t, AwardsOf(t) # {}
  PROVE  FirstAward(t) \in AwardsOf(t) /\ \A i \in AwardsOf(t) : FirstAward(t) <= i
<1>1. AwardsOf(t) \in SUBSET Nat
  BY DEF TypeOK, AwardsOf
<1> QED BY <1>1, LeastNat DEF FirstAward

\* The Max of the community modules finds the greatest element of every non-empty
\* finite set of naturals: a least set without one would lose it with any element.
LEMMA GreatestNat ==
  ASSUME NEW S \in SUBSET Nat, IsFiniteSet(S), S # {}
  PROVE  Max(S) \in S /\ \A y \in S : y <= Max(S)
<1> DEFINE HasMax(T) == \E x \in T : \A y \in T : y <= x
           Sizes == {n \in Nat : \E T \in SUBSET S :
                                   T # {} /\ Cardinality(T) = n /\ ~HasMax(T)}
<1>1. SUFFICES ASSUME ~HasMax(S) PROVE FALSE
  <2>1. ASSUME HasMax(S) PROVE Max(S) \in S /\ \A y \in S : y <= Max(S)
    <3>1. \E x \in S : \A y \in S : x >= y
      BY <2>1
    <3>2. Max(S) \in S /\ \A y \in S : Max(S) >= y
      BY <3>1 DEF Max
    <3> QED BY <3>2
  <2> QED BY <2>1
<1>2. Sizes \in SUBSET Nat
  OBVIOUS
<1>3. Sizes # {}
  <2>1. Cardinality(S) \in Sizes
    BY <1>1, FS_CardinalityType
  <2> QED BY <2>1
<1>4. Min(Sizes) \in Sizes /\ \A n \in Sizes : Min(Sizes) <= n
  BY <1>2, <1>3, LeastNat
<1>5. PICK T \in SUBSET S : T # {} /\ Cardinality(T) = Min(Sizes) /\ ~HasMax(T)
  BY <1>4
<1>6. PICK x \in T : TRUE
  BY <1>5
<1> DEFINE U == T \ {x}
<1>7. IsFiniteSet(T) /\ Cardinality(U) = Cardinality(T) - 1 /\ Cardinality(U) \in Nat
  BY FS_Subset, FS_RemoveElement, FS_CardinalityType
<1> HIDE DEF U
<1>8. Cardinality(U) \notin Sizes
  <2> DEFINE least == Min(Sizes)
  <2>1. least \in Nat /\ \A n \in Sizes : least <= n
    BY <1>2, <1>4
  <2>2. Cardinality(T) = least
    BY <1>5
  <2> HIDE DEF least, Sizes
  <2> QED BY <1>7, <2>1, <2>2
<1> USE DEF U
<1>9. U = {} \/ HasMax(U)
  BY <1>7, <1>8
<1>10. CASE U = {}
  <2>1. T = {x}
    BY <1>10
  <2> QED BY <1>5, <2>1
<1>11. CASE HasMax(U)
  <2>1. PICK m \in U : \A y \in U : y <= m
    BY <1>11
  <2>2. \A y \in T : y <= (IF x <= m THEN m ELSE x)
    BY <2>1
  <2> QED BY <1>5, <2>1, <2>2
<1> QED BY <1>9, <1>10, <1>11

\* Among any robots that made an offer there is one with the highest bid and the
\* lowest id of those that bid as much.
Wins(r, T, bids) ==
  /\ r \in T
  /\ \A q \in T : bids[q] < bids[r] \/ (bids[q] = bids[r] /\ r <= q)

LEMMA SomeoneWins ==
  ASSUME NEW T \in SUBSET Robots, T # {}, NEW bids, \A q \in T : bids[q] \in Bids
  PROVE  \E r \in T : Wins(r, T, bids)
<1> USE RobotsAssumption, BoundsAssumption
<1>0. T \subseteq Nat /\ \A q \in T : bids[q] \in Nat /\ bids[q] <= MaxBid
  BY DEF Bids
<1> DEFINE Gaps == {MaxBid - bids[q] : q \in T}
           Best == {q \in T : bids[q] = MaxBid - Min(Gaps)}
<1>1. Gaps \in SUBSET Nat /\ Gaps # {}
  <2>1. \A q \in T : MaxBid - bids[q] \in Nat
    BY <1>0
  <2> QED BY <2>1
<1>2. Min(Gaps) \in Gaps /\ \A y \in Gaps : Min(Gaps) <= y
  BY <1>1, LeastNat
<1>3. Best \in SUBSET Nat /\ Best # {}
  <2>1. PICK q \in T : Min(Gaps) = MaxBid - bids[q]
    BY <1>2
  <2>2. q \in Best
    BY <2>1, <1>0
  <2> QED BY <2>2, <1>0
<1>4. Min(Best) \in Best /\ \A y \in Best : Min(Best) <= y
  BY <1>3, LeastNat
<1>5. ASSUME NEW q \in T
      PROVE  \/ bids[q] < bids[Min(Best)]
             \/ (bids[q] = bids[Min(Best)] /\ Min(Best) <= q)
  <2> DEFINE best == Min(Best)
             gap == Min(Gaps)
  <2>1. best \in T /\ bids[best] = MaxBid - gap /\ gap \in Nat
    BY <1>4, <1>2, <1>1
  <2>2. gap <= MaxBid - bids[q]
    BY <1>2
  <2>3. bids[q] = MaxBid - gap => best <= q
    BY <1>4
  <2> HIDE DEF best, gap
  <2>4. bids[q] < bids[best] \/ (bids[q] = bids[best] /\ best <= q)
    BY <2>1, <2>2, <2>3, <1>0
  <2> QED BY <2>4 DEF best, gap
<1>6. Min(Best) \in T
  BY <1>4
<1> HIDE DEF Best
<1> QED BY <1>5, <1>6 DEF Wins

\* Find_MaxBidder has an answer whenever there is an offer: one with the
\* highest bid, and the lowest id among the robots that bid as much.
\* One turn of the loop, at the offer of r: if the best of the offers before it was
\* found, the best of those up to it is.
Upto(r, S) == {q \in S : q <= r}
Earlier(r, S) == {q \in S : q < r}
Turn(f, r, S, bids) ==
  LET last == IF Earlier(r, S) = {} THEN NoRobot ELSE f[Max(Earlier(r, S))]
      maxbid == IF last = NoRobot THEN -1 ELSE bids[last]
  IN IF bids[r] > maxbid THEN r ELSE last

LEMMA LoopTurn ==
  ASSUME NEW S \in SUBSET Robots, NEW bids \in [S -> Bids], NEW f, NEW r \in S,
         LET m == Max(Earlier(r, S)) IN
           Earlier(r, S) # {} => Wins(f[m], Upto(m, S), bids)
  PROVE  /\ Wins(Turn(f, r, S, bids), Upto(r, S), bids)
         /\ Earlier(r, S) # {} => Max(Earlier(r, S)) \in S /\ Max(Earlier(r, S)) < r
<1>0. S \in SUBSET Nat /\ IsFiniteSet(Earlier(r, S)) /\ \A q \in S : bids[q] \in Nat
  <2>1. IsFiniteSet(Earlier(r, S))
    BY RobotsAssumption, FS_Subset DEF Earlier
  <2>2. Bids \subseteq Nat
    BY BoundsAssumption DEF Bids
  <2> QED BY RobotsAssumption, <2>1, <2>2
<1>1. CASE Earlier(r, S) = {}
  <2>1. Turn(f, r, S, bids) = r
    BY <1>0, <1>1 DEF Turn
  <2>2. \A q \in Upto(r, S) : q = r
    BY <1>0, <1>1 DEF Upto, Earlier
  <2> QED BY <1>0, <1>1, <2>1, <2>2 DEF Wins, Upto
<1>2. CASE Earlier(r, S) # {}
  <2> DEFINE m == Max(Earlier(r, S))
  <2>1. m \in Earlier(r, S) /\ \A q \in Earlier(r, S) : q <= m
    <3>1. Earlier(r, S) \in SUBSET Nat
      BY <1>0 DEF Earlier
    <3> QED BY <1>0, <1>2, <3>1, GreatestNat
  <2>2. Upto(m, S) = Earlier(r, S)
    <3> HIDE DEF m
    <3>1. m \in Nat /\ r \in Nat /\ m < r
      BY <1>0, <2>1 DEF Earlier
    <3>2. \A q \in S : q <= m => q < r
      BY <1>0, <3>1
    <3>3. \A q \in S : q < r => q <= m
      BY <2>1 DEF Earlier
    <3> QED BY <3>2, <3>3 DEF Upto, Earlier
  <2>3. Wins(f[m], Earlier(r, S), bids)
    BY <1>2, <2>2
  <2> HIDE DEF m
  <2>4. f[m] \in S /\ f[m] < r /\ f[m] # NoRobot
    BY <1>0, <2>3 DEF Wins, Earlier, NoRobot
  <2>5. Turn(f, r, S, bids) = IF bids[r] > bids[f[m]] THEN r ELSE f[m]
    BY <1>2, <2>4 DEF Turn, m
  <2>6. \A q \in Upto(r, S) : q \in Earlier(r, S) \/ q = r
    BY <1>0 DEF Upto, Earlier
  <2> DEFINE last == f[m]
  <2>7. bids[last] \in Nat /\ bids[r] \in Nat /\ last \in Nat /\ r \in Nat
    BY <1>0, <2>4
  <2>8. ASSUME bids[r] > bids[f[m]] PROVE Wins(r, Upto(r, S), bids)
    <3>1. \A q \in Earlier(r, S) : bids[q] < bids[r]
      <4> TAKE q \in Earlier(r, S)
      <4>1. bids[q] < bids[last] \/ bids[q] = bids[last]
        BY <2>3 DEF Wins
      <4>2. bids[q] \in Nat
        BY <1>0 DEF Earlier
      <4> HIDE DEF last
      <4> QED BY <2>8, <2>7, <4>1, <4>2 DEF last
    <3>2. r \in Upto(r, S) /\ r <= r
      BY <1>0 DEF Upto
    <3> QED BY <2>6, <3>1, <3>2 DEF Wins
  <2>9. ASSUME ~(bids[r] > bids[f[m]]) PROVE Wins(f[m], Upto(r, S), bids)
    <3>1. bids[r] < bids[f[m]] \/ (bids[r] = bids[f[m]] /\ f[m] <= r)
      <4>1. last < r /\ ~(bids[r] > bids[last])
        BY <2>4, <2>9
      <4>2. bids[r] < bids[last] \/ (bids[r] = bids[last] /\ last <= r)
        <5> HIDE DEF last
        <5> QED BY <2>7, <4>1
      <4> QED BY <4>2
    <3>2. f[m] \in Upto(r, S)
      <4>1. last \in S /\ last < r
        BY <2>4
      <4>2. last \in S /\ last <= r
        <5> HIDE DEF last
        <5> QED BY <2>7, <4>1
      <4> QED BY <4>2 DEF Upto
    <3> QED BY <2>3, <2>6, <3>1, <3>2 DEF Wins
  <2>10. m \in S /\ m < r
    BY <2>1 DEF Earlier
  <2> QED BY <2>5, <2>8, <2>9, <2>10 DEF m
<1> QED BY <1>1, <1>2

\* What a function that follows the loop turn by turn has at each offer.
LEMMA LoopFinds ==
  ASSUME NEW S \in SUBSET Robots, NEW bids \in [S -> Bids], NEW f,
         \A r \in S : f[r] = Turn(f, r, S, bids)
  PROVE  \A r \in S : Wins(f[r], Upto(r, S), bids)
<1> DEFINE Wrong == {r \in S : ~Wins(f[r], Upto(r, S), bids)}
<1>0. S \in SUBSET Nat
  BY RobotsAssumption
<1>1. SUFFICES ASSUME Wrong # {} PROVE FALSE
  OBVIOUS
<1>2. PICK r \in Wrong : \A y \in Wrong : r <= y
  <2>1. Wrong \in SUBSET Nat
    BY <1>0
  <2> QED BY <1>1, <2>1, LeastNat
<1>3. LET m == Max(Earlier(r, S)) IN
        Earlier(r, S) # {} => Wins(f[m], Upto(m, S), bids)
  <2> DEFINE m == Max(Earlier(r, S))
  <2> SUFFICES ASSUME Earlier(r, S) # {} PROVE Wins(f[m], Upto(m, S), bids)
    OBVIOUS
  <2>1. m \in Earlier(r, S)
    <3>1. Earlier(r, S) \in SUBSET Nat /\ IsFiniteSet(Earlier(r, S))
      BY <1>0, RobotsAssumption, FS_Subset DEF Earlier
    <3> QED BY <3>1, GreatestNat
  <2>2. m \in S /\ m < r
    BY <2>1 DEF Earlier
  <2> HIDE DEF m
  <2>3. m \notin Wrong
    BY <1>0, <1>2, <2>2
  <2> QED BY <2>2, <2>3
<1>4. Wins(Turn(f, r, S, bids), Upto(r, S), bids)
  BY <1>3, LoopTurn
<1> QED BY <1>4

\* There is such a function, and so the loop has an answer whenever there is an offer:
\* one with the highest bid, and the lowest id among the robots that bid as much.
LEMMA MaxBidder ==
  ASSUME NEW S \in SUBSET Robots, S # {}, NEW bids \in [S -> Bids]
  PROVE  /\ Find_MaxBidder(bids) \in S
         /\ \A q \in S : \/ bids[q] < bids[Find_MaxBidder(bids)]
                         \/ /\ bids[q] = bids[Find_MaxBidder(bids)]
                            /\ Find_MaxBidder(bids) <= q
<1> DEFINE g == [r \in S |-> CHOOSE w \in S : Wins(w, Upto(r, S), bids)]
           loop == CHOOSE f : f = [r \in S |-> Turn(f, r, S, bids)]
<1>0. S \in SUBSET Nat /\ \A q \in S : bids[q] \in Nat
  BY RobotsAssumption, BoundsAssumption DEF Bids
<1>1. \A r \in S : Wins(g[r], Upto(r, S), bids)
  <2> TAKE r \in S
  <2>1. Upto(r, S) \in SUBSET S /\ r \in Upto(r, S)
    BY <1>0 DEF Upto
  <2>2. \E w \in Upto(r, S) : Wins(w, Upto(r, S), bids)
    BY <2>1, SomeoneWins
  <2>3. \E w \in S : Wins(w, Upto(r, S), bids)
    BY <2>1, <2>2
  <2> QED BY <2>3
<1> HIDE DEF g
<1>2. \A r \in S : g[r] = Turn(g, r, S, bids)
  <2> TAKE r \in S
  <2> DEFINE w == Turn(g, r, S, bids)
             m == Max(Earlier(r, S))
  <2>1. Earlier(r, S) # {} => m \in S
    <3>1. Earlier(r, S) \in SUBSET Nat /\ IsFiniteSet(Earlier(r, S))
      BY <1>0, RobotsAssumption, FS_Subset DEF Earlier
    <3>2. Earlier(r, S) # {} => m \in Earlier(r, S)
      BY <3>1, GreatestNat
    <3> QED BY <3>2 DEF Earlier
  <2>2. Wins(w, Upto(r, S), bids)
    BY <1>1, <2>1, LoopTurn
  <2> HIDE DEF w
  <2>3. w \in S /\ g[r] \in S /\ Wins(g[r], Upto(r, S), bids)
    BY <1>1, <2>2 DEF Wins, Upto
  <2>4. g[r] = w
    <3>1. w \in Nat /\ g[r] \in Nat /\ bids[w] \in Nat /\ bids[g[r]] \in Nat
      BY <1>0, <2>3
    <3>2. bids[w] < bids[g[r]] \/ (bids[w] = bids[g[r]] /\ g[r] <= w)
      BY <2>2, <2>3 DEF Wins
    <3>3. bids[g[r]] < bids[w] \/ (bids[g[r]] = bids[w] /\ w <= g[r])
      BY <2>2, <2>3 DEF Wins
    <3> QED BY <3>1, <3>2, <3>3
  <2> QED BY <2>4 DEF w
<1>3. g = [r \in S |-> Turn(g, r, S, bids)]
  <2>1. g = [r \in S |-> g[r]]
    BY DEF g
  <2> QED BY <1>2, <2>1
<1>4. loop = [r \in S |-> Turn(loop, r, S, bids)]
  BY <1>3
<1>5. Find_MaxBidder(bids) = loop[Max(S)]
  <2>1. DOMAIN bids = S
    OBVIOUS
  <2> QED BY <2>1 DEF Find_MaxBidder, Turn, Earlier
<1> HIDE DEF loop
<1>6. \A r \in S : Wins(loop[r], Upto(r, S), bids)
  <2>1. \A r \in S : loop[r] = Turn(loop, r, S, bids)
    BY <1>4
  <2> QED BY <2>1, LoopFinds
<1>7. Max(S) \in S /\ Upto(Max(S), S) = S
  <2>1. Max(S) \in S /\ \A q \in S : q <= Max(S)
    BY <1>0, RobotsAssumption, FS_Subset, GreatestNat
  <2> QED BY <2>1 DEF Upto
<1>8. Wins(loop[Max(S)], S, bids)
  BY <1>6, <1>7
<1> QED BY <1>5, <1>8 DEF Wins

-----------------------------------------------------------------------------
(***************************************************************************)
(* Maps and requests.                                                      *)
(***************************************************************************)

\* Storing a good value under a good key, as std::map's operator[] does,
\* keeps a map well formed and leaves the other entries alone.
LEMMA WithMapping ==
  ASSUME NEW map, NEW keys, NEW values, Mapping(map, keys, values),
         NEW key \in keys, NEW value \in values
  PROVE  Mapping(With(map, key, value), keys, values)
BY DEF Mapping, With

\* Erasing a key, present or not, keeps a map well formed.
LEMMA WithoutMapping ==
  ASSUME NEW map, NEW keys, NEW values, Mapping(map, keys, values), NEW key
  PROVE  Mapping(Without(map, key), keys, values)
BY DEF Mapping, Without

\* A CNP_OpenRequest as the code builds it, field by field.
LEMMA MakeOpenRequest ==
  ASSUME NEW e \in 1..ExpireTicks, NEW S \in SUBSET Robots,
         NEW b \in [S -> Bids \ {0}], NEW x \in SUBSET Robots
  PROVE  [expire |-> e, bids |-> b, excl |-> x] \in OpenRequest
BY DEF OpenRequest

\* What can be read from a CNP_OpenRequest.
LEMMA OpenRequestFields ==
  ASSUME NEW req \in OpenRequest
  PROVE  /\ req = [expire |-> req.expire, bids |-> req.bids, excl |-> req.excl]
         /\ req.expire \in 1..ExpireTicks
         /\ DOMAIN req.bids \in SUBSET Robots
         /\ req.bids \in [DOMAIN req.bids -> Bids \ {0}]
         /\ req.excl \in SUBSET Robots
<1>1. PICK S \in SUBSET Robots :
        req \in [expire : 1..ExpireTicks, bids : [S -> Bids \ {0}], excl : SUBSET Robots]
  BY DEF OpenRequest
<1> QED BY <1>1

\* A contract that Inject_Task opens is a well-formed request.
LEMMA NewRequestType ==
  ASSUME NEW x \in SUBSET Robots
  PROVE  NewRequest(x) \in OpenRequest
<1>1. ExpireTicks \in 1..ExpireTicks
  BY BoundsAssumption
<1>2. EmptyMap \in [{} -> Bids \ {0}]
  BY DEF EmptyMap
<1> QED BY <1>1, <1>2, MakeOpenRequest DEF NewRequest

\* Inject_Task keeps the open contracts well formed, whatever maps it consults.
LEMMA AfterInjectType ==
  ASSUME TypeOK, NEW t \in Tasks, NEW x, NEW n, Mapping(n, Tasks, SUBSET Robots)
  PROVE  Mapping(AfterInject(t, x, n), Tasks, OpenRequest)
<1> DEFINE excl == IF t \in DOMAIN n THEN n[t] ELSE {}
<1>1. excl \in SUBSET Robots
  BY DEF Mapping
<1>2. NewRequest(excl) \in OpenRequest
  BY <1>1, NewRequestType
<1>3. Mapping(openContracts, Tasks, OpenRequest)
  BY DEF TypeOK
<1> HIDE DEF excl
<1>4. Mapping(With(openContracts, t, NewRequest(excl)), Tasks, OpenRequest)
  BY <1>2, <1>3, WithMapping
<1> QED BY <1>3, <1>4 DEF AfterInject, excl

\* Taking a tick off contracts that do not run out keeps them well formed.
LEMMA TickedType ==
  ASSUME TypeOK, NEW S, S \cap Expiring = {}
  PROVE  Mapping(Ticked(S), Tasks, OpenRequest)
<1> SUFFICES ASSUME NEW t \in DOMAIN openContracts
             PROVE  t \in Tasks /\ Ticked(S)[t] \in OpenRequest
  BY DEF Mapping, Ticked
<1>1. t \in Tasks /\ openContracts[t] \in OpenRequest
  BY DEF TypeOK, Mapping
<1>2. CASE t \notin S
  BY <1>1, <1>2 DEF Ticked
<1>3. CASE t \in S
  <2> DEFINE req == openContracts[t]
  <2>1. req.expire \in 1..ExpireTicks /\ req.expire # 1
    BY <1>1, <1>3, OpenRequestFields DEF Expiring
  <2>2. req.expire - 1 \in 1..ExpireTicks
    BY <2>1, BoundsAssumption
  <2>3. Ticked(S)[t] = [expire |-> req.expire - 1, bids |-> req.bids, excl |-> req.excl]
    BY <1>1, <1>3, OpenRequestFields DEF Ticked
  <2> QED BY <1>1, <2>2, <2>3, OpenRequestFields, MakeOpenRequest
<1> QED BY <1>2, <1>3

\* The award list without an award is a list of awards.
LEMMA ErasedAwardType ==
  ASSUME TypeOK, NEW t
  PROVE  ErasedAward(t) \in Seq(Award)
<1>1. CASE FirstAward(t) = 0
  BY <1>1 DEF ErasedAward, TypeOK
<1>2. CASE FirstAward(t) # 0
  <2>1. AwardsOf(t) # {}
    BY <1>2 DEF FirstAward
  <2>2. FirstAward(t) \in 1..Len(awardList)
    BY <2>1, FirstAwardIndex DEF AwardsOf
  <2>3. RemoveAt(awardList, FirstAward(t)) \in Seq(Award)
    <3> DEFINE i == FirstAward(t)
    <3>1. awardList \in Seq(Award) /\ i \in 1..Len(awardList)
      BY <2>2 DEF TypeOK
    <3> HIDE DEF i
    <3>2. /\ SubSeq(awardList, 1, i-1) \in Seq(Award)
          /\ SubSeq(awardList, i+1, Len(awardList)) \in Seq(Award)
      BY <3>1
    <3>3. RemoveAt(awardList, i) \in Seq(Award)
      BY <3>2 DEF RemoveAt
    <3> QED BY <3>3 DEF i
  <2> QED BY <1>2, <2>3 DEF ErasedAward
<1> QED BY <1>1, <1>2

-----------------------------------------------------------------------------
(***************************************************************************)
(* The type invariant.                                                     *)
(***************************************************************************)

\* An offer of a positive bid is stored in the open request, no other is.
LEMMA MatchedType ==
  ASSUME TypeOK, NEW r \in Robots, NEW t \in Tasks, NEW bid \in Bids
  PROVE  Mapping(Match_TaskOffer(r, t, bid), Tasks, OpenRequest)
<1> DEFINE req == openContracts[t]
           bids == With(req.bids, r, bid)
<1>1. Mapping(openContracts, Tasks, OpenRequest)
  BY DEF TypeOK
<1>2. ASSUME t \in DOMAIN openContracts, bid > 0
      PROVE  Mapping([openContracts EXCEPT ![t].bids = With(@, r, bid)], Tasks, OpenRequest)
  <2>1. req \in OpenRequest
    BY <1>1, <1>2 DEF Mapping
  <2>2. bid \in Bids \ {0}
    BY <1>2
  <2>3. DOMAIN bids \in SUBSET Robots /\ bids \in [DOMAIN bids -> Bids \ {0}]
    BY <2>1, <2>2, OpenRequestFields DEF With
  <2>4. [expire |-> req.expire, bids |-> bids, excl |-> req.excl] \in OpenRequest
    BY <2>1, <2>3, OpenRequestFields, MakeOpenRequest
  <2>5. [req EXCEPT !.bids = bids]
          = [expire |-> req.expire, bids |-> bids, excl |-> req.excl]
    BY <2>1, OpenRequestFields
  <2>6. [openContracts EXCEPT ![t].bids = With(@, r, bid)]
          = [openContracts EXCEPT ![t] = [req EXCEPT !.bids = bids]]
    OBVIOUS
  <2>7. Mapping([openContracts EXCEPT ![t] =
                   [expire |-> req.expire, bids |-> bids, excl |-> req.excl]],
                Tasks, OpenRequest)
    <3> HIDE DEF bids, req
    <3> QED BY <1>1, <2>4 DEF Mapping
  <2> QED BY <2>5, <2>6, <2>7
<1> QED BY <1>1, <1>2 DEF Match_TaskOffer

\* The winner of an auction that got offers is a robot.
LEMMA WinnerIsBidder ==
  ASSUME TypeOK, NEW t \in DOMAIN openContracts, DOMAIN openContracts[t].bids # {}
  PROVE  Find_MaxBidder(openContracts[t].bids) \in DOMAIN openContracts[t].bids
<1>1. openContracts[t] \in OpenRequest
  BY DEF TypeOK, Mapping
<1> DEFINE S == DOMAIN openContracts[t].bids
<1>2. S \in SUBSET Robots /\ openContracts[t].bids \in [S -> Bids]
  BY <1>1, OpenRequestFields
<1> QED BY <1>2, MaxBidder

\* The contracts below one that runs out first do not run out themselves.
LEMMA EarlierNotExpiring ==
  ASSUME TypeOK, NEW t \in Expiring, \A u \in Expiring : t <= u
  PROVE  {u \in DOMAIN openContracts : u < t} \cap Expiring = {}
<1>1. DOMAIN openContracts \subseteq Nat
  BY TasksAssumption DEF TypeOK, Mapping
<1> QED BY <1>1 DEF Expiring

\* Every handler and the timer keep the console's state well formed.
LEMMA TypeStep ==
  ASSUME TypeOK, [Next]_serverVars
  PROVE  TypeOK'
<1> USE DEF NoTask, NoRobot
<1>1. ASSUME NEW t \in Tasks, Inject(t) PROVE TypeOK'
  <2>1. Mapping(AfterInject(t, executingContracts, reneggedContracts), Tasks, OpenRequest)
    BY AfterInjectType DEF TypeOK
  <2> QED BY <1>1, <2>1 DEF TypeOK, Inject
<1>2. ASSUME NEW r \in Robots, NEW t \in Tasks, NEW bid \in Bids, ReceiveOffer(r, t, bid)
      PROVE  TypeOK'
  BY <1>2, MatchedType DEF TypeOK, ReceiveOffer
<1>3. ASSUME NEW r \in Robots, NEW t \in Tasks \cup {NoTask}, CancelTask(r, t)
      PROVE  TypeOK'
  <2>1. awardList' \in Seq(Award)
    BY <1>3, ErasedAwardType DEF CancelTask
  <2>2. Mapping(reneggedContracts', Tasks, SUBSET Robots)
    <3>1. CASE RenegesContract
      <4>1. cnpTaskID \in Tasks
        BY <3>1 DEF RenegesContract, TypeOK, Mapping
      <4> QED BY <1>3, <3>1, <4>1, WithMapping DEF CancelTask, ReneggedAfter, TypeOK
    <3>2. CASE ~RenegesContract
      BY <1>3, <3>2 DEF CancelTask, ReneggedAfter, TypeOK
    <3> QED BY <3>1, <3>2
  <2>3. Mapping(executingContracts', Tasks, ExecutingRequest)
    BY <1>3, WithoutMapping DEF CancelTask, TypeOK
  <2>4. /\ Mapping(openContracts', Tasks, OpenRequest)
        /\ taskConstraints' \in Tasks \cup {NoTask}
    <3>1. CASE t \in DOMAIN reneggedContracts'
      <4>1. t \in Tasks
        BY <2>2, <3>1 DEF Mapping
      <4>2. Mapping(AfterInject(t, executingContracts', reneggedContracts'),
                    Tasks, OpenRequest)
        BY <2>2, <4>1, AfterInjectType
      <4> QED BY <1>3, <3>1, <4>1, <4>2 DEF CancelTask, ReinjectTask
    <3>2. CASE t \notin DOMAIN reneggedContracts'
      BY <1>3, <3>2 DEF CancelTask, ReinjectTask, TypeOK
    <3> QED BY <3>1, <3>2
  <2> QED BY <1>3, <2>1, <2>2, <2>3, <2>4 DEF CancelTask, TypeOK
<1>4. ASSUME NEW t \in Tasks \cup {NoTask}, CompleteTask(t) PROVE TypeOK'
  BY <1>4, ErasedAwardType, WithoutMapping DEF CompleteTask, RemoveTask, TypeOK
<1>5. ASSUME ReportFailure PROVE TypeOK'
  BY <1>5, ErasedAwardType DEF ReportFailure, contracts, TypeOK
<1>6. ASSUME Tick PROVE TypeOK'
  <2>1. Mapping(Ticked(DOMAIN openContracts), Tasks, OpenRequest)
    BY <1>6, TickedType DEF Tick
  <2> QED BY <1>6, <2>1 DEF Tick, TickRunning, TypeOK
<1>7. ASSUME NEW t \in Tasks, TickAward(t) PROVE TypeOK'
  <2> DEFINE winner == Find_MaxBidder(openContracts[t].bids)
  <2>1. t \in DOMAIN openContracts /\ openContracts[t] \in OpenRequest
    BY <1>7 DEF TickAward, Expiring, TypeOK, Mapping
  <2>2. winner \in Robots
    BY <1>7, <2>1, WinnerIsBidder, OpenRequestFields DEF TickAward
  <2>3. [robot |-> winner, excl |-> openContracts[t].excl] \in ExecutingRequest
    BY <2>1, <2>2, OpenRequestFields DEF ExecutingRequest
  <2>4. Mapping(executingContracts', Tasks, ExecutingRequest)
    BY <1>7, <2>3, WithMapping DEF TickAward, TypeOK
  <2>5. awardList' \in Seq(Award)
    <3>1. [task |-> t, robot |-> winner] \in Award
      BY <2>2 DEF Award
    <3> QED BY <1>7, <3>1 DEF TickAward, TypeOK
  <2>6. Mapping(openContracts', Tasks, OpenRequest)
    BY <1>7, EarlierNotExpiring, TickedType, WithoutMapping DEF TickAward
  <2> QED BY <1>7, <2>4, <2>5, <2>6 DEF TickAward, TickRunning, TypeOK
<1>8. ASSUME NEW t \in Tasks, TickFailure(t) PROVE TypeOK'
  <2>1. awardList' \in Seq(Award)
    BY <1>8 DEF TickFailure, TypeOK, Award
  <2>2. Mapping(openContracts', Tasks, OpenRequest)
    BY <1>8, EarlierNotExpiring, TickedType, WithoutMapping DEF TickFailure
  <2>3. /\ Mapping(executingContracts', Tasks, ExecutingRequest)
        /\ Mapping(reneggedContracts', Tasks, SUBSET Robots)
    BY <1>8, WithoutMapping DEF TickFailure, TypeOK
  <2> QED BY <1>8, <2>1, <2>2, <2>3 DEF TickFailure, TickRunning, TypeOK
<1>9. ASSUME TickPaused PROVE TypeOK'
  BY <1>9 DEF TickPaused, contracts, TypeOK
<1>10. ASSUME TogglePause PROVE TypeOK'
  BY <1>10 DEF TogglePause, contracts, TypeOK
<1>11. ASSUME UNCHANGED serverVars PROVE TypeOK'
  BY <1>11 DEF serverVars, contracts, TypeOK
<1> QED BY <1>1, <1>2, <1>3, <1>4, <1>5, <1>6, <1>7, <1>8, <1>9, <1>10, <1>11
        DEF Next, CheckExpire

\* The console's state is well formed in every reachable state: no map ever
\* holds an auction that ran out, a bid of 0 or a winner that is not a robot.
THEOREM TypeCorrect == Spec => []TypeOK
<1>1. Init => TypeOK
  <2>1. ASSUME NEW keys, NEW values PROVE Mapping(EmptyMap, keys, values)
    BY DEF EmptyMap, Mapping
  <2>2. <<>> \in Seq(Award)
    OBVIOUS
  <2> QED BY <2>1, <2>2 DEF Init, TypeOK
<1>2. TypeOK /\ [Next]_serverVars => TypeOK'
  BY TypeStep
<1> QED BY <1>1, <1>2, PTL DEF Spec

-----------------------------------------------------------------------------
(***************************************************************************)
(* One contract per task.                                                  *)
(***************************************************************************)

\* No handler opens a contract that executes, or lets one execute that stays
\* open.  In CancelTask it matters that the contract leaves the executing ones
\* before the reinjection looks for duplicates.
LEMMA OneContractStep ==
  ASSUME OneContractPerTask, [Next]_serverVars
  PROVE  OneContractPerTask'
<1> USE DEF OneContractPerTask
<1>1. ASSUME NEW t, NEW x, NEW n,
             DOMAIN openContracts \cap DOMAIN x = {}
      PROVE  DOMAIN AfterInject(t, x, n) \cap DOMAIN x = {}
  BY <1>1 DEF AfterInject, With
<1>2. ASSUME NEW t \in Tasks, Inject(t) PROVE OneContractPerTask'
  BY <1>1, <1>2 DEF Inject
<1>3. ASSUME NEW r \in Robots, NEW t \in Tasks, NEW bid \in Bids, ReceiveOffer(r, t, bid)
      PROVE  OneContractPerTask'
  BY <1>3 DEF ReceiveOffer, Match_TaskOffer
<1>4. ASSUME NEW r \in Robots, NEW t \in Tasks \cup {NoTask}, CancelTask(r, t)
      PROVE  OneContractPerTask'
  <2>1. DOMAIN openContracts \cap DOMAIN executingContracts' = {}
    BY <1>4 DEF CancelTask, Without
  <2> QED BY <1>1, <1>4, <2>1 DEF CancelTask, ReinjectTask
<1>5. ASSUME NEW t \in Tasks \cup {NoTask}, CompleteTask(t) PROVE OneContractPerTask'
  BY <1>5 DEF CompleteTask, RemoveTask, Without
<1>6. ASSUME Tick PROVE OneContractPerTask'
  BY <1>6 DEF Tick, Ticked
<1>7. ASSUME NEW t \in Tasks, TickAward(t) PROVE OneContractPerTask'
  BY <1>7 DEF TickAward, Ticked, Without, With
<1>8. ASSUME NEW t \in Tasks, TickFailure(t) PROVE OneContractPerTask'
  BY <1>8 DEF TickFailure, Ticked, Without
<1>9. ASSUME UNCHANGED contracts PROVE OneContractPerTask'
  BY <1>9 DEF contracts
<1> QED BY <1>2, <1>3, <1>4, <1>5, <1>6, <1>7, <1>8, <1>9
        DEF Next, CheckExpire, ReportFailure, TickPaused, TogglePause, serverVars

\* A task is never up for auction while a robot holds it.
THEOREM ContractsDisjoint == Spec => []OneContractPerTask
<1>1. Init => OneContractPerTask
  BY DEF Init, EmptyMap, OneContractPerTask
<1>2. OneContractPerTask /\ [Next]_serverVars => OneContractPerTask'
  BY OneContractStep
<1> QED BY <1>1, <1>2, PTL DEF Spec

\* A step that puts a task among the executing contracts takes it from the
\* open ones, so with OneContractPerTask it never overwrites a holder.
LEMMA HolderStep ==
  ASSUME OneContractPerTask, [Next]_serverVars
  PROVE  HolderKept
<1>1. ASSUME NEW r \in Robots, NEW t \in Tasks \cup {NoTask}, CancelTask(r, t)
      PROVE  HolderKept
  BY <1>1 DEF CancelTask, Without, HolderKept
<1>2. ASSUME NEW t \in Tasks \cup {NoTask}, CompleteTask(t) PROVE HolderKept
  BY <1>2 DEF CompleteTask, RemoveTask, Without, HolderKept
<1>3. ASSUME NEW t \in Tasks, TickAward(t) PROVE HolderKept
  <2>1. t \in DOMAIN openContracts
    BY <1>3 DEF TickAward, Expiring
  <2>2. t \notin DOMAIN executingContracts
    BY <2>1 DEF OneContractPerTask
  <2> QED BY <1>3, <2>2 DEF TickAward, With, HolderKept
<1>4. ASSUME NEW t \in Tasks, TickFailure(t) PROVE HolderKept
  BY <1>4 DEF TickFailure, Without, HolderKept
<1>5. ASSUME UNCHANGED executingContracts PROVE HolderKept
  BY <1>5 DEF HolderKept
<1> QED BY <1>1, <1>2, <1>3, <1>4, <1>5
        DEF Next, CheckExpire, Inject, ReceiveOffer, ReportFailure, Tick, TickPaused,
            TogglePause, serverVars, contracts

\* A robot that holds a contract keeps it until it is cancelled or completed.
THEOREM HoldersKept == Spec => NoSilentHandover
<1>1. OneContractPerTask /\ [Next]_serverVars => [HolderKept]_serverVars
  BY HolderStep
<1> QED BY <1>1, ContractsDisjoint, PTL DEF Spec, NoSilentHandover

-----------------------------------------------------------------------------
(***************************************************************************)
(* The exclusions of a contract.                                           *)
(***************************************************************************)

\* The exclusions on record follow every contract.  The record of the task
\* injected last changes in CancelTask while its contract is executing, so by
\* OneContractPerTask no open contract is affected.
LEMMA ExclusionsStep ==
  ASSUME TypeOK, OneContractPerTask, ExclusionsMatchRecord, [Next]_serverVars
  PROVE  ExclusionsMatchRecord'
<1> USE DEF ExclusionsMatchRecord, RecordedExclusions
<1>1. ASSUME NEW t, NEW x, NEW n, NEW u \in DOMAIN AfterInject(t, x, n),
             \A v \in DOMAIN openContracts :
               openContracts[v].excl = IF v \in DOMAIN n THEN n[v] ELSE {}
      PROVE  AfterInject(t, x, n)[u].excl = IF u \in DOMAIN n THEN n[u] ELSE {}
  BY <1>1 DEF AfterInject, NewRequest, With
<1>2. ASSUME NEW t \in Tasks, Inject(t) PROVE ExclusionsMatchRecord'
  BY <1>1, <1>2 DEF Inject
<1>3. ASSUME NEW r \in Robots, NEW t \in Tasks, NEW bid \in Bids, ReceiveOffer(r, t, bid)
      PROVE  ExclusionsMatchRecord'
  <2>1. \A u \in DOMAIN openContracts : openContracts[u] \in OpenRequest
    BY DEF TypeOK, Mapping
  <2>2. ASSUME NEW u \in DOMAIN openContracts', openContracts' # openContracts
        PROVE  u \in DOMAIN openContracts /\ openContracts'[u].excl = openContracts[u].excl
    <3>1. openContracts' = [openContracts EXCEPT ![t].bids = With(@, r, bid)]
      BY <1>3, <2>2 DEF ReceiveOffer, Match_TaskOffer
    <3>2. u \in DOMAIN openContracts
      BY <3>1
    <3>3. CASE u # t
      BY <3>1, <3>2, <3>3
    <3>4. CASE u = t
      <4>1. openContracts'[t] = [openContracts[t] EXCEPT !.bids = With(@, r, bid)]
        BY <3>1, <3>2, <3>4
      <4>2. openContracts[t] = [expire |-> openContracts[t].expire,
                                bids |-> openContracts[t].bids,
                                excl |-> openContracts[t].excl]
        BY <2>1, <3>2, <3>4, OpenRequestFields
      <4> QED BY <3>2, <3>4, <4>1, <4>2
    <3> QED BY <3>3, <3>4
  <2> QED BY <1>3, <2>2 DEF ReceiveOffer
<1>4. ASSUME NEW r \in Robots, NEW t \in Tasks \cup {NoTask}, CancelTask(r, t)
      PROVE  ExclusionsMatchRecord'
  <2>1. \A v \in DOMAIN executingContracts' :
          /\ v \in DOMAIN executingContracts /\ v # cnpTaskID
          /\ executingContracts'[v] = executingContracts[v]
    BY <1>4 DEF CancelTask, Without
  <2>2. ASSUME NEW v, v # cnpTaskID \/ ~RenegesContract
        PROVE  RecordedExclusions(v)' = RecordedExclusions(v)
    BY <1>4, <2>2 DEF CancelTask, ReneggedAfter, With
  <2>3. \A v \in DOMAIN executingContracts' :
          executingContracts'[v].excl = RecordedExclusions(v)'
    BY <2>1, <2>2
  <2>4. \A v \in DOMAIN openContracts : v # cnpTaskID \/ ~RenegesContract
    BY DEF OneContractPerTask, RenegesContract
  <2>5. \A v \in DOMAIN openContracts : openContracts[v].excl = RecordedExclusions(v)'
    BY <2>2, <2>4
  <2>6. \A v \in DOMAIN openContracts' : openContracts'[v].excl = RecordedExclusions(v)'
    <3>1. CASE UNCHANGED openContracts
      BY <2>5, <3>1
    <3>2. CASE openContracts' = AfterInject(t, executingContracts', reneggedContracts')
      BY <1>1, <2>5, <3>2
    <3> QED BY <1>4, <3>1, <3>2 DEF CancelTask, ReinjectTask
  <2> QED BY <2>3, <2>6
<1>5. ASSUME NEW t \in Tasks \cup {NoTask}, CompleteTask(t) PROVE ExclusionsMatchRecord'
  BY <1>5 DEF CompleteTask, RemoveTask, Without
<1>6. ASSUME NEW S, NEW u \in DOMAIN Ticked(S)
      PROVE  u \in DOMAIN openContracts /\ Ticked(S)[u].excl = openContracts[u].excl
  <2>1. u \in DOMAIN openContracts /\ openContracts[u] \in OpenRequest
    BY <1>6 DEF TypeOK, Mapping, Ticked
  <2>2. openContracts[u] = [expire |-> openContracts[u].expire,
                            bids |-> openContracts[u].bids, excl |-> openContracts[u].excl]
    BY <2>1, OpenRequestFields
  <2> QED BY <2>1, <2>2 DEF Ticked
<1>7. ASSUME Tick PROVE ExclusionsMatchRecord'
  BY <1>6, <1>7 DEF Tick
<1>8. ASSUME NEW t \in Tasks, TickAward(t) PROVE ExclusionsMatchRecord'
  <2>1. t \in DOMAIN openContracts
    BY <1>8 DEF TickAward, Expiring
  <2> QED BY <1>6, <1>8, <2>1 DEF TickAward, Without, With
<1>9. ASSUME NEW t \in Tasks, TickFailure(t) PROVE ExclusionsMatchRecord'
  BY <1>6, <1>9 DEF TickFailure, Without
<1>10. ASSUME UNCHANGED contracts PROVE ExclusionsMatchRecord'
  BY <1>10 DEF contracts
<1> QED BY <1>2, <1>3, <1>4, <1>5, <1>7, <1>8, <1>9, <1>10
        DEF Next, CheckExpire, ReportFailure, TickPaused, TogglePause, serverVars

\* The exclusions of every open or executing contract are those on record.
THEOREM ExclusionsFollowRecord == Spec => []ExclusionsMatchRecord
<1>1. Init => ExclusionsMatchRecord
  BY DEF Init, EmptyMap, ExclusionsMatchRecord
<1>2. TypeOK /\ OneContractPerTask /\ ExclusionsMatchRecord /\ [Next]_serverVars
        => ExclusionsMatchRecord'
  BY ExclusionsStep
<1> QED BY <1>1, <1>2, TypeCorrect, ContractsDisjoint, PTL DEF Spec

-----------------------------------------------------------------------------
(***************************************************************************)
(* The winner of an auction.                                               *)
(***************************************************************************)

\* Only the timer makes a contract executing, and then MaxBidder applies.
LEMMA AwardStep ==
  ASSUME TypeOK, [Next]_serverVars
  PROVE  AwardedFairly
<1>1. ASSUME DOMAIN executingContracts' \subseteq DOMAIN executingContracts
      PROVE  AwardedFairly
  BY <1>1 DEF AwardedFairly
<1>2. ASSUME NEW t \in Tasks, TickAward(t) PROVE AwardedFairly
  <2> DEFINE bids == openContracts[t].bids
             S == DOMAIN bids
             winner == Find_MaxBidder(bids)
  <2>1. t \in DOMAIN openContracts /\ S # {}
    BY <1>2 DEF TickAward, Expiring
  <2>2. openContracts[t] \in OpenRequest
    BY <2>1 DEF TypeOK, Mapping
  <2>3. S \in SUBSET Robots /\ bids \in [S -> Bids]
    BY <2>2, OpenRequestFields
  <2>4. /\ winner \in S
        /\ \A q \in S : \/ bids[q] < bids[winner]
                        \/ bids[q] = bids[winner] /\ winner <= q
    BY <2>1, <2>3, MaxBidder
  <2>5. \A u \in DOMAIN executingContracts' \ DOMAIN executingContracts :
          u = t /\ executingContracts'[u].robot = winner
    BY <1>2 DEF TickAward, With
  <2> QED BY <2>4, <2>5 DEF AwardedFairly
<1>3. ASSUME NEW r \in Robots, NEW t \in Tasks \cup {NoTask}, CancelTask(r, t)
      PROVE  DOMAIN executingContracts' \subseteq DOMAIN executingContracts
  BY <1>3 DEF CancelTask, Without
<1>4. ASSUME NEW t \in Tasks \cup {NoTask}, CompleteTask(t)
      PROVE  DOMAIN executingContracts' \subseteq DOMAIN executingContracts
  BY <1>4 DEF CompleteTask, RemoveTask, Without
<1>5. ASSUME NEW t \in Tasks, TickFailure(t)
      PROVE  DOMAIN executingContracts' \subseteq DOMAIN executingContracts
  BY <1>5 DEF TickFailure, Without
<1> QED BY <1>1, <1>2, <1>3, <1>4, <1>5
        DEF Next, CheckExpire, Inject, ReceiveOffer, ReportFailure, Tick, TickPaused,
            TogglePause, serverVars, contracts

\* Every auction with offers goes to a highest bidder, ties to the lowest id.
THEOREM HighestBidWins == Spec => AwardsGoToHighestBid
<1>1. TypeOK /\ [Next]_serverVars => [AwardedFairly]_serverVars
  BY AwardStep
<1> QED BY <1>1, TypeCorrect, PTL DEF Spec, AwardsGoToHighestBid

-----------------------------------------------------------------------------
(***************************************************************************)
(* The award list: what a step does to the answer a robot would get.       *)
(***************************************************************************)

\* Min is the element below all others.
LEMMA MinIs ==
  ASSUME NEW S \in SUBSET Nat, NEW i \in S, \A j \in S : i <= j
  PROVE  Min(S) = i
<1> DEFINE least == Min(S)
<1>1. least \in S /\ least <= i
  BY LeastNat
<1>2. i <= least /\ i \in Nat /\ least \in Nat
  BY <1>1
<1> HIDE DEF least
<1>3. least = i
  BY <1>1, <1>2
<1> QED BY <1>3 DEF least

\* The entries of a list from which one was erased.
LEMMA RemoveAtEntries ==
  ASSUME NEW S, NEW s \in Seq(S), NEW k \in 1..Len(s)
  PROVE  /\ Len(RemoveAt(s, k)) = Len(s) - 1
         /\ \A i \in 1..(Len(s) - 1) :
              RemoveAt(s, k)[i] = IF i < k THEN s[i] ELSE s[i + 1]
<1> DEFINE a == SubSeq(s, 1, k - 1)
           b == SubSeq(s, k + 1, Len(s))
<1>1. /\ a \in Seq(S) /\ Len(a) = k - 1
      /\ \A i \in 1..(k - 1) : a[i] = s[i]
  OBVIOUS
<1>2. /\ b \in Seq(S) /\ Len(b) = Len(s) - k
      /\ \A i \in 1..(Len(s) - k) : b[i] = s[i + k]
  OBVIOUS
<1>3. RemoveAt(s, k) = a \o b
  BY DEF RemoveAt
<1> HIDE DEF a, b
<1>4. Len(a \o b) = Len(s) - 1
  BY <1>1, <1>2
<1>5. ASSUME NEW i \in 1..(Len(s) - 1)
      PROVE  (a \o b)[i] = IF i < k THEN s[i] ELSE s[i + 1]
  <2>1. CASE i < k
    BY <1>1, <1>2, <2>1
  <2>2. CASE ~(i < k)
    <3>1. i - Len(a) \in 1..Len(b) /\ (i - Len(a)) + k = i + 1
      BY <1>1, <1>2, <2>2
    <3>2. (a \o b)[i] = b[i - Len(a)]
      BY <1>1, <1>2, <2>2
    <3>3. b[i - Len(a)] = s[(i - Len(a)) + k]
      BY <1>2, <3>1
    <3> QED BY <2>2, <3>1, <3>2, <3>3
  <2> QED BY <2>1, <2>2
<1> QED BY <1>3, <1>4, <1>5

\* A further award, of whatever task, does not change the answer about a task
\* that has one already.
LEMMA AppendKeepsAward ==
  ASSUME TypeOK, NEW t, AwardsOf(t) # {}, NEW a, awardList' = Append(awardList, a)
  PROVE  AwardedRobot(t)' = AwardedRobot(t)
<1> DEFINE f == FirstAward(t)
<1>1. f \in AwardsOf(t) /\ \A i \in AwardsOf(t) : f <= i
  BY FirstAwardIndex
<1>2. /\ Len(awardList') = Len(awardList) + 1
      /\ \A i \in 1..Len(awardList) : awardList'[i] = awardList[i]
      /\ Len(awardList) \in Nat
  BY DEF TypeOK
<1>3. f \in 1..Len(awardList) /\ awardList[f].task = t
  BY <1>1 DEF AwardsOf
<1> HIDE DEF f
<1>4. f \in AwardsOf(t)' /\ AwardsOf(t)' \in SUBSET Nat
  BY <1>2, <1>3 DEF AwardsOf
<1>5. \A i \in AwardsOf(t)' : f <= i
  BY <1>1, <1>2, <1>3 DEF AwardsOf
<1>6. FirstAward(t)' = f
  BY <1>4, <1>5, MinIs DEF FirstAward
<1>7. f # 0 /\ awardList'[f] = awardList[f]
  BY <1>2, <1>3
<1> QED BY <1>6, <1>7 DEF AwardedRobot, f

\* A further award of another task does not make one for a task without.
LEMMA AppendOther ==
  ASSUME TypeOK, NEW t, AwardsOf(t) = {}, NEW a, a.task # t,
         awardList' = Append(awardList, a)
  PROVE  AwardedRobot(t)' = NoRobot
<1>1. AwardsOf(t)' = {}
  BY DEF AwardsOf, TypeOK
<1> QED BY <1>1 DEF AwardedRobot, FirstAward

\* Erasing the first award of one task keeps the answers about all others.
LEMMA ErasingKeepsOthers ==
  ASSUME TypeOK, NEW u, NEW t, t # u, awardList' = ErasedAward(u)
  PROVE  AwardedRobot(t)' = AwardedRobot(t)
<1> DEFINE k == FirstAward(u)
           f == FirstAward(t)
<1>1. CASE k = 0
  BY <1>1 DEF ErasedAward, AwardedRobot, FirstAward, AwardsOf
<1>2. CASE k # 0
  <2>1. AwardsOf(u) # {}
    BY <1>2 DEF FirstAward
  <2>2. k \in 1..Len(awardList) /\ awardList[k].task = u
    BY <2>1, FirstAwardIndex DEF AwardsOf
  <2>3. awardList' = RemoveAt(awardList, k) /\ awardList \in Seq(Award)
    BY <1>2 DEF ErasedAward, TypeOK
  <2>4. f # 0 => f \in AwardsOf(t) /\ \A i \in AwardsOf(t) : f <= i
    BY FirstAwardIndex DEF FirstAward
  <2>5. f = 0 => AwardsOf(t) = {}
    <3>1. AwardsOf(t) # {} => f \in 1..Len(awardList)
      BY FirstAwardIndex DEF AwardsOf
    <3> QED BY <3>1
  <2> HIDE DEF k, f
  <2>6. /\ Len(awardList') = Len(awardList) - 1
        /\ \A i \in 1..(Len(awardList) - 1) :
             awardList'[i] = IF i < k THEN awardList[i] ELSE awardList[i + 1]
        /\ Len(awardList) \in Nat
    <3>1. /\ Len(RemoveAt(awardList, k)) = Len(awardList) - 1
          /\ \A i \in 1..(Len(awardList) - 1) :
               RemoveAt(awardList, k)[i] =
                 IF i < k THEN awardList[i] ELSE awardList[i + 1]
      BY <2>2, <2>3, RemoveAtEntries
    <3>2. Len(awardList) \in Nat
      BY <2>3
    <3> QED BY <2>3, <3>1, <3>2, Zenon
  <2>7. CASE f = 0
    <3>1. ASSUME NEW i \in AwardsOf(t)' PROVE FALSE
      <4>1. /\ i \in 1..(Len(awardList) - 1)
            /\ awardList'[i].task = t
        BY <2>6 DEF AwardsOf
      <4>2. i \in AwardsOf(t) \/ i + 1 \in AwardsOf(t)
        BY <2>6, <4>1 DEF AwardsOf
      <4> QED BY <2>5, <2>7, <4>2
    <3> QED BY <2>7, <3>1 DEF AwardedRobot, FirstAward, f
  <2>8. CASE f # 0
    <3> DEFINE g == IF f < k THEN f ELSE f - 1
    <3>1. f \in 1..Len(awardList) /\ awardList[f].task = t /\ f # k
      BY <2>2, <2>4, <2>8 DEF AwardsOf
    <3>2. g \in 1..(Len(awardList) - 1) /\ awardList'[g] = awardList[f]
      BY <2>2, <2>6, <3>1
    <3>3. AwardsOf(t)' \in SUBSET Nat /\ g \in AwardsOf(t)'
      BY <2>6, <3>1, <3>2 DEF AwardsOf
    <3>4. ASSUME NEW i \in AwardsOf(t)' PROVE g <= i
      <4>1. i \in 1..(Len(awardList) - 1) /\ awardList'[i].task = t
        BY <2>6 DEF AwardsOf
      <4>2. CASE i < k
        <5>1. i \in AwardsOf(t)
          BY <2>6, <4>1, <4>2 DEF AwardsOf
        <5> QED BY <2>4, <2>8, <3>1, <4>1, <5>1
      <4>3. CASE ~(i < k)
        <5>1. i + 1 \in AwardsOf(t)
          BY <2>6, <4>1, <4>3 DEF AwardsOf
        <5>2. f <= i + 1
          BY <2>4, <2>8, <5>1
        <5> QED BY <2>2, <3>1, <4>1, <4>3, <5>2
      <4> QED BY <4>2, <4>3
    <3> HIDE DEF g
    <3>5. FirstAward(t)' = g
      BY <3>3, <3>4, MinIs DEF FirstAward
    <3>6. g # 0
      BY <3>2
    <3> QED BY <2>8, <3>2, <3>5, <3>6 DEF AwardedRobot, f
  <2> QED BY <2>7, <2>8
<1> QED BY <1>1, <1>2

-----------------------------------------------------------------------------
(***************************************************************************)
(* Types.                                                                  *)
(***************************************************************************)

\* A robot in the middle of a call or of an auction has a task in hand.
TaskInHand ==
  \A r \in Robots :
    /\ phase[r] = "offered" => offeredTask[r] \in Tasks
    /\ phase[r] = "bidding" => biddingTask[r] \in Tasks

RuntimeTypeInv == RuntimeTypeOK /\ TaskInHand

\* What a message of each kind carries.
LEMMA MessageFields ==
  ASSUME NEW m \in Message
  PROVE  /\ m.type \in {"inject", "bid", "complete", "reneg"}
         /\ m.type \in {"inject", "bid"} => m.task \in Tasks
         /\ m.type = "bid" => m.bid \in Bids
         /\ m.task \in Tasks \cup {NoTask}
<1>1. CASE m \in [type : {"inject"}, task : Tasks]
  BY <1>1
<1>2. CASE m \in [type : {"bid"}, task : Tasks, bid : Bids]
  BY <1>2
<1>3. CASE m \in [type : {"complete", "reneg"}, task : Tasks \cup {NoTask}]
  BY <1>3
<1> QED BY <1>1, <1>2, <1>3 DEF Message

\* A queue that is not empty has a first element and a rest of its kind.
LEMMA FirstAndRest ==
  ASSUME NEW S, NEW s \in Seq(S), s # <<>>
  PROVE  Head(s) \in S /\ Tail(s) \in Seq(S)
OBVIOUS

\* The message a robot sent first and the console has not handled yet.
LEMMA HeadMessage ==
  ASSUME RuntimeTypeOK, NEW r \in Robots, queue[r] # <<>>
  PROVE  Head(queue[r]) \in Message /\ Tail(queue[r]) \in Seq(Message)
<1>1. queue[r] \in Seq(Message)
  BY DEF RuntimeTypeOK
<1> QED BY <1>1

\* To the console, every step of the robots' world is a step of its own
\* specification or none at all.
LEMMA ServerStep ==
  ASSUME RuntimeTypeOK, [RuntimeNext]_vars
  PROVE  [Next]_serverVars
<1>1. ASSUME NEW r \in Robots, Receive(r) PROVE Next
  <2> DEFINE m == Head(queue[r])
  <2>1. m \in Message
    BY <1>1, HeadMessage DEF Receive
  <2>2. /\ m.type \in {"inject", "bid"} => m.task \in Tasks
        /\ m.type = "bid" => m.bid \in Bids
        /\ m.task \in Tasks \cup {NoTask}
    BY <2>1, MessageFields
  <2>3. \/ m.type = "inject" /\ Inject(m.task)
        \/ m.type = "bid" /\ ReceiveOffer(r, m.task, m.bid)
        \/ m.type = "reneg" /\ CancelTask(r, m.task)
        \/ m.type = "complete" /\ CompleteTask(m.task)
    BY <1>1 DEF Receive
  <2> HIDE DEF m
  <2> QED BY <2>2, <2>3 DEF Next
<1>2. ASSUME CheckExpire \/ TogglePause PROVE Next
  BY <1>2 DEF Next
<1>3. ASSUME NEW r \in Robots, AskAuctionFailed(r) PROVE Next
  BY <1>3 DEF AskAuctionFailed, Next
<1>4. ASSUME NEW r \in Robots, RobotStep(r) PROVE UNCHANGED serverVars \/ AskAuctionFailed(r)
  BY <1>4 DEF RobotStep, InjectTask, GetTask, GetTaskConstraints, BidOnTask,
              SeeAuctionFailed, SeeAuctionLost, SeeAuctionWon, NotifyStarted,
              NotifyCompleted, NotifyReneged, CancelExecuting, ReceiveNews
<1>5. ASSUME UNCHANGED vars PROVE UNCHANGED serverVars
  BY <1>5 DEF vars
<1> QED BY <1>1, <1>2, <1>3, <1>4, <1>5 DEF RuntimeNext, ConsoleStep

\* A robot that is offered a task is offered one of the console's.
LEMMA OfferedTask ==
  ASSUME TypeOK, NEW r \in Robots, Eligible(r) # {}
  PROVE  Min(Eligible(r)) \in Eligible(r) /\ Min(Eligible(r)) \in Tasks
<1>1. Eligible(r) \in SUBSET Nat /\ Eligible(r) \subseteq Tasks
  BY TasksAssumption DEF Eligible, TypeOK, Mapping
<1> QED BY <1>1, LeastNat

\* Sending puts one well-formed message into one queue.
LEMMA SendType ==
  ASSUME RuntimeTypeOK, NEW r \in Robots, NEW m \in Message, SendMessage(r, m)
  PROVE  queue' \in [Robots -> Seq(Message)]
<1>1. queue \in [Robots -> Seq(Message)] /\ queue' = [queue EXCEPT ![r] = Append(@, m)]
  BY DEF RuntimeTypeOK, SendMessage
<1> QED BY <1>1

\* A broadcast writes the sender's database and one connection per peer.
LEMMA BroadcastType ==
  ASSUME RuntimeTypeOK, NEW r \in Robots, NEW value \in BOOLEAN, Broadcast(r, value)
  PROVE  /\ auctionFailed' \in [Robots -> BOOLEAN]
         /\ news' \in [Robots -> [Robots -> Seq(BOOLEAN)]]
<1>1. auctionFailed \in [Robots -> BOOLEAN] /\ news \in [Robots -> [Robots -> Seq(BOOLEAN)]]
  BY DEF RuntimeTypeOK
<1>2. auctionFailed' \in [Robots -> BOOLEAN]
  BY <1>1, Zenon DEF Broadcast
<1>3. \A p \in Robots : news[r][p] \in Seq(BOOLEAN) /\ Append(news[r][p], value) \in Seq(BOOLEAN)
  BY <1>1
<1>4. [p \in Robots |-> IF p = r THEN news[r][p] ELSE Append(news[r][p], value)]
        \in [Robots -> Seq(BOOLEAN)]
  BY <1>3
<1>5. news' \in [Robots -> [Robots -> Seq(BOOLEAN)]]
  BY <1>1, <1>4 DEF Broadcast
<1> QED BY <1>2, <1>5

\* Every robot, message and broadcast stays well formed.
LEMMA RuntimeTypeStep ==
  ASSUME RuntimeTypeInv, [RuntimeNext]_vars
  PROVE  RuntimeTypeInv'
<1> USE DEF RuntimeTypeInv
<1>0. TypeOK'
  BY ServerStep, TypeStep DEF RuntimeTypeOK
<1>1. ASSUME NEW r \in Robots, Receive(r) PROVE RuntimeTypeInv'
  <2>1. queue' \in [Robots -> Seq(Message)]
    <3>1. queue \in [Robots -> Seq(Message)]
      BY DEF RuntimeTypeOK
    <3> QED BY <1>1, <3>1, HeadMessage DEF Receive
  <2> QED BY <1>0, <1>1, <2>1 DEF Receive, robotVars, RuntimeTypeOK, TaskInHand
<1>2. ASSUME UNCHANGED <<robotVars, queue, news>> PROVE RuntimeTypeInv'
  BY <1>0, <1>2 DEF robotVars, RuntimeTypeOK, TaskInHand
<1>3. ASSUME NEW r \in Robots, NEW t \in Tasks, InjectTask(r, t) PROVE RuntimeTypeInv'
  <2>1. queue' \in [Robots -> Seq(Message)]
    <3>1. [type |-> "inject", task |-> t] \in Message
      BY DEF Message
    <3> QED BY <1>3, <3>1, SendType DEF InjectTask
  <2>2. /\ auctionFailed' \in [Robots -> BOOLEAN]
        /\ news' \in [Robots -> [Robots -> Seq(BOOLEAN)]]
    BY <1>3, BroadcastType DEF InjectTask
  <2> QED BY <1>0, <1>3, <2>1, <2>2 DEF InjectTask, RuntimeTypeOK, TaskInHand
<1>4. ASSUME NEW r \in Robots, GetTask(r) PROVE RuntimeTypeInv'
  <2>1. Min(Eligible(r)) \in Tasks
    BY <1>4, OfferedTask DEF GetTask, RuntimeTypeOK
  <2> HIDE DEF RuntimeTypeInv
  <2>2. /\ phase' \in [Robots -> Phases]
        /\ offeredTask' \in [Robots -> Tasks \cup {NoTask}]
    BY <1>4, <2>1 DEF GetTask, RuntimeTypeInv, RuntimeTypeOK, Phases
  <2>3. TaskInHand'
    BY <1>4, <2>1 DEF GetTask, RuntimeTypeInv, RuntimeTypeOK, TaskInHand, Phases
  <2> QED BY <1>0, <1>4, <2>2, <2>3 DEF GetTask, RuntimeTypeInv, RuntimeTypeOK
<1>5. ASSUME NEW r \in Robots, GetTaskConstraints(r) PROVE RuntimeTypeInv'
  <2>1. /\ phase' \in [Robots -> Phases]
        /\ biddingTask' \in [Robots -> Tasks \cup {NoTask}]
        /\ biddingTaskConstraints' \in [Robots -> Tasks \cup {NoTask}]
        /\ wonTask' \in [Robots -> Tasks \cup {NoTask}]
        /\ offeredTask' \in [Robots -> Tasks \cup {NoTask}]
    BY <1>5 DEF GetTaskConstraints, RuntimeTypeOK, TypeOK, Phases
  <2>2. TaskInHand'
    BY <1>5 DEF GetTaskConstraints, RuntimeTypeOK, TaskInHand
  <2> QED BY <1>0, <1>5, <2>1, <2>2 DEF GetTaskConstraints, RuntimeTypeOK
<1>6. ASSUME NEW r \in Robots, NEW bid \in Bids, BidOnTask(r, bid) PROVE RuntimeTypeInv'
  <2>1. biddingTask[r] \in Tasks
    BY <1>6 DEF BidOnTask, TaskInHand
  <2>2. [type |-> "bid", task |-> biddingTask[r], bid |-> bid] \in Message
    BY <2>1 DEF Message
  <2>3. queue' \in [Robots -> Seq(Message)]
    BY <1>6, <2>2, SendType DEF BidOnTask
  <2> QED BY <1>0, <1>6, <2>3 DEF BidOnTask, robotVars, RuntimeTypeOK, TaskInHand
<1>7. ASSUME NEW r \in Robots, LoseBidding(r)
      PROVE  /\ phase' \in [Robots -> Phases]
             /\ wonTask' \in [Robots -> Tasks \cup {NoTask}]
             /\ biddingTask' \in [Robots -> Tasks \cup {NoTask}]
             /\ \A q \in Robots : phase'[q] = "offered" => phase[q] = "offered"
             /\ \A q \in Robots : phase'[q] = "bidding" =>
                  phase[q] = "bidding" /\ biddingTask'[q] = biddingTask[q]
  BY <1>7 DEF LoseBidding, RuntimeTypeOK, Phases
<1>8. ASSUME NEW r \in Robots, SeeAuctionFailed(r) PROVE RuntimeTypeInv'
  <2>1. auctionFailed' \in [Robots -> BOOLEAN]
    BY <1>8, Zenon DEF SeeAuctionFailed, RuntimeTypeOK
  <2> QED BY <1>0, <1>7, <1>8, <2>1 DEF SeeAuctionFailed, RuntimeTypeOK, TaskInHand
<1>9. ASSUME NEW r \in Robots, SeeAuctionLost(r) PROVE RuntimeTypeInv'
  BY <1>0, <1>7, <1>9 DEF SeeAuctionLost, RuntimeTypeOK, TaskInHand
<1>10. ASSUME NEW r \in Robots, SeeAuctionWon(r) PROVE RuntimeTypeInv'
  <2>1. /\ phase' \in [Robots -> Phases]
        /\ wonTask' \in [Robots -> Tasks \cup {NoTask}]
        /\ biddingTask' \in [Robots -> Tasks \cup {NoTask}]
    BY <1>10 DEF SeeAuctionWon, RuntimeTypeOK, Phases
  <2>2. TaskInHand'
    BY <1>10 DEF SeeAuctionWon, RuntimeTypeOK, TaskInHand
  <2> QED BY <1>0, <1>10, <2>1, <2>2 DEF SeeAuctionWon, RuntimeTypeOK
<1>11. ASSUME NEW r \in Robots, AskAuctionFailed(r) PROVE RuntimeTypeInv'
  <2>1. /\ auctionFailed' \in [Robots -> BOOLEAN]
        /\ news' \in [Robots -> [Robots -> Seq(BOOLEAN)]]
    BY <1>11, BroadcastType DEF AskAuctionFailed
  <2> QED BY <1>0, <1>11, <2>1 DEF AskAuctionFailed, RuntimeTypeOK, TaskInHand
<1>12. ASSUME NEW r \in Robots, NotifyStarted(r) PROVE RuntimeTypeInv'
  <2>1. /\ phase' \in [Robots -> Phases]
        /\ executingTask' \in [Robots -> Tasks \cup {NoTask}]
    BY <1>12 DEF NotifyStarted, RuntimeTypeOK, Phases
  <2>2. TaskInHand'
    BY <1>12 DEF NotifyStarted, RuntimeTypeOK, TaskInHand
  <2> QED BY <1>0, <1>12, <2>1, <2>2 DEF NotifyStarted, RuntimeTypeOK
<1>13. ASSUME NEW r \in Robots, NEW type \in {"complete", "reneg"}, CancelExecuting(r, type)
       PROVE  RuntimeTypeInv'
  <2>1. executingTask[r] \in Tasks \cup {NoTask}
    BY DEF RuntimeTypeOK
  <2>2. [type |-> type, task |-> executingTask[r]] \in Message
    BY <2>1 DEF Message
  <2>3. queue' \in [Robots -> Seq(Message)]
    BY <1>13, <2>2, SendType DEF CancelExecuting
  <2>4. /\ phase' \in [Robots -> Phases]
        /\ executingTask' \in [Robots -> Tasks \cup {NoTask}]
    BY <1>13 DEF CancelExecuting, RuntimeTypeOK, Phases
  <2>5. TaskInHand'
    BY <1>13 DEF CancelExecuting, RuntimeTypeOK, TaskInHand
  <2> QED BY <1>0, <1>13, <2>3, <2>4, <2>5 DEF CancelExecuting, RuntimeTypeOK
<1>14. ASSUME NEW r \in Robots, NEW s \in Robots, ReceiveNews(s, r) PROVE RuntimeTypeInv'
  <2>1. /\ news \in [Robots -> [Robots -> Seq(BOOLEAN)]] /\ news[s][r] \in Seq(BOOLEAN)
        /\ news[s][r] # <<>>
        /\ auctionFailed \in [Robots -> BOOLEAN]
    BY <1>14 DEF ReceiveNews, RuntimeTypeOK
  <2>2. Head(news[s][r]) \in BOOLEAN /\ Tail(news[s][r]) \in Seq(BOOLEAN)
    BY <2>1, FirstAndRest
  <2>3. auctionFailed' \in [Robots -> BOOLEAN]
    BY <1>14, <2>1, <2>2, Zenon DEF ReceiveNews
  <2>4. news' \in [Robots -> [Robots -> Seq(BOOLEAN)]]
    BY <1>14, <2>1, <2>2, Zenon DEF ReceiveNews
  <2> QED BY <1>0, <1>14, <2>3, <2>4 DEF ReceiveNews, RuntimeTypeOK, TaskInHand
<1> QED BY <1>1, <1>2, <1>3, <1>4, <1>5, <1>6, <1>8, <1>9, <1>10, <1>11, <1>12, <1>13,
           <1>14
        DEF RuntimeNext, ConsoleStep, RobotStep, NotifyCompleted, NotifyReneged, vars

\* Where everything starts: no robot has a task and nothing is under way.
LEMMA RuntimeTypeInit == RuntimeInit => RuntimeTypeInv
<1> SUFFICES ASSUME RuntimeInit PROVE RuntimeTypeInv
  OBVIOUS
<1>1. TypeOK
  <2>1. \A keys, values : Mapping(EmptyMap, keys, values)
    BY DEF EmptyMap, Mapping
  <2>2. <<>> \in Seq(Award)
    OBVIOUS
  <2> QED BY <2>1, <2>2 DEF RuntimeInit, Init, TypeOK
<1>2. queue \in [Robots -> Seq(Message)] /\ news \in [Robots -> [Robots -> Seq(BOOLEAN)]]
  <2>1. <<>> \in Seq(Message) /\ <<>> \in Seq(BOOLEAN)
    OBVIOUS
  <2> QED BY <2>1, Zenon DEF RuntimeInit
<1> QED BY <1>1, <1>2, Zenon
        DEF RuntimeInit, RuntimeTypeInv, RuntimeTypeOK, TaskInHand, Phases

\* The types and the tasks in hand are inductive together: a bid on NoTask
\* would be a message of no kind.
LEMMA RuntimeTypeInvariant == RuntimeSpec => []RuntimeTypeInv
<1>1. RuntimeInit => RuntimeTypeInv
  BY RuntimeTypeInit
<1>2. RuntimeTypeInv /\ [RuntimeNext]_vars => RuntimeTypeInv'
  BY RuntimeTypeStep
<1> QED BY <1>1, <1>2, PTL DEF RuntimeSpec

\* A robot, a message or a broadcast is at all times of the kind the code sends.
THEOREM RuntimeTypeCorrect == RuntimeSpec => []RuntimeTypeOK
<1>1. RuntimeTypeInv => RuntimeTypeOK
  BY DEF RuntimeTypeInv
<1> QED BY <1>1, RuntimeTypeInvariant, PTL

\* The console among the robots behaves as CnpServer specifies it.
THEOREM ConsoleImplementsServer == RuntimeSpec => Spec
<1>1. RuntimeInit => Init
  BY DEF RuntimeInit
<1>2. RuntimeTypeInv /\ [RuntimeNext]_vars => [Next]_serverVars
  BY ServerStep DEF RuntimeTypeInv
<1> QED BY <1>1, <1>2, RuntimeTypeInvariant, PTL DEF RuntimeSpec, Spec

-----------------------------------------------------------------------------
(***************************************************************************)
(* Releases under way.                                                     *)
(***************************************************************************)

SentOnce(r, t) ==
  \A i, j \in 1..Len(queue[r]) :
    Releases(queue[r][i], t) /\ Releases(queue[r][j], t) => i = j

\* Sending a message adds that message to the releases under way, if it is one.
LEMMA SendReleases ==
  ASSUME RuntimeTypeOK, NEW r \in Robots, NEW m, SendMessage(r, m),
         NEW q \in Robots, NEW t
  PROVE  /\ ReleaseSent(q, t)' => ReleaseSent(q, t) \/ (q = r /\ Releases(m, t))
         /\ SentOnce(q, t) /\ ~(q = r /\ Releases(m, t) /\ ReleaseSent(q, t))
              => SentOnce(q, t)'
<1>1. queue[q] \in Seq(Message) /\ DOMAIN queue = Robots
  BY DEF RuntimeTypeOK
<1>2. queue'[q] = IF q = r THEN Append(queue[q], m) ELSE queue[q]
  BY <1>1 DEF SendMessage
<1>3. CASE q # r
  BY <1>2, <1>3 DEF ReleaseSent, SentOnce
<1>4. CASE q = r
  <2>1. /\ Len(queue'[q]) = Len(queue[q]) + 1 /\ Len(queue[q]) \in Nat
        /\ \A i \in 1..Len(queue[q]) : queue'[q][i] = queue[q][i]
        /\ queue'[q][Len(queue[q]) + 1] = m
    BY <1>1, <1>2, <1>4
  <2>2. \A i \in 1..Len(queue'[q]) : i \in 1..Len(queue[q]) \/ i = Len(queue[q]) + 1
    BY <2>1
  <2>3. ReleaseSent(q, t)' => ReleaseSent(q, t) \/ Releases(m, t)
    BY <2>1, <2>2 DEF ReleaseSent, Releases
  <2>4. SentOnce(q, t) /\ ~(Releases(m, t) /\ ReleaseSent(q, t)) => SentOnce(q, t)'
    BY <2>1, <2>2 DEF ReleaseSent, SentOnce, Releases
  <2> QED BY <1>4, <2>3, <2>4
<1> QED BY <1>3, <1>4

\* When the console takes a message, no release comes up that was not under
\* way, and a release sent once is no longer under way when it was the one.
LEMMA TakeReleases ==
  ASSUME RuntimeTypeOK, NEW r \in Robots, queue[r] # <<>>,
         queue' = [queue EXCEPT ![r] = Tail(@)], NEW q \in Robots, NEW t
  PROVE  /\ ReleaseSent(q, t)' => ReleaseSent(q, t)
         /\ SentOnce(q, t) => SentOnce(q, t)'
         /\ SentOnce(r, t) /\ Releases(Head(queue[r]), t) => ~ReleaseSent(r, t)'
         /\ Releases(Head(queue[r]), t) => ReleaseSent(r, t)
<1>1. queue[r] \in Seq(Message) /\ queue[q] \in Seq(Message) /\ DOMAIN queue = Robots
  BY DEF RuntimeTypeOK
<1>2. /\ queue'[r] = Tail(queue[r])
      /\ q # r => queue'[q] = queue[q]
  BY <1>1
<1>3. /\ Len(queue[r]) \in Nat /\ Len(queue[r]) > 0
      /\ Len(queue'[r]) = Len(queue[r]) - 1
      /\ \A i \in 1..(Len(queue[r]) - 1) : queue'[r][i] = queue[r][i + 1]
      /\ Head(queue[r]) = queue[r][1]
  BY <1>1, <1>2
<1>4. \A i \in 1..Len(queue'[r]) :
        i + 1 \in 1..Len(queue[r]) /\ i + 1 # 1 /\ queue'[r][i] = queue[r][i + 1]
  BY <1>3
<1>5. 1 \in 1..Len(queue[r])
  BY <1>3
<1>6. /\ ReleaseSent(r, t)' => ReleaseSent(r, t)
      /\ SentOnce(r, t) /\ Releases(Head(queue[r]), t) => ~ReleaseSent(r, t)'
      /\ Releases(Head(queue[r]), t) => ReleaseSent(r, t)
  BY <1>3, <1>4, <1>5 DEF ReleaseSent, SentOnce, Releases
<1>7. SentOnce(r, t) => SentOnce(r, t)'
  <2> SUFFICES ASSUME SentOnce(r, t),
                      NEW i \in 1..Len(queue'[r]), NEW j \in 1..Len(queue'[r]),
                      Releases(queue'[r][i], t), Releases(queue'[r][j], t)
               PROVE  i = j
    BY DEF SentOnce, Releases
  <2>1. i + 1 = j + 1
    BY <1>4 DEF SentOnce
  <2> QED BY <2>1
<1>8. CASE q = r
  BY <1>6, <1>7, <1>8
<1>9. CASE q # r
  BY <1>2, <1>6, <1>9 DEF ReleaseSent, SentOnce
<1> QED BY <1>8, <1>9

-----------------------------------------------------------------------------
(***************************************************************************)
(* One owner per task.                                                     *)
(***************************************************************************)

OwnerInv == RuntimeTypeInv /\ ClaimsAwarded /\ ReleasedOnce

\* A robot that owns a task, or has its release under way.
Claims(r, t) == Owner(r, t) \/ ReleaseSent(r, t)

\* A step that leaves the award list alone, adds to it, or erases an award of
\* another task.
KeepsAwardOf(t) ==
  \/ UNCHANGED awardList
  \/ \E a : awardList' = Append(awardList, a)
  \/ \E u : u # t /\ awardList' = ErasedAward(u)

\* Such a step does not change whom the console names for a claimed task.
LEMMA ClaimKept ==
  ASSUME OwnerInv, NEW r \in Robots, NEW t \in Tasks, Claims(r, t), KeepsAwardOf(t)
  PROVE  AwardedRobot(t)' = r
<1>1. AwardedRobot(t) = r
  BY DEF OwnerInv, ClaimsAwarded, Claims
<1>2. AwardsOf(t) # {}
  BY <1>1, RobotsAssumption DEF AwardedRobot, FirstAward, NoRobot
<1>3. TypeOK
  BY DEF OwnerInv, RuntimeTypeInv, RuntimeTypeOK
<1>4. CASE UNCHANGED awardList
  BY <1>1, <1>4 DEF AwardedRobot, FirstAward, AwardsOf
<1>5. CASE \E a : awardList' = Append(awardList, a)
  BY <1>1, <1>2, <1>3, <1>5, AppendKeepsAward
<1>6. CASE \E u : u # t /\ awardList' = ErasedAward(u)
  BY <1>1, <1>3, <1>6, ErasingKeepsOthers
<1> QED BY <1>4, <1>5, <1>6 DEF KeepsAwardOf

\* So a step that makes no new claim keeps ClaimsAwarded.
LEMMA ClaimsKept ==
  ASSUME OwnerInv, \A t \in Tasks : KeepsAwardOf(t),
         \A r \in Robots, t \in Tasks : Claims(r, t)' => Claims(r, t)
  PROVE  ClaimsAwarded'
<1> SUFFICES ASSUME NEW r \in Robots, NEW t \in Tasks, Claims(r, t)'
             PROVE  AwardedRobot(t)' = r
  BY DEF ClaimsAwarded, Claims
<1> QED BY ClaimKept

\* What the console does when its timer fires or the pause button is pressed,
\* and what a failure report does, never erases the award of a task.
LEMMA TimerKeepsAwards ==
  ASSUME CheckExpire \/ TogglePause \/ ReportFailure, NEW t \in Tasks
  PROVE  KeepsAwardOf(t)
<1>1. CASE CheckExpire \/ TogglePause
  BY <1>1 DEF CheckExpire, Tick, TickAward, TickFailure, TickPaused, TogglePause, KeepsAwardOf
<1>2. CASE ReportFailure
  BY <1>2, TasksAssumption DEF ReportFailure, KeepsAwardOf, Failed
<1> QED BY <1>1, <1>2

\* A step in which nobody comes to own anything and nothing is sent.
LEMMA QuietStep ==
  ASSUME OwnerInv, UNCHANGED queue, \A t \in Tasks : KeepsAwardOf(t),
         \A r \in Robots, t \in Tasks : Owner(r, t)' => Owner(r, t)
  PROVE  ClaimsAwarded' /\ ReleasedOnce'
<1>1. \A r \in Robots, t \in Tasks : ReleaseSent(r, t)' <=> ReleaseSent(r, t)
  BY DEF ReleaseSent
<1>2. ClaimsAwarded'
  BY <1>1, ClaimsKept DEF Claims
<1>3. ReleasedOnce'
  BY <1>1 DEF OwnerInv, ReleasedOnce
<1> QED BY <1>2, <1>3

\* A step that sends a message which gives nothing back.
LEMMA SendStep ==
  ASSUME OwnerInv, UNCHANGED <<awardList, phase, wonTask, executingTask>>,
         NEW r \in Robots, NEW m, SendMessage(r, m), \A t \in Tasks : ~Releases(m, t)
  PROVE  ClaimsAwarded' /\ ReleasedOnce'
<1>1. RuntimeTypeOK
  BY DEF OwnerInv, RuntimeTypeInv
<1>2. \A q \in Robots, t \in Tasks :
        /\ Owner(q, t)' <=> Owner(q, t)
        /\ ReleaseSent(q, t)' => ReleaseSent(q, t)
        /\ SentOnce(q, t) => SentOnce(q, t)'
  BY <1>1, SendReleases DEF Owner
<1>3. ClaimsAwarded'
  BY <1>2, ClaimsKept DEF Claims, KeepsAwardOf
<1>4. ReleasedOnce'
  BY <1>2 DEF OwnerInv, ReleasedOnce, SentOnce
<1> QED BY <1>3, <1>4

\* The console handles a message.  When it is a release, its sender alone has
\* a claim to the task, and has none afterwards; only then is the award gone.
LEMMA ReceiveStep ==
  ASSUME OwnerInv, NEW r \in Robots, Receive(r)
  PROVE  ClaimsAwarded' /\ ReleasedOnce'
<1> DEFINE m == Head(queue[r])
<1>1. /\ RuntimeTypeOK /\ queue[r] # <<>>
      /\ queue' = [queue EXCEPT ![r] = Tail(@)]
      /\ UNCHANGED <<phase, wonTask, executingTask>>
  BY DEF OwnerInv, RuntimeTypeInv, Receive, robotVars
<1>2. \A q \in Robots, t \in Tasks :
        /\ Owner(q, t)' <=> Owner(q, t)
        /\ ReleaseSent(q, t)' => ReleaseSent(q, t)
        /\ SentOnce(q, t) => SentOnce(q, t)'
  BY <1>1, TakeReleases DEF Owner
<1>3. ReleasedOnce'
  BY <1>2 DEF OwnerInv, ReleasedOnce, SentOnce
<1>4. ClaimsAwarded'
  <2> SUFFICES ASSUME NEW q \in Robots, NEW t \in Tasks, Claims(q, t)'
               PROVE  AwardedRobot(t)' = q
    BY DEF ClaimsAwarded, Claims
  <2>1. Claims(q, t)
    BY <1>2 DEF Claims
  <2>2. CASE Releases(m, t)
    <3>1. ReleaseSent(r, t) /\ SentOnce(r, t) /\ ~ReleaseSent(r, t)'
      BY <1>1, <2>2, TakeReleases DEF OwnerInv, ReleasedOnce, SentOnce
    <3>2. AwardedRobot(t) = r /\ AwardedRobot(t) = q
      BY <2>1, <3>1 DEF OwnerInv, ClaimsAwarded, Claims
    <3>3. ~Owner(r, t)
      BY <3>1 DEF OwnerInv, ReleasedOnce
    <3> QED BY <1>2, <3>1, <3>2, <3>3 DEF Claims
  <2>3. CASE ~Releases(m, t)
    <3>1. \/ m.type = "inject" /\ Inject(m.task)
          \/ m.type = "bid" /\ ReceiveOffer(r, m.task, m.bid)
          \/ m.type = "reneg" /\ CancelTask(r, m.task)
          \/ m.type = "complete" /\ CompleteTask(m.task)
      BY DEF Receive
    <3> HIDE DEF m
    <3>2. KeepsAwardOf(t)
      BY <2>3, <3>1 DEF KeepsAwardOf, Releases, Inject, ReceiveOffer, CancelTask, CompleteTask
    <3> QED BY <2>1, <3>2, ClaimKept
  <2> QED BY <2>2, <2>3
<1> QED BY <1>3, <1>4

\* A robot reads its own award.  The query passed every message it had sent,
\* so no release of its own can be on the way to the console.
LEMMA WinStep ==
  ASSUME OwnerInv, NEW r \in Robots, SeeAuctionWon(r)
  PROVE  ClaimsAwarded' /\ ReleasedOnce'
<1>1. /\ RuntimeTypeOK /\ queue[r] = <<>> /\ AwardedRobot(biddingTask[r]) = r
      /\ UNCHANGED <<awardList, queue, executingTask>>
      /\ phase' = [phase EXCEPT ![r] = "won"]
      /\ wonTask' = [wonTask EXCEPT ![r] = biddingTask[r]]
  BY DEF OwnerInv, RuntimeTypeInv, SeeAuctionWon, Drained, SaysWon, serverVars
<1>2. DOMAIN phase = Robots /\ DOMAIN wonTask = Robots
  BY <1>1 DEF RuntimeTypeOK
<1>3. ASSUME NEW q \in Robots, NEW t \in Tasks, Owner(q, t)'
      PROVE  Owner(q, t) \/ (q = r /\ t = biddingTask[r])
  BY <1>1, <1>2, <1>3 DEF Owner
<1>4. ASSUME NEW t PROVE ~ReleaseSent(r, t)
  BY <1>1 DEF ReleaseSent
<1>5. \A q \in Robots, t \in Tasks : ReleaseSent(q, t)' <=> ReleaseSent(q, t)
  BY <1>1 DEF ReleaseSent
<1>6. \A t : AwardedRobot(t)' = AwardedRobot(t)
  BY <1>1 DEF AwardedRobot, FirstAward, AwardsOf
<1>7. ClaimsAwarded'
  BY <1>1, <1>3, <1>5, <1>6 DEF OwnerInv, ClaimsAwarded
<1>8. ReleasedOnce'
  BY <1>1, <1>3, <1>4, <1>5 DEF OwnerInv, ReleasedOnce
<1> QED BY <1>7, <1>8

\* A robot gives back what it executes: it owned it, so nothing of the kind is
\* under way, and from this step on it does not.
LEMMA ReleaseStep ==
  ASSUME OwnerInv, NEW r \in Robots, NEW type, CancelExecuting(r, type)
  PROVE  ClaimsAwarded' /\ ReleasedOnce'
<1> DEFINE m == [type |-> type, task |-> executingTask[r]]
<1>1. /\ RuntimeTypeOK /\ SendMessage(r, m) /\ UNCHANGED <<awardList, wonTask>>
      /\ executingTask' = [executingTask EXCEPT ![r] = NoTask]
      /\ phase' = [phase EXCEPT ![r] = "idle"]
  BY DEF OwnerInv, RuntimeTypeInv, CancelExecuting, serverVars
<1>2. DOMAIN phase = Robots /\ DOMAIN executingTask = Robots
  BY <1>1 DEF RuntimeTypeOK
<1>3. ASSUME NEW t \in Tasks, Releases(m, t) PROVE Owner(r, t)
  BY <1>3 DEF Releases, Owner
<1>4. ASSUME NEW q \in Robots, NEW t \in Tasks, Owner(q, t)' PROVE Owner(q, t) /\ q # r
  <2>1. NoTask \notin Tasks
    BY TasksAssumption DEF NoTask
  <2> QED BY <1>1, <1>2, <1>4, <2>1 DEF Owner
<1> HIDE DEF m
<1>5. \A q \in Robots, t \in Tasks :
        /\ ReleaseSent(q, t)' => ReleaseSent(q, t) \/ (q = r /\ Releases(m, t))
        /\ SentOnce(q, t) /\ ~(q = r /\ Releases(m, t) /\ ReleaseSent(q, t))
             => SentOnce(q, t)'
  BY <1>1, SendReleases
<1>6. ClaimsAwarded'
  BY <1>1, <1>3, <1>4, <1>5, ClaimsKept DEF Claims, KeepsAwardOf
<1>7. \A q \in Robots, t \in Tasks : Owner(q, t) => ~ReleaseSent(q, t)
  BY DEF OwnerInv, ReleasedOnce
<1>8. \A q \in Robots, t \in Tasks : SentOnce(q, t)'
  BY <1>3, <1>5, <1>7 DEF OwnerInv, ReleasedOnce, SentOnce
<1>9. \A q \in Robots, t \in Tasks : Owner(q, t)' => ~ReleaseSent(q, t)'
  BY <1>4, <1>5, <1>7
<1>10. ReleasedOnce'
  BY <1>8, <1>9 DEF ReleasedOnce, SentOnce
<1> QED BY <1>6, <1>10

\* Every step keeps the claims of the robots and the award list in agreement.
LEMMA OwnerStep ==
  ASSUME OwnerInv, [RuntimeNext]_vars
  PROVE  OwnerInv'
<1>1. RuntimeTypeInv'
  BY RuntimeTypeStep DEF OwnerInv
<1>2. DOMAIN phase = Robots /\ DOMAIN wonTask = Robots /\ DOMAIN executingTask = Robots
  BY DEF OwnerInv, RuntimeTypeInv, RuntimeTypeOK
<1>3. ASSUME NEW r \in Robots, Receive(r) PROVE ClaimsAwarded' /\ ReleasedOnce'
  BY <1>3, ReceiveStep
<1>4. ASSUME (CheckExpire \/ TogglePause) /\ UNCHANGED <<robotVars, queue, news>>
      PROVE  ClaimsAwarded' /\ ReleasedOnce'
  <2>1. \A t \in Tasks : KeepsAwardOf(t)
    BY <1>4, TimerKeepsAwards
  <2>2. \A r \in Robots, t \in Tasks : Owner(r, t)' => Owner(r, t)
    BY <1>4 DEF robotVars, Owner
  <2> QED BY <1>4, <2>1, <2>2, QuietStep
<1>5. ASSUME NEW r \in Robots, NEW t \in Tasks, InjectTask(r, t)
      PROVE  ClaimsAwarded' /\ ReleasedOnce'
  <2> DEFINE m == [type |-> "inject", task |-> t]
  <2>1. \A u \in Tasks : ~Releases(m, u)
    BY DEF Releases
  <2>2. SendMessage(r, m) /\ UNCHANGED <<awardList, phase, wonTask, executingTask>>
    BY <1>5 DEF InjectTask, serverVars
  <2> HIDE DEF m
  <2> QED BY <2>1, <2>2, SendStep
<1>6. ASSUME NEW r \in Robots, NEW bid \in Bids, BidOnTask(r, bid)
      PROVE  ClaimsAwarded' /\ ReleasedOnce'
  <2> DEFINE m == [type |-> "bid", task |-> biddingTask[r], bid |-> bid]
  <2>1. \A u \in Tasks : ~Releases(m, u)
    BY DEF Releases
  <2>2. SendMessage(r, m) /\ UNCHANGED <<awardList, phase, wonTask, executingTask>>
    BY <1>6 DEF BidOnTask, serverVars, robotVars
  <2> HIDE DEF m
  <2> QED BY <2>1, <2>2, SendStep
<1>7. ASSUME NEW r \in Robots, GetTask(r) \/ GetTaskConstraints(r) \/ NotifyStarted(r)
      PROVE  ClaimsAwarded' /\ ReleasedOnce'
  <2>1. UNCHANGED queue /\ \A t \in Tasks : KeepsAwardOf(t)
    BY <1>7 DEF GetTask, GetTaskConstraints, NotifyStarted, serverVars, KeepsAwardOf
  <2>2. \A q \in Robots, t \in Tasks : Owner(q, t)' => Owner(q, t)
    BY <1>2, <1>7 DEF GetTask, GetTaskConstraints, NotifyStarted, Owner
  <2> QED BY <2>1, <2>2, QuietStep
<1>8. ASSUME NEW r \in Robots, SeeAuctionFailed(r) \/ SeeAuctionLost(r)
      PROVE  ClaimsAwarded' /\ ReleasedOnce'
  <2>1. UNCHANGED queue /\ \A t \in Tasks : KeepsAwardOf(t)
    BY <1>8 DEF SeeAuctionFailed, SeeAuctionLost, serverVars, KeepsAwardOf
  <2>2. \A q \in Robots, t \in Tasks : Owner(q, t)' => Owner(q, t)
    BY <1>2, <1>8 DEF SeeAuctionFailed, SeeAuctionLost, LoseBidding, Owner
  <2> QED BY <2>1, <2>2, QuietStep
<1>9. ASSUME NEW r \in Robots, SeeAuctionWon(r) PROVE ClaimsAwarded' /\ ReleasedOnce'
  BY <1>9, WinStep
<1>10. ASSUME NEW r \in Robots, AskAuctionFailed(r) PROVE ClaimsAwarded' /\ ReleasedOnce'
  <2>1. \A t \in Tasks : KeepsAwardOf(t)
    BY <1>10, TimerKeepsAwards DEF AskAuctionFailed
  <2> QED BY <1>10, <2>1, QuietStep DEF AskAuctionFailed, Owner
<1>11. ASSUME NEW r \in Robots, NotifyCompleted(r) \/ NotifyReneged(r)
       PROVE  ClaimsAwarded' /\ ReleasedOnce'
  BY <1>11, ReleaseStep DEF NotifyCompleted, NotifyReneged
<1>12. ASSUME NEW r \in Robots, NEW s \in Robots, ReceiveNews(s, r)
       PROVE  ClaimsAwarded' /\ ReleasedOnce'
  BY <1>12, QuietStep DEF ReceiveNews, Owner, serverVars, KeepsAwardOf
<1>13. ASSUME UNCHANGED vars PROVE ClaimsAwarded' /\ ReleasedOnce'
  BY <1>13, QuietStep DEF vars, robotVars, serverVars, Owner, KeepsAwardOf
<1>14. ClaimsAwarded' /\ ReleasedOnce'
  BY <1>3, <1>4, <1>5, <1>6, <1>7, <1>8, <1>9, <1>10, <1>11, <1>12, <1>13
     DEF RuntimeNext, ConsoleStep, RobotStep
<1> QED BY <1>1, <1>14 DEF OwnerInv

\* The claims hold initially and always.
LEMMA OwnerInvariant == RuntimeSpec => []OwnerInv
<1>1. RuntimeInit => RuntimeTypeInv
  BY RuntimeTypeInit
<1>2. RuntimeInit => ClaimsAwarded /\ ReleasedOnce
  <2> SUFFICES ASSUME RuntimeInit PROVE ClaimsAwarded /\ ReleasedOnce
    OBVIOUS
  <2>1. \A r \in Robots, t \in Tasks : ~Owner(r, t)
    BY TasksAssumption DEF RuntimeInit, Owner, NoTask
  <2>2. \A r \in Robots : Len(queue[r]) = 0
    BY DEF RuntimeInit
  <2> QED BY <2>1, <2>2 DEF ClaimsAwarded, ReleasedOnce, ReleaseSent
<1>3. OwnerInv /\ [RuntimeNext]_vars => OwnerInv'
  BY OwnerStep
<1> QED BY <1>1, <1>2, <1>3, PTL DEF RuntimeSpec, OwnerInv

\* Whom the console would name for a task is, at all times, the robot that
\* owns it or whose message giving it back is under way.
THEOREM ClaimsAreAwarded == RuntimeSpec => []ClaimsAwarded
<1>1. OwnerInv => ClaimsAwarded
  BY DEF OwnerInv
<1> QED BY <1>1, OwnerInvariant, PTL

\* A robot gives a task back once.
THEOREM TasksReleasedOnce == RuntimeSpec => []ReleasedOnce
<1>1. OwnerInv => ReleasedOnce
  BY DEF OwnerInv
<1> QED BY <1>1, OwnerInvariant, PTL

\* No two robots ever believe they own the same task.
THEOREM TasksHaveOneOwner == RuntimeSpec => []SingleOwner
<1>1. OwnerInv => SingleOwner
  BY DEF OwnerInv, ClaimsAwarded, SingleOwner
<1> QED BY <1>1, OwnerInvariant, PTL

-----------------------------------------------------------------------------
(***************************************************************************)
(* CnpRuntime implements TaskLease, for every set of robots, tasks and     *)
(* managers: each step of the console or of a robot changes the lease, the *)
(* owners and the returns of one task at most, and in one of the five ways *)
(* TaskLease allows, or leaves all of them alone.                          *)
(***************************************************************************)

\* A robot has an executing task in the phase of that name only; without this
\* a reneging of a task won but not started could give back another one.
ExecutesInPhase ==
  \A r \in Robots : phase[r] # "executing" => executingTask[r] = NoTask

LeaseInv == OwnerInv /\ ExecutesInPhase

\* What each robot executes follows its phase through every step.
LEMMA LeaseInvariant == RuntimeSpec => []LeaseInv
<1>1. RuntimeInit => ExecutesInPhase
  BY DEF RuntimeInit, ExecutesInPhase
<1>2. ASSUME RuntimeTypeOK, ExecutesInPhase, [RuntimeNext]_vars
      PROVE  ExecutesInPhase'
  <2> USE <1>2 DEF ExecutesInPhase
  <2>1. DOMAIN phase = Robots /\ DOMAIN executingTask = Robots
    BY DEF RuntimeTypeOK
  <2>2. CASE UNCHANGED vars
    BY <2>2 DEF vars, robotVars
  <2>3. CASE ConsoleStep
    BY <2>3 DEF ConsoleStep, Receive, robotVars
  <2>4. ASSUME NEW r \in Robots, RobotStep(r) PROVE ExecutesInPhase'
    <3>1. CASE \E t \in Tasks : InjectTask(r, t)
      BY <3>1 DEF InjectTask
    <3>2. CASE \E bid \in Bids : BidOnTask(r, bid)
      BY <3>2 DEF BidOnTask, robotVars
    <3>3. CASE GetTask(r) \/ GetTaskConstraints(r)
      BY <2>1, <3>3 DEF GetTask, GetTaskConstraints
    <3>4. CASE SeeAuctionFailed(r) \/ SeeAuctionLost(r) \/ SeeAuctionWon(r)
      BY <2>1, <3>4 DEF SeeAuctionFailed, SeeAuctionLost, SeeAuctionWon, LoseBidding
    <3>5. CASE AskAuctionFailed(r) \/ \E s \in Robots : ReceiveNews(s, r)
      BY <3>5 DEF AskAuctionFailed, ReceiveNews
    <3>6. CASE NotifyStarted(r)
      BY <2>1, <3>6 DEF NotifyStarted
    <3>7. CASE NotifyCompleted(r) \/ NotifyReneged(r)
      BY <2>1, <3>7 DEF NotifyCompleted, NotifyReneged, CancelExecuting
    <3> QED BY <2>4, <3>1, <3>2, <3>3, <3>4, <3>5, <3>6, <3>7 DEF RobotStep
  <2> QED BY <2>2, <2>3, <2>4 DEF RuntimeNext
<1>3. OwnerInv => RuntimeTypeOK
  BY DEF OwnerInv, RuntimeTypeInv
<1> QED BY <1>1, <1>2, <1>3, OwnerInvariant, PTL DEF RuntimeSpec, LeaseInv

-----------------------------------------------------------------------------
(***************************************************************************)
(* The refinement mapping, from facts about single robots and tasks.       *)
(***************************************************************************)

\* Nothing about task t changes that TaskLease sees.
SameLease(t) ==
  /\ AwardedRobot(t)' = AwardedRobot(t)
  /\ \A r \in Robots : Owner(r, t)' <=> Owner(r, t)
  /\ \A r \in Robots : ReleaseSent(r, t)' <=> ReleaseSent(r, t)

\* A step that touches no task is a stuttering step of TaskLease.
LEMMA QuietLease ==
  ASSUME \A t \in Tasks : SameLease(t)
  PROVE  UNCHANGED Lease!leaseVars
<1>1. Leases' = Leases
  BY DEF SameLease, Leases
<1>2. Owners' = Owners
  BY DEF SameLease, Owners
<1>3. Returning' = Returning
  BY DEF SameLease, Returning
<1> QED BY <1>1, <1>2, <1>3 DEF Lease!leaseVars

\* The values of the mapping after a step that touches task t alone.
LEMMA ChangedLease ==
  ASSUME NEW t \in Tasks, \A u \in Tasks \ {t} : SameLease(u)
  PROVE  /\ Leases' = [Leases EXCEPT ![t] = AwardedRobot(t)']
         /\ Owners' = [Owners EXCEPT ![t] = {r \in Robots : Owner(r, t)'}]
         /\ Returning' = [Returning EXCEPT ![t] = {r \in Robots : ReleaseSent(r, t)'}]
<1>1. Leases' = [Leases EXCEPT ![t] = AwardedRobot(t)']
  BY DEF SameLease, Leases
<1>2. Owners' = [Owners EXCEPT ![t] = {r \in Robots : Owner(r, t)'}]
  BY DEF SameLease, Owners
<1>3. Returning' = [Returning EXCEPT ![t] = {r \in Robots : ReleaseSent(r, t)'}]
  BY DEF SameLease, Returning
<1> QED BY <1>1, <1>2, <1>3

-----------------------------------------------------------------------------
(***************************************************************************)
(* What the answers to MSG_GetAward and the releases under way become.     *)
(***************************************************************************)

\* The answer about a task is a robot, or NoRobot when it has no award.
LEMMA AnswerType ==
  ASSUME TypeOK, NEW t \in Tasks
  PROVE  /\ AwardedRobot(t) \in Robots \cup {NoRobot}
         /\ AwardedRobot(t) = NoRobot => AwardsOf(t) = {}
<1>1. CASE AwardsOf(t) = {}
  BY <1>1 DEF AwardedRobot, FirstAward
<1>2. CASE AwardsOf(t) # {}
  <2> DEFINE f == FirstAward(t)
  <2>1. f \in 1..Len(awardList) /\ awardList[f].task = t
    BY <1>2, FirstAwardIndex DEF AwardsOf
  <2> HIDE DEF f
  <2>2. awardList[f] \in Award
    BY <2>1 DEF TypeOK
  <2>3. awardList[f].robot \in Robots /\ f # 0
    BY <2>1, <2>2, TasksAssumption DEF Award, Failed
  <2> QED BY <2>3, RobotsAssumption DEF AwardedRobot, NoRobot, f
<1> QED BY <1>1, <1>2

\* The same of the answer after a step.
LEMMA AnswerTypeAfter ==
  ASSUME NEW t \in Tasks
  PROVE  TypeOK' => (AwardedRobot(t) \in Robots \cup {NoRobot})'
<1>1. TypeOK => AwardedRobot(t) \in Robots \cup {NoRobot}
  BY AnswerType
<1> QED BY <1>1, PTL

\* The first award of a task is the answer from then on.
LEMMA AppendFirst ==
  ASSUME TypeOK, NEW t, AwardsOf(t) = {}, NEW a, a.task = t,
         awardList' = Append(awardList, a)
  PROVE  AwardedRobot(t)' = a.robot
<1> DEFINE n == Len(awardList) + 1
<1>1. /\ Len(awardList) \in Nat /\ Len(awardList') = n
      /\ \A i \in 1..Len(awardList) : awardList'[i] = awardList[i]
      /\ awardList'[n] = a
  BY DEF TypeOK
<1>2. AwardsOf(t)' = {n}
  BY <1>1 DEF AwardsOf
<1> HIDE DEF n
<1>3. n \in Nat /\ n # 0
  BY <1>1 DEF n
<1>4. FirstAward(t)' = n
  BY <1>2, <1>3, MinIs DEF FirstAward
<1> QED BY <1>1, <1>3, <1>4 DEF AwardedRobot

\* An award appended for one task changes no answer about another.
LEMMA AppendKeepsOthers ==
  ASSUME TypeOK, NEW a, awardList' = Append(awardList, a), NEW t, a.task # t
  PROVE  AwardedRobot(t)' = AwardedRobot(t)
<1>1. CASE AwardsOf(t) = {}
  BY <1>1, AppendOther DEF AwardedRobot, FirstAward
<1>2. CASE AwardsOf(t) # {}
  BY <1>2, AppendKeepsAward
<1> QED BY <1>1, <1>2

\* Exactly the message sent joins the releases under way.
LEMMA SentReleases ==
  ASSUME RuntimeTypeOK, NEW r \in Robots, NEW m, SendMessage(r, m),
         NEW q \in Robots, NEW t
  PROVE  ReleaseSent(q, t)' <=> ReleaseSent(q, t) \/ (q = r /\ Releases(m, t))
<1>1. queue[q] \in Seq(Message) /\ DOMAIN queue = Robots
  BY DEF RuntimeTypeOK
<1>2. queue'[q] = IF q = r THEN Append(queue[q], m) ELSE queue[q]
  BY <1>1 DEF SendMessage
<1>3. CASE q # r
  BY <1>2, <1>3 DEF ReleaseSent
<1>4. CASE q = r
  <2>1. /\ Len(queue'[q]) = Len(queue[q]) + 1 /\ Len(queue[q]) \in Nat
        /\ \A i \in 1..Len(queue[q]) : queue'[q][i] = queue[q][i]
        /\ queue'[q][Len(queue[q]) + 1] = m
    BY <1>1, <1>2, <1>4
  <2>2. Releases(m, t) => ReleaseSent(q, t)'
    BY <2>1 DEF ReleaseSent, Releases
  <2>3. ReleaseSent(q, t) => ReleaseSent(q, t)'
    BY <2>1 DEF ReleaseSent, Releases
  <2> QED BY <1>4, <2>2, <2>3, SendReleases
<1> QED BY <1>3, <1>4

\* Exactly the message taken leaves them, a release being under way once.
LEMMA TakenReleases ==
  ASSUME RuntimeTypeOK, NEW r \in Robots, queue[r] # <<>>,
         queue' = [queue EXCEPT ![r] = Tail(@)], NEW q \in Robots, NEW t,
         SentOnce(r, t)
  PROVE  ReleaseSent(q, t)' <=>
           ReleaseSent(q, t) /\ ~(q = r /\ Releases(Head(queue[r]), t))
<1>1. queue[r] \in Seq(Message) /\ queue[q] \in Seq(Message) /\ DOMAIN queue = Robots
  BY DEF RuntimeTypeOK
<1>2. /\ queue'[r] = Tail(queue[r])
      /\ q # r => queue'[q] = queue[q]
  BY <1>1
<1>3. /\ Len(queue[r]) \in Nat /\ Len(queue[r]) > 0
      /\ Len(queue'[r]) = Len(queue[r]) - 1
      /\ \A i \in 1..(Len(queue[r]) - 1) : queue'[r][i] = queue[r][i + 1]
      /\ Head(queue[r]) = queue[r][1]
  BY <1>1, <1>2
<1>4. ReleaseSent(r, t) /\ ~Releases(Head(queue[r]), t) => ReleaseSent(r, t)'
  <2> SUFFICES ASSUME NEW i \in 1..Len(queue[r]), Releases(queue[r][i], t),
                      ~Releases(queue[r][1], t)
               PROVE  ReleaseSent(r, t)'
    BY <1>3 DEF ReleaseSent
  <2>1. i # 1
    OBVIOUS
  <2>2. i - 1 \in 1..Len(queue'[r]) /\ queue'[r][i - 1] = queue[r][i]
    BY <1>3, <2>1
  <2> QED BY <2>2 DEF ReleaseSent, Releases
<1>5. q # r => (ReleaseSent(q, t)' <=> ReleaseSent(q, t))
  BY <1>2 DEF ReleaseSent
<1> QED BY <1>4, <1>5, TakeReleases

-----------------------------------------------------------------------------
(***************************************************************************)
(* The five kinds of step.                                                 *)
(***************************************************************************)

\* The award of an auction leases the task, unless it has an older award.
LEMMA GrantLease ==
  ASSUME LeaseInv, NEW t \in Tasks, TickAward(t), UNCHANGED <<robotVars, queue>>
  PROVE  [Lease!LeaseNext]_(Lease!leaseVars)
<1> DEFINE winner == Find_MaxBidder(openContracts[t].bids)
<1>1. TypeOK
  BY DEF LeaseInv, OwnerInv, RuntimeTypeInv, RuntimeTypeOK
<1>2. winner \in Robots
  <2>1. t \in DOMAIN openContracts /\ DOMAIN openContracts[t].bids # {}
    BY DEF TickAward, Expiring
  <2>2. openContracts[t] \in OpenRequest
    BY <1>1, <2>1 DEF TypeOK, Mapping
  <2> QED BY <1>1, <2>1, <2>2, WinnerIsBidder, OpenRequestFields
<1> HIDE DEF winner
<1>3. awardList' = Append(awardList, [task |-> t, robot |-> winner])
  BY DEF TickAward, winner
<1>4. \A u \in Tasks, r \in Robots :
        (Owner(r, u)' <=> Owner(r, u)) /\ (ReleaseSent(r, u)' <=> ReleaseSent(r, u))
  BY DEF robotVars, Owner, ReleaseSent
<1>5. ASSUME NEW u \in Tasks \ {t} PROVE SameLease(u)
  BY <1>1, <1>3, <1>4, AppendKeepsOthers DEF SameLease
<1>6. CASE AwardedRobot(t) = NoRobot
  <2>1. AwardedRobot(t)' = winner
    BY <1>1, <1>3, <1>6, AnswerType, AppendFirst
  <2>2. /\ Leases' = [Leases EXCEPT ![t] = winner]
        /\ Leases[t] = NoRobot
    BY <1>5, <1>6, <2>1, ChangedLease DEF Leases
  <2>3. Owners' = Owners /\ Returning' = Returning
    BY <1>4 DEF Owners, Returning
  <2>4. Lease!Grant(t, winner)
    BY <2>2, <2>3 DEF Lease!Grant
  <2> QED BY <1>2, <2>4 DEF Lease!LeaseNext
<1>7. CASE AwardedRobot(t) # NoRobot
  <2>1. AwardsOf(t) # {}
    BY <1>7 DEF AwardedRobot, FirstAward
  <2>2. SameLease(t)
    BY <1>1, <1>3, <1>4, <2>1, AppendKeepsAward DEF SameLease
  <2> QED BY <1>5, <2>2, QuietLease
<1> QED BY <1>6, <1>7

\* Nothing else the timer does changes an answer; nor does a failure report.
LEMMA TimerLease ==
  ASSUME LeaseInv, CheckExpire \/ TogglePause \/ ReportFailure, UNCHANGED queue,
         \A r \in Robots, u \in Tasks : Owner(r, u)' <=> Owner(r, u),
         ReportFailure \/ \A u \in Tasks : ~TickAward(u), NEW t \in Tasks
  PROVE  SameLease(t)
<1>1. TypeOK /\ Failed # t
  BY TasksAssumption DEF LeaseInv, OwnerInv, RuntimeTypeInv, RuntimeTypeOK, Failed
<1>2. CASE UNCHANGED awardList
  BY <1>2 DEF SameLease, AwardedRobot, FirstAward, AwardsOf, ReleaseSent
<1>3. CASE \E u \in Tasks : TickFailure(u)
  <2>1. AwardedRobot(t)' = AwardedRobot(t)
    BY <1>1, <1>3, AppendKeepsOthers DEF TickFailure
  <2> QED BY <2>1 DEF SameLease, ReleaseSent
<1>4. CASE ReportFailure
  <2>1. AwardedRobot(t)' = AwardedRobot(t)
    BY <1>1, <1>4, ErasingKeepsOthers DEF ReportFailure
  <2> QED BY <2>1 DEF SameLease, ReleaseSent
<1> QED BY <1>2, <1>3, <1>4 DEF CheckExpire, Tick, TickPaused, TogglePause

\* A robot takes up a task when it reads its own award.
LEMMA TakeLease ==
  ASSUME LeaseInv, NEW r \in Robots, SeeAuctionWon(r)
  PROVE  Lease!LeaseNext
<1> PICK t \in Tasks : t = biddingTask[r]
  BY DEF LeaseInv, OwnerInv, RuntimeTypeInv, TaskInHand, SeeAuctionWon
<1>1. /\ RuntimeTypeOK /\ queue[r] = <<>> /\ AwardedRobot(t) = r
      /\ phase[r] = "bidding" /\ executingTask[r] = NoTask
  BY DEF LeaseInv, OwnerInv, RuntimeTypeInv, ExecutesInPhase,
         SeeAuctionWon, Drained, SaysWon
<1>2. /\ UNCHANGED <<awardList, queue, executingTask>>
      /\ phase' = [phase EXCEPT ![r] = "won"]
      /\ wonTask' = [wonTask EXCEPT ![r] = t]
  BY DEF SeeAuctionWon, serverVars
<1>3. DOMAIN phase = Robots /\ DOMAIN wonTask = Robots /\ NoTask \notin Tasks
  BY <1>1, TasksAssumption DEF RuntimeTypeOK, NoTask
<1>4. ASSUME NEW q \in Robots, NEW u \in Tasks
      PROVE  Owner(q, u)' <=> Owner(q, u) \/ (q = r /\ u = t)
  BY <1>1, <1>2, <1>3 DEF Owner
<1>5. \A u : AwardedRobot(u)' = AwardedRobot(u)
  BY <1>2 DEF AwardedRobot, FirstAward, AwardsOf
<1>6. \A q \in Robots, u \in Tasks : ReleaseSent(q, u)' <=> ReleaseSent(q, u)
  BY <1>2 DEF ReleaseSent
<1>7. \A u \in Tasks \ {t} : SameLease(u)
  BY <1>4, <1>5, <1>6 DEF SameLease
<1>8. Leases' = Leases /\ Returning' = Returning
  BY <1>5, <1>6 DEF Leases, Returning
<1>9. Leases[t] = r /\ r \notin Returning[t]
  BY <1>1 DEF Leases, Returning, ReleaseSent
<1>10. Owners' = [Owners EXCEPT ![t] = @ \cup {r}]
  <2>1. {q \in Robots : Owner(q, t)'} = Owners[t] \cup {r}
    BY <1>1, <1>4 DEF Owners
  <2> QED BY <1>1, <1>7, <2>1, ChangedLease
<1>11. Lease!Take(t, r)
  BY <1>8, <1>9, <1>10 DEF Lease!Take
<1> QED BY <1>1, <1>11 DEF Lease!LeaseNext

\* A robot that ends its work gives the task back, or forgets a task it won
\* and never started; what it sends for that one gives nothing back.
LEMMA GiveBackLease ==
  ASSUME LeaseInv, NEW r \in Robots, NEW type \in {"complete", "reneg"},
         phase[r] \in {"won", "executing"}, CancelExecuting(r, type)
  PROVE  [Lease!LeaseNext]_(Lease!leaseVars)
<1>1. /\ RuntimeTypeOK /\ UNCHANGED <<awardList, wonTask>>
      /\ SendMessage(r, [type |-> type, task |-> executingTask[r]])
      /\ executingTask' = [executingTask EXCEPT ![r] = NoTask]
      /\ phase' = [phase EXCEPT ![r] = "idle"]
  BY DEF LeaseInv, OwnerInv, RuntimeTypeInv, CancelExecuting, serverVars
<1>2. /\ DOMAIN phase = Robots /\ DOMAIN executingTask = Robots /\ NoTask \notin Tasks
      /\ executingTask[r] \in Tasks \cup {NoTask} /\ wonTask[r] \in Tasks \cup {NoTask}
  BY <1>1, TasksAssumption DEF RuntimeTypeOK, NoTask
<1>3. \A u : AwardedRobot(u)' = AwardedRobot(u)
  BY <1>1 DEF AwardedRobot, FirstAward, AwardsOf
<1>4. Leases' = Leases
  BY <1>3 DEF Leases
<1>5. \A q \in Robots, u \in Tasks :
        ReleaseSent(q, u)' <=> ReleaseSent(q, u) \/ (q = r /\ u = executingTask[r])
  BY <1>1, SentReleases DEF Releases
<1>6. \A q \in Robots, u \in Tasks : Owner(q, u)' <=> Owner(q, u) /\ q # r
  BY <1>1, <1>2 DEF Owner
<1>7. CASE phase[r] = "executing" /\ executingTask[r] \in Tasks
  <2> PICK t \in Tasks : t = executingTask[r]
    BY <1>7
  <2>1. \A u \in Tasks : Owner(r, u) <=> u = t
    BY <1>7 DEF Owner
  <2>2. \A u \in Tasks \ {t} : SameLease(u)
    BY <1>3, <1>5, <1>6, <2>1 DEF SameLease
  <2>3. r \in Owners[t]
    BY <2>1 DEF Owners
  <2>4. {q \in Robots : Owner(q, t)'} = Owners[t] \ {r}
    BY <1>6 DEF Owners
  <2>5. {q \in Robots : ReleaseSent(q, t)'} = Returning[t] \cup {r}
    BY <1>5 DEF Returning
  <2>6. /\ Owners' = [Owners EXCEPT ![t] = @ \ {r}]
        /\ Returning' = [Returning EXCEPT ![t] = @ \cup {r}]
    BY <2>2, <2>4, <2>5, ChangedLease
  <2>7. Lease!GiveBack(t, r)
    BY <1>4, <2>3, <2>6 DEF Lease!GiveBack
  <2> QED BY <2>7 DEF Lease!LeaseNext
<1>8. CASE phase[r] = "won" /\ wonTask[r] \in Tasks
  <2> PICK t \in Tasks : t = wonTask[r]
    BY <1>8
  <2>1. executingTask[r] = NoTask
    BY <1>8 DEF LeaseInv, ExecutesInPhase
  <2>2. \A u \in Tasks : Owner(r, u) <=> u = t
    BY <1>2, <1>8, <2>1 DEF Owner
  <2>3. \A q \in Robots, u \in Tasks : ReleaseSent(q, u)' <=> ReleaseSent(q, u)
    BY <1>2, <1>5, <2>1
  <2>4. \A u \in Tasks \ {t} : SameLease(u)
    BY <1>3, <1>6, <2>2, <2>3 DEF SameLease
  <2>5. r \in Owners[t]
    BY <2>2 DEF Owners
  <2>6. {q \in Robots : Owner(q, t)'} = Owners[t] \ {r}
    BY <1>6 DEF Owners
  <2>7. Owners' = [Owners EXCEPT ![t] = @ \ {r}]
    BY <2>4, <2>6, ChangedLease
  <2>8. Returning' = Returning
    BY <2>3 DEF Returning
  <2>9. Lease!Abandon(t, r)
    BY <1>4, <2>5, <2>7, <2>8 DEF Lease!Abandon
  <2> QED BY <2>9 DEF Lease!LeaseNext
<1>9. CASE ~\E t \in Tasks : Owner(r, t)
  <2>1. executingTask[r] = NoTask
    BY <1>2, <1>9 DEF Owner
  <2>2. \A u \in Tasks : SameLease(u)
    BY <1>2, <1>3, <1>5, <1>6, <1>9, <2>1 DEF SameLease
  <2> QED BY <2>2, QuietLease
<1>10. phase[r] = "won" => executingTask[r] = NoTask
  BY DEF LeaseInv, ExecutesInPhase
<1>11. \A t \in Tasks :
         Owner(r, t) => \/ phase[r] = "executing" /\ executingTask[r] \in Tasks
                        \/ phase[r] = "won" /\ wonTask[r] \in Tasks
  BY <1>2, <1>10 DEF Owner
<1> QED BY <1>7, <1>8, <1>9, <1>11

\* The console hears of a return, and no other message touches a lease.
LEMMA ReturnLease ==
  ASSUME LeaseInv, NEW r \in Robots, Receive(r), TypeOK'
  PROVE  [Lease!LeaseNext]_(Lease!leaseVars)
<1> PICK m : m = Head(queue[r])
  OBVIOUS
<1>1. /\ RuntimeTypeOK /\ TypeOK /\ queue[r] # <<>>
      /\ queue' = [queue EXCEPT ![r] = Tail(@)]
      /\ UNCHANGED <<phase, wonTask, executingTask>>
  BY DEF LeaseInv, OwnerInv, RuntimeTypeInv, RuntimeTypeOK, Receive, robotVars
<1>2. \A q \in Robots, u \in Tasks : Owner(q, u)' <=> Owner(q, u)
  BY <1>1 DEF Owner
<1>3. \A q \in Robots, u \in Tasks :
        ReleaseSent(q, u)' <=> ReleaseSent(q, u) /\ ~(q = r /\ Releases(m, u))
  <2>1. \A u \in Tasks : SentOnce(r, u)
    BY DEF LeaseInv, OwnerInv, ReleasedOnce, SentOnce
  <2> QED BY <1>1, <2>1, TakenReleases
<1>4. \/ m.type = "inject" /\ Inject(m.task)
      \/ m.type = "bid" /\ ReceiveOffer(r, m.task, m.bid)
      \/ m.type = "reneg" /\ CancelTask(r, m.task)
      \/ m.type = "complete" /\ CompleteTask(m.task)
  BY DEF Receive
<1>5. ASSUME NEW u \in Tasks, ~Releases(m, u) PROVE SameLease(u)
  <2>1. AwardedRobot(u)' = AwardedRobot(u)
    <3>1. CASE UNCHANGED awardList
      BY <3>1 DEF AwardedRobot, FirstAward, AwardsOf
    <3>2. CASE m.task # u /\ awardList' = ErasedAward(m.task)
      BY <1>1, <3>2, ErasingKeepsOthers
    <3> QED BY <1>4, <1>5, <3>1, <3>2
            DEF Releases, Inject, ReceiveOffer, CancelTask, CompleteTask
  <2> QED BY <1>2, <1>3, <1>5, <2>1 DEF SameLease
<1>6. CASE \A u \in Tasks : ~Releases(m, u)
  BY <1>5, <1>6, QuietLease
<1>7. CASE \E u \in Tasks : Releases(m, u)
  <2> PICK t \in Tasks : Releases(m, t)
    BY <1>7
  <2>1. \A u \in Tasks \ {t} : SameLease(u)
    BY <1>5 DEF Releases
  <2>2. r \in Returning[t]
    BY <1>1, TakeReleases DEF Returning
  <2>3. {q \in Robots : ReleaseSent(q, t)'} = Returning[t] \ {r}
    BY <1>3 DEF Returning
  <2>4. Owners' = Owners
    BY <1>2 DEF Owners
  <2>5. AwardedRobot(t)' \in Robots \cup {NoRobot}
    BY AnswerTypeAfter
  <2>6. /\ Leases' = [Leases EXCEPT ![t] = AwardedRobot(t)']
        /\ Returning' = [Returning EXCEPT ![t] = @ \ {r}]
    BY <2>1, <2>3, ChangedLease
  <2>7. Lease!Return(t, r)
    BY <2>2, <2>4, <2>5, <2>6 DEF Lease!Return
  <2> QED BY <2>7 DEF Lease!LeaseNext
<1> QED BY <1>6, <1>7

-----------------------------------------------------------------------------
(***************************************************************************)
(* The refinement.                                                         *)
(***************************************************************************)

\* Every step is a step of TaskLease, or none to it.
LEMMA LeaseStep ==
  ASSUME LeaseInv, TypeOK', [RuntimeNext]_vars
  PROVE  [Lease!LeaseNext]_(Lease!leaseVars)
<1>1. /\ RuntimeTypeOK
      /\ DOMAIN phase = Robots /\ DOMAIN wonTask = Robots /\ DOMAIN executingTask = Robots
  BY DEF LeaseInv, OwnerInv, RuntimeTypeInv, RuntimeTypeOK
<1>2. ASSUME UNCHANGED <<awardList, queue>>,
             \A r \in Robots, t \in Tasks : Owner(r, t)' <=> Owner(r, t)
      PROVE  UNCHANGED Lease!leaseVars
  <2>1. \A t \in Tasks : SameLease(t)
    BY <1>2 DEF SameLease, AwardedRobot, FirstAward, AwardsOf, ReleaseSent
  <2> QED BY <2>1, QuietLease
<1>3. ASSUME NEW r \in Robots, NEW m, SendMessage(r, m), \A t \in Tasks : ~Releases(m, t),
             UNCHANGED <<awardList, phase, wonTask, executingTask>>
      PROVE  UNCHANGED Lease!leaseVars
  <2>1. \A t \in Tasks : SameLease(t)
    BY <1>1, <1>3, SentReleases DEF SameLease, AwardedRobot, FirstAward, AwardsOf, Owner
  <2> QED BY <2>1, QuietLease
<1>4. CASE UNCHANGED vars
  BY <1>2, <1>4 DEF vars, serverVars, robotVars, Owner
<1>5. ASSUME NEW r \in Robots, Receive(r) PROVE [Lease!LeaseNext]_(Lease!leaseVars)
  BY <1>5, ReturnLease
<1>6. CASE (CheckExpire \/ TogglePause) /\ UNCHANGED <<robotVars, queue, news>>
  <2>1. CASE \E t \in Tasks : TickAward(t)
    BY <1>6, <2>1, GrantLease
  <2>2. CASE \A t \in Tasks : ~TickAward(t)
    <3>1. \A t \in Tasks : SameLease(t)
      BY <1>6, <2>2, TimerLease DEF robotVars, Owner
    <3> QED BY <3>1, QuietLease
  <2> QED BY <2>1, <2>2
<1>7. ASSUME NEW r \in Robots, RobotStep(r) PROVE [Lease!LeaseNext]_(Lease!leaseVars)
  <2>1. ASSUME NEW t \in Tasks, InjectTask(r, t) PROVE UNCHANGED Lease!leaseVars
    <3>1. \A u \in Tasks : ~Releases([type |-> "inject", task |-> t], u)
      BY DEF Releases
    <3> QED BY <1>3, <2>1, <3>1 DEF InjectTask, serverVars
  <2>2. ASSUME NEW bid \in Bids, BidOnTask(r, bid) PROVE UNCHANGED Lease!leaseVars
    <3>1. \A u \in Tasks :
            ~Releases([type |-> "bid", task |-> biddingTask[r], bid |-> bid], u)
      BY DEF Releases
    <3> QED BY <1>3, <2>2, <3>1 DEF BidOnTask, serverVars, robotVars
  <2>3. CASE GetTask(r) \/ GetTaskConstraints(r) \/ NotifyStarted(r)
    <3>1. UNCHANGED <<awardList, queue>>
      BY <2>3 DEF GetTask, GetTaskConstraints, NotifyStarted, serverVars
    <3>2. \A q \in Robots, t \in Tasks : Owner(q, t)' <=> Owner(q, t)
      <4>1. NoTask \notin Tasks
        BY TasksAssumption DEF NoTask
      <4>2. phase[r] # "executing" => executingTask[r] = NoTask
        BY DEF LeaseInv, ExecutesInPhase
      <4> QED BY <1>1, <2>3, <4>1, <4>2
              DEF GetTask, GetTaskConstraints, NotifyStarted, Owner
    <3> QED BY <1>2, <3>1, <3>2
  <2>4. CASE SeeAuctionFailed(r) \/ SeeAuctionLost(r)
    <3>1. UNCHANGED <<awardList, queue>>
      BY <2>4 DEF SeeAuctionFailed, SeeAuctionLost, serverVars
    <3>2. \A q \in Robots, t \in Tasks : Owner(q, t)' <=> Owner(q, t)
      BY <1>1, <2>4 DEF SeeAuctionFailed, SeeAuctionLost, LoseBidding, Owner
    <3> QED BY <1>2, <3>1, <3>2
  <2>5. CASE SeeAuctionWon(r)
    BY <2>5, TakeLease
  <2>6. CASE AskAuctionFailed(r)
    <3>1. ReportFailure /\ UNCHANGED queue
      BY <2>6 DEF AskAuctionFailed
    <3>2. \A q \in Robots, t \in Tasks : Owner(q, t)' <=> Owner(q, t)
      BY <2>6 DEF AskAuctionFailed, Owner
    <3>3. \A t \in Tasks : SameLease(t)
      BY <3>1, <3>2, TimerLease
    <3> QED BY <3>3, QuietLease
  <2>7. CASE NotifyCompleted(r) \/ NotifyReneged(r)
    BY <2>7, GiveBackLease DEF NotifyCompleted, NotifyReneged
  <2>8. ASSUME NEW s \in Robots, ReceiveNews(s, r) PROVE UNCHANGED Lease!leaseVars
    BY <1>2, <2>8 DEF ReceiveNews, serverVars, Owner
  <2> QED BY <1>7, <2>1, <2>2, <2>3, <2>4, <2>5, <2>6, <2>7, <2>8 DEF RobotStep
<1> QED BY <1>4, <1>5, <1>6, <1>7 DEF RuntimeNext, ConsoleStep

\* Initially no task is leased, owned or on its way back.
LEMMA LeaseStart == RuntimeInit => Lease!LeaseInit
<1> SUFFICES ASSUME RuntimeInit PROVE Lease!LeaseInit
  OBVIOUS
<1>1. \A t \in Tasks : AwardedRobot(t) = NoRobot
  BY DEF RuntimeInit, Init, AwardedRobot, FirstAward, AwardsOf
<1>2. \A r \in Robots, t \in Tasks : ~Owner(r, t)
  BY TasksAssumption DEF RuntimeInit, Owner, NoTask
<1>3. \A r \in Robots, t \in Tasks : ~ReleaseSent(r, t)
  BY DEF RuntimeInit, ReleaseSent
<1>4. Leases = [t \in Tasks |-> NoRobot]
  BY <1>1 DEF Leases
<1>5. Owners = [t \in Tasks |-> {}]
  BY <1>2 DEF Owners
<1>6. Returning = [t \in Tasks |-> {}]
  BY <1>3 DEF Returning
<1> QED BY <1>4, <1>5, <1>6 DEF Lease!LeaseInit

\* The runtime protocol leases each task to one robot at a time, and leases it
\* anew only when the last holder's completion or reneging was handled.
THEOREM RuntimeImplementsLease == RuntimeSpec => LeaseKept
<1>1. RuntimeInit => Lease!LeaseInit
  BY LeaseStart
<1>2. LeaseInv /\ TypeOK' /\ [RuntimeNext]_vars => [Lease!LeaseNext]_(Lease!leaseVars)
  BY LeaseStep
<1>3. LeaseInv => TypeOK
  BY DEF LeaseInv, OwnerInv, RuntimeTypeInv, RuntimeTypeOK
<1> QED BY <1>1, <1>2, <1>3, LeaseInvariant, PTL
        DEF RuntimeSpec, LeaseKept, Lease!LeaseSpec

-----------------------------------------------------------------------------
(***************************************************************************)
(* Exclusions.  The console takes an offer without consulting the          *)
(* exclusions, so what keeps an excluded robot from winning is that        *)
(* nothing of it can lead to an award: it is in no call about the task, no *)
(* bid of it waits anywhere, and it has no contract.                       *)
(***************************************************************************)

BidSent(r, t) ==
  \E i \in 1..Len(queue[r]) : queue[r][i].type = "bid" /\ queue[r][i].task = t
InMind(r, t) ==
  \/ phase[r] = "offered" /\ offeredTask[r] = t
  \/ phase[r] = "bidding" /\ biddingTask[r] = t
Bidder(r, t) == t \in DOMAIN openContracts /\ r \in DOMAIN openContracts[t].bids
Holder(r, t) == t \in DOMAIN executingContracts /\ executingContracts[t].robot = r

\* Robot r has, or is on its way to, a contract of task t.
Candidate(r, t) == InMind(r, t) \/ BidSent(r, t) \/ Bidder(r, t) \/ Holder(r, t)

NotExcluded ==
  \A r \in Robots, t \in Tasks : Candidate(r, t) => r \notin RecordedExclusions(t)

\* A reneg is the last a robot says about any auction until it is handled.
RenegsLast ==
  \A r \in Robots : \A i \in 1..Len(queue[r]) :
    queue[r][i].type = "reneg" =>
      /\ phase[r] \notin {"offered", "bidding"}
      /\ \A j \in 1..Len(queue[r]) : queue[r][j].type = "bid" => j < i

ConsoleInv == RuntimeTypeInv /\ OneContractPerTask /\ ExclusionsMatchRecord
ExclusionInv == ConsoleInv /\ NotExcluded /\ RenegsLast

\* The messages under way after one was sent.
LEMMA SentEntries ==
  ASSUME RuntimeTypeOK, NEW r \in Robots, NEW m, SendMessage(r, m),
         NEW q \in Robots, NEW i \in 1..Len(queue'[q])
  PROVE  \/ i \in 1..Len(queue[q]) /\ queue'[q][i] = queue[q][i]
         \/ q = r /\ i = Len(queue[q]) + 1 /\ queue'[q][i] = m
<1>1. queue[q] \in Seq(Message) /\ DOMAIN queue = Robots
  BY DEF RuntimeTypeOK
<1>2. queue'[q] = IF q = r THEN Append(queue[q], m) ELSE queue[q]
  BY <1>1 DEF SendMessage
<1>3. CASE q # r
  BY <1>2, <1>3
<1>4. CASE q = r
  BY <1>1, <1>2, <1>4
<1> QED BY <1>3, <1>4

\* The messages under way after the console took one.
LEMMA TakenEntries ==
  ASSUME RuntimeTypeOK, NEW r \in Robots, queue[r] # <<>>,
         queue' = [queue EXCEPT ![r] = Tail(@)],
         NEW q \in Robots, NEW i \in 1..Len(queue'[q])
  PROVE  \/ q # r /\ queue'[q] = queue[q]
         \/ q = r /\ i + 1 \in 1..Len(queue[q]) /\ queue'[q][i] = queue[q][i + 1]
<1>1. queue[q] \in Seq(Message) /\ DOMAIN queue = Robots
  BY DEF RuntimeTypeOK
<1>2. queue'[q] = IF q = r THEN Tail(queue[q]) ELSE queue[q]
  BY <1>1
<1>3. CASE q # r
  BY <1>2, <1>3
<1>4. CASE q = r
  BY <1>1, <1>2, <1>4
<1> QED BY <1>3, <1>4

\* RenegsLast after a step that sends nothing, unless a robot whose messages
\* were not all handled begins with an auction.
LEMMA QuietRenegs ==
  ASSUME RenegsLast, UNCHANGED queue,
         \A r \in Robots : phase'[r] \in {"offered", "bidding"} =>
           phase[r] \in {"offered", "bidding"} \/ queue[r] = <<>>
  PROVE  RenegsLast'
<1> SUFFICES ASSUME NEW r \in Robots, NEW i \in 1..Len(queue[r]),
                    queue[r][i].type = "reneg"
             PROVE  /\ phase'[r] \notin {"offered", "bidding"}
                    /\ \A j \in 1..Len(queue[r]) : queue[r][j].type = "bid" => j < i
  BY DEF RenegsLast
<1>1. queue[r] # <<>>
  OBVIOUS
<1> QED BY <1>1 DEF RenegsLast

\* A bid is sent in an auction, and a reneg ends what there was.
LEMMA SendRenegs ==
  ASSUME RuntimeTypeOK, RenegsLast, NEW r \in Robots, NEW m, SendMessage(r, m),
         m.type = "bid" => phase[r] = "bidding",
         m.type = "reneg" => phase'[r] \notin {"offered", "bidding"},
         \A q \in Robots : phase'[q] \in {"offered", "bidding"} => phase'[q] = phase[q]
  PROVE  RenegsLast'
<1> SUFFICES ASSUME NEW q \in Robots, NEW i \in 1..Len(queue'[q]),
                    queue'[q][i].type = "reneg"
             PROVE  /\ phase'[q] \notin {"offered", "bidding"}
                    /\ \A j \in 1..Len(queue'[q]) : queue'[q][j].type = "bid" => j < i
  BY DEF RenegsLast
<1>1. Len(queue[q]) \in Nat
  BY DEF RuntimeTypeOK
<1>2. \A j \in 1..Len(queue'[q]) :
        \/ j \in 1..Len(queue[q]) /\ queue'[q][j] = queue[q][j]
        \/ q = r /\ j = Len(queue[q]) + 1 /\ queue'[q][j] = m
  BY SentEntries
<1>3. CASE i \in 1..Len(queue[q]) /\ queue'[q][i] = queue[q][i]
  BY <1>2, <1>3 DEF RenegsLast
<1>4. CASE q = r /\ i = Len(queue[q]) + 1 /\ queue'[q][i] = m
  BY <1>1, <1>2, <1>4
<1> QED BY <1>2, <1>3, <1>4

\* Taking the first message keeps the order of the others.
LEMMA TakeRenegs ==
  ASSUME RuntimeTypeOK, RenegsLast, NEW r \in Robots, queue[r] # <<>>,
         queue' = [queue EXCEPT ![r] = Tail(@)], UNCHANGED phase
  PROVE  RenegsLast'
<1> SUFFICES ASSUME NEW q \in Robots, NEW i \in 1..Len(queue'[q]),
                    queue'[q][i].type = "reneg"
             PROVE  /\ phase[q] \notin {"offered", "bidding"}
                    /\ \A j \in 1..Len(queue'[q]) : queue'[q][j].type = "bid" => j < i
  BY DEF RenegsLast
<1>1. Len(queue[q]) \in Nat
  BY DEF RuntimeTypeOK
<1>2. \A j \in 1..Len(queue'[q]) :
        \/ q # r /\ queue'[q] = queue[q]
        \/ q = r /\ j + 1 \in 1..Len(queue[q]) /\ queue'[q][j] = queue[q][j + 1]
  BY TakenEntries
<1>3. CASE q # r
  BY <1>2, <1>3 DEF RenegsLast
<1>4. CASE q = r
  <2>1. i + 1 \in 1..Len(queue[q]) /\ queue[q][i + 1].type = "reneg"
    BY <1>2, <1>4
  <2>2. \A j \in 1..Len(queue[q]) : queue[q][j].type = "bid" => j < i + 1
    BY <2>1 DEF RenegsLast
  <2>3. ASSUME NEW j \in 1..Len(queue'[q]), queue'[q][j].type = "bid" PROVE j < i
    <3>1. j + 1 < i + 1
      BY <1>2, <1>4, <2>2, <2>3
    <3> QED BY <3>1
  <2> QED BY <2>1, <2>3 DEF RenegsLast
<1> QED BY <1>3, <1>4

\* A step that makes no new candidate and excludes nobody.
LEMMA NobodyNew ==
  ASSUME NotExcluded,
         \A r \in Robots, t \in Tasks : Candidate(r, t)' => Candidate(r, t),
         \A t \in Tasks : RecordedExclusions(t)' \subseteq RecordedExclusions(t)
  PROVE  NotExcluded'
BY DEF NotExcluded

\* Inject_Task opens contracts without offers.
LEMMA InjectBidders ==
  ASSUME NEW t, NEW x, NEW n, openContracts' = AfterInject(t, x, n), NEW r, NEW u,
         Bidder(r, u)'
  PROVE  Bidder(r, u)
BY DEF AfterInject, With, NewRequest, EmptyMap, Bidder

\* A stored offer is that of the robot the message is from.
LEMMA OfferBidders ==
  ASSUME TypeOK, NEW q \in Robots, NEW t \in Tasks, NEW bid \in Bids,
         openContracts' = Match_TaskOffer(q, t, bid), NEW r, NEW u, Bidder(r, u)'
  PROVE  Bidder(r, u) \/ (r = q /\ u = t)
<1>1. CASE UNCHANGED openContracts
  BY <1>1 DEF Bidder
<1>2. CASE openContracts' = [openContracts EXCEPT ![t].bids = With(@, q, bid)]
  <2>1. u \in DOMAIN openContracts
    BY <1>2 DEF Bidder
  <2>2. CASE u # t
    BY <1>2, <2>1, <2>2 DEF Bidder
  <2>3. CASE u = t
    <3>1. openContracts[t] = [expire |-> openContracts[t].expire,
                              bids |-> openContracts[t].bids,
                              excl |-> openContracts[t].excl]
      BY <2>1, <2>3, OpenRequestFields DEF TypeOK, Mapping
    <3>2. openContracts'[t] = [openContracts[t] EXCEPT !.bids = With(@, q, bid)]
      BY <1>2, <2>1, <2>3
    <3>3. openContracts'[t].bids = With(openContracts[t].bids, q, bid)
      BY <3>1, <3>2
    <3> QED BY <2>1, <2>3, <3>3 DEF Bidder, With
  <2> QED BY <2>2, <2>3
<1> QED BY <1>1, <1>2 DEF Match_TaskOffer

\* The timer's ticks leave the offers alone.
LEMMA TickedBidders ==
  ASSUME TypeOK, NEW S, NEW u \in DOMAIN openContracts
  PROVE  Ticked(S)[u].bids = openContracts[u].bids
<1>1. openContracts[u] = [expire |-> openContracts[u].expire,
                          bids |-> openContracts[u].bids, excl |-> openContracts[u].excl]
  BY OpenRequestFields DEF TypeOK, Mapping
<1> QED BY <1>1 DEF Ticked

\* What the timer decides makes a holder of a bidder, and forgets records.
LEMMA TimerExclusions ==
  ASSUME TypeOK, CheckExpire \/ TogglePause \/ ReportFailure
  PROVE  /\ \A r \in Robots, t \in Tasks : Bidder(r, t)' => Bidder(r, t)
         /\ \A r \in Robots, t \in Tasks : Holder(r, t)' => Holder(r, t) \/ Bidder(r, t)
         /\ \A t \in Tasks : RecordedExclusions(t)' \subseteq RecordedExclusions(t)
<1>1. CASE Tick
  <2>1. \A r, t : Bidder(r, t)' => Bidder(r, t)
    BY <1>1, TickedBidders DEF Tick, Bidder, Ticked
  <2> QED BY <1>1, <2>1 DEF Tick, Holder, RecordedExclusions
<1>2. ASSUME NEW t \in Tasks, TickAward(t)
      PROVE  /\ \A r \in Robots, u \in Tasks : Bidder(r, u)' => Bidder(r, u)
             /\ \A r \in Robots, u \in Tasks : Holder(r, u)' => Holder(r, u) \/ Bidder(r, u)
             /\ UNCHANGED reneggedContracts
  <2> DEFINE S == {u \in DOMAIN openContracts : u < t}
             winner == Find_MaxBidder(openContracts[t].bids)
  <2>1. /\ openContracts' = Without(Ticked(S), t)
        /\ DOMAIN Ticked(S) = DOMAIN openContracts
        /\ executingContracts' =
             With(executingContracts, t, [robot |-> winner, excl |-> openContracts[t].excl])
        /\ UNCHANGED reneggedContracts
    BY <1>2 DEF TickAward, Ticked
  <2>2. Bidder(winner, t)
    BY <1>2, WinnerIsBidder DEF TickAward, Expiring, Bidder
  <2> HIDE DEF winner, S
  <2>3. \A r, u : Bidder(r, u)' => Bidder(r, u)
    BY <2>1, TickedBidders DEF Bidder, Without
  <2>4. \A r, u : Holder(r, u)' => Holder(r, u) \/ Bidder(r, u)
    BY <2>1, <2>2 DEF Holder, With
  <2> QED BY <2>1, <2>3, <2>4
<1>3. ASSUME NEW t \in Tasks, TickFailure(t)
      PROVE  /\ \A r \in Robots, u \in Tasks : Bidder(r, u)' => Bidder(r, u)
             /\ \A r \in Robots, u \in Tasks : Holder(r, u)' => Holder(r, u)
             /\ \A u \in Tasks : RecordedExclusions(u)' \subseteq RecordedExclusions(u)
  <2> DEFINE S == {u \in DOMAIN openContracts : u < t}
  <2>1. /\ openContracts' = Without(Ticked(S), t)
        /\ DOMAIN Ticked(S) = DOMAIN openContracts
        /\ executingContracts' = Without(executingContracts, t)
        /\ reneggedContracts' = Without(reneggedContracts, t)
    BY <1>3 DEF TickFailure, Ticked
  <2> HIDE DEF S
  <2>2. \A r, u : Bidder(r, u)' => Bidder(r, u)
    BY <2>1, TickedBidders DEF Bidder, Without
  <2> QED BY <2>1, <2>2 DEF Holder, RecordedExclusions, Without
<1>4. CASE UNCHANGED contracts
  BY <1>4 DEF contracts, Bidder, Holder, RecordedExclusions
<1>5. CASE \E t \in Tasks : TickAward(t)
  BY <1>2, <1>5 DEF RecordedExclusions
<1> QED BY <1>1, <1>3, <1>4, <1>5
        DEF CheckExpire, TickPaused, TogglePause, ReportFailure

\* The console handles a message.  A bid makes a bidder of a robot that is not
\* excluded; a reneg excludes its sender, of whom no bid is left anywhere.
LEMMA ReceiveExclusions ==
  ASSUME ExclusionInv, NEW r \in Robots, Receive(r)
  PROVE  NotExcluded'
<1> PICK m : m = Head(queue[r])
  OBVIOUS
<1>1. /\ RuntimeTypeOK /\ TypeOK /\ queue[r] # <<>> /\ m \in Message
      /\ queue' = [queue EXCEPT ![r] = Tail(@)]
      /\ UNCHANGED <<phase, offeredTask, biddingTask>>
  BY HeadMessage
     DEF ExclusionInv, ConsoleInv, RuntimeTypeInv, RuntimeTypeOK, Receive, robotVars
<1>2. 1 \in 1..Len(queue[r]) /\ m = queue[r][1]
  BY <1>1 DEF RuntimeTypeOK
<1>3. \A q \in Robots, u \in Tasks : InMind(q, u)' => InMind(q, u)
  BY <1>1 DEF InMind
<1>4. \A q \in Robots, u \in Tasks : BidSent(q, u)' => BidSent(q, u)
  BY <1>1, TakenEntries DEF BidSent
<1>5. m.task \in Tasks \cup {NoTask} /\ (m.type = "bid" => m.task \in Tasks /\ m.bid \in Bids)
  BY <1>1, MessageFields
<1>6. CASE m.type = "inject" /\ Inject(m.task)
  <2>1. \A q, u : Bidder(q, u)' => Bidder(q, u)
    BY <1>6, InjectBidders DEF Inject
  <2>2. \A q, u : Candidate(q, u)' => Candidate(q, u) \/ InMind(q, u)' \/ BidSent(q, u)'
    BY <1>6, <2>1 DEF Inject, Candidate, Holder
  <2> QED BY <1>3, <1>4, <1>6, <2>2, NobodyNew
          DEF ExclusionInv, Inject, Candidate, RecordedExclusions
<1>7. CASE m.type = "bid" /\ ReceiveOffer(r, m.task, m.bid)
  <2>1. BidSent(r, m.task)
    BY <1>2, <1>7 DEF BidSent
  <2>2. \A q, u : Bidder(q, u)' => Bidder(q, u) \/ BidSent(q, u)
    BY <1>1, <1>5, <1>7, <2>1, OfferBidders DEF ReceiveOffer
  <2>3. \A q, u : Holder(q, u)' => Holder(q, u)
    BY <1>7 DEF ReceiveOffer, Holder
  <2> QED BY <1>3, <1>4, <1>7, <2>2, <2>3, NobodyNew
          DEF ExclusionInv, ReceiveOffer, Candidate, RecordedExclusions
<1>8. CASE m.type = "reneg" /\ CancelTask(r, m.task)
  <2>1. /\ reneggedContracts' = ReneggedAfter(r)
        /\ executingContracts' = Without(executingContracts, cnpTaskID)
        /\ \/ UNCHANGED openContracts
           \/ openContracts' = AfterInject(m.task, executingContracts', reneggedContracts')
    BY <1>8 DEF CancelTask, ReinjectTask
  <2>2. \A q, u : Bidder(q, u)' => Bidder(q, u)
    <3>1. CASE UNCHANGED openContracts
      BY <3>1 DEF Bidder
    <3> QED BY <2>1, <3>1, InjectBidders
  <2>3. \A q, u : Holder(q, u)' => Holder(q, u) /\ u # cnpTaskID
    BY <2>1 DEF Holder, Without
  <2>4. \A q \in Robots, u \in Tasks : Candidate(q, u)' => Candidate(q, u)
    BY <1>3, <1>4, <2>2, <2>3 DEF Candidate
  <2>5. CASE ~RenegesContract
    BY <2>1, <2>4, <2>5, NobodyNew DEF ExclusionInv, ReneggedAfter, RecordedExclusions
  <2>6. CASE RenegesContract
    <3>1. ASSUME NEW u \in Tasks
          PROVE  RecordedExclusions(u)' =
                   IF u = cnpTaskID THEN {r} ELSE RecordedExclusions(u)
      BY <2>1, <2>6 DEF ReneggedAfter, RecordedExclusions, With
    <3>2. ~Candidate(r, cnpTaskID)'
      <4>1. /\ phase[r] \notin {"offered", "bidding"}
            /\ \A j \in 1..Len(queue[r]) : queue[r][j].type = "bid" => j < 1
        BY <1>2, <1>8 DEF ExclusionInv, RenegsLast
      <4>2. ~BidSent(r, cnpTaskID)'
        <5>1. \A j \in 1..Len(queue[r]) : queue[r][j].type # "bid"
          BY <4>1
        <5> QED BY <1>1, <5>1, TakenEntries DEF BidSent
      <4>3. cnpTaskID \notin DOMAIN openContracts
        BY <2>6 DEF ExclusionInv, ConsoleInv, OneContractPerTask, RenegesContract
      <4>4. UNCHANGED cnpTaskID
        BY <1>8 DEF CancelTask
      <4>5. ~Bidder(r, cnpTaskID)' /\ ~Holder(r, cnpTaskID)' /\ ~InMind(r, cnpTaskID)'
        BY <1>1, <2>2, <2>3, <4>1, <4>3, <4>4 DEF Bidder, InMind
      <4> QED BY <4>2, <4>4, <4>5 DEF Candidate
    <3>3. UNCHANGED cnpTaskID
      BY <1>8 DEF CancelTask
    <3> QED BY <2>4, <3>1, <3>2, <3>3 DEF ExclusionInv, NotExcluded
  <2> QED BY <2>5, <2>6
<1>9. CASE m.type = "complete" /\ CompleteTask(m.task)
  <2>1. /\ \A q, u : Bidder(q, u)' => Bidder(q, u)
        /\ \A q, u : Holder(q, u)' => Holder(q, u)
        /\ \A u \in Tasks : RecordedExclusions(u)' \subseteq RecordedExclusions(u)
    BY <1>9 DEF CompleteTask, RemoveTask, Without, Bidder, Holder, RecordedExclusions
  <2> QED BY <1>3, <1>4, <2>1, NobodyNew DEF ExclusionInv, Candidate
<1> QED BY <1>6, <1>7, <1>8, <1>9 DEF Receive

\* What a robot does of itself.  It becomes a candidate by being offered a task,
\* and then it is not excluded; all else follows from that.
LEMMA RobotExclusions ==
  ASSUME ExclusionInv, NEW r \in Robots, RobotStep(r)
  PROVE  NotExcluded' /\ RenegsLast'
<1>1. /\ RuntimeTypeOK /\ TypeOK /\ NotExcluded /\ RenegsLast
      /\ DOMAIN phase = Robots /\ DOMAIN offeredTask = Robots
      /\ DOMAIN biddingTask = Robots
  BY DEF ExclusionInv, ConsoleInv, RuntimeTypeInv, RuntimeTypeOK
<1>2. ASSUME UNCHANGED <<contracts, queue>>,
             \A q \in Robots : phase'[q] \in {"offered", "bidding"} =>
                                 phase[q] \in {"offered", "bidding"},
             \A q \in Robots, u \in Tasks : InMind(q, u)' => InMind(q, u)
      PROVE  NotExcluded' /\ RenegsLast'
  <2>1. RenegsLast'
    BY <1>1, <1>2, QuietRenegs
  <2>2. \A q \in Robots, u \in Tasks : Candidate(q, u)' => Candidate(q, u)
    BY <1>2 DEF Candidate, Bidder, Holder, BidSent, contracts
  <2> QED BY <1>1, <1>2, <2>1, <2>2, NobodyNew DEF RecordedExclusions, contracts
<1>3. ASSUME UNCHANGED serverVars, NEW m, SendMessage(r, m),
             m.type = "bid" => phase[r] = "bidding" /\ biddingTask[r] = m.task,
             m.type = "reneg" => phase'[r] \notin {"offered", "bidding"},
             \A q \in Robots : phase'[q] \in {"offered", "bidding"} => phase'[q] = phase[q],
             UNCHANGED <<offeredTask, biddingTask>>
      PROVE  NotExcluded' /\ RenegsLast'
  <2>1. RenegsLast'
    BY <1>1, <1>3, SendRenegs
  <2>2. \A q \in Robots, u \in Tasks : BidSent(q, u)' => BidSent(q, u) \/ InMind(q, u)
    BY <1>1, <1>3, SentEntries DEF BidSent, InMind
  <2>3. \A q \in Robots, u \in Tasks : InMind(q, u)' => InMind(q, u)
    BY <1>3 DEF InMind
  <2>4. \A q \in Robots, u \in Tasks : Candidate(q, u)' => Candidate(q, u)
    BY <1>3, <2>2, <2>3 DEF Candidate, Bidder, Holder, serverVars, contracts
  <2> QED BY <1>1, <1>3, <2>1, <2>4, NobodyNew DEF RecordedExclusions, serverVars, contracts
<1>4. ASSUME NEW t \in Tasks, InjectTask(r, t) PROVE NotExcluded' /\ RenegsLast'
  <2> DEFINE m == [type |-> "inject", task |-> t]
  <2>1. SendMessage(r, m) /\ UNCHANGED <<serverVars, phase, offeredTask, biddingTask>>
    BY <1>4 DEF InjectTask
  <2> QED BY <1>3, <2>1
<1>5. ASSUME NEW bid \in Bids, BidOnTask(r, bid) PROVE NotExcluded' /\ RenegsLast'
  <2> DEFINE m == [type |-> "bid", task |-> biddingTask[r], bid |-> bid]
  <2>1. /\ SendMessage(r, m) /\ phase[r] = "bidding"
        /\ UNCHANGED <<serverVars, phase, offeredTask, biddingTask>>
    BY <1>5 DEF BidOnTask, robotVars
  <2> QED BY <1>3, <2>1
<1>6. ASSUME NEW type \in {"complete", "reneg"}, CancelExecuting(r, type)
      PROVE  NotExcluded' /\ RenegsLast'
  <2> DEFINE m == [type |-> type, task |-> executingTask[r]]
  <2>1. /\ SendMessage(r, m) /\ phase' = [phase EXCEPT ![r] = "idle"]
        /\ UNCHANGED <<serverVars, offeredTask, biddingTask>>
    BY <1>6 DEF CancelExecuting
  <2>2. /\ phase'[r] = "idle"
        /\ \A q \in Robots : phase'[q] \in {"offered", "bidding"} => phase'[q] = phase[q]
    BY <1>1, <2>1
  <2> QED BY <1>3, <2>1, <2>2
<1>7. CASE GetTask(r)
  <2> DEFINE t == Min(Eligible(r))
  <2>1. /\ phase' = [phase EXCEPT ![r] = "offered"]
        /\ offeredTask' = [offeredTask EXCEPT ![r] = t]
        /\ UNCHANGED <<contracts, queue, biddingTask>>
        /\ queue[r] = <<>> /\ Eligible(r) # {}
    BY <1>7 DEF GetTask, Drained, serverVars
  <2>2. t \in Eligible(r)
    BY <1>1, <2>1, OfferedTask
  <2>3. r \notin RecordedExclusions(t)
    BY <2>2 DEF Eligible, ExclusionInv, ConsoleInv, ExclusionsMatchRecord
  <2> HIDE DEF t
  <2>4. RenegsLast'
    BY <1>1, <2>1, QuietRenegs
  <2>5. \A q \in Robots, u \in Tasks : InMind(q, u)' => InMind(q, u) \/ (q = r /\ u = t)
    BY <1>1, <2>1 DEF InMind
  <2>6. \A q \in Robots, u \in Tasks : Candidate(q, u)' => Candidate(q, u) \/ (q = r /\ u = t)
    BY <2>1, <2>5 DEF Candidate, Bidder, Holder, BidSent, contracts
  <2>7. \A u : RecordedExclusions(u)' = RecordedExclusions(u)
    BY <2>1 DEF RecordedExclusions, contracts
  <2> QED BY <1>1, <2>3, <2>4, <2>6, <2>7 DEF NotExcluded
<1>8. CASE GetTaskConstraints(r)
  <2>1. \A q \in Robots, u \in Tasks : InMind(q, u)' => InMind(q, u)
    BY <1>1, <1>8 DEF GetTaskConstraints, InMind
  <2> QED BY <1>1, <1>2, <1>8, <2>1 DEF GetTaskConstraints, serverVars
<1>9. CASE SeeAuctionFailed(r) \/ SeeAuctionLost(r)
  <2>1. \A q \in Robots, u \in Tasks : InMind(q, u)' => InMind(q, u)
    BY <1>1, <1>9 DEF SeeAuctionFailed, SeeAuctionLost, LoseBidding, InMind
  <2> QED BY <1>1, <1>2, <1>9, <2>1
          DEF SeeAuctionFailed, SeeAuctionLost, LoseBidding, serverVars
<1>10. CASE SeeAuctionWon(r) \/ NotifyStarted(r)
  <2>1. \A q \in Robots, u \in Tasks : InMind(q, u)' => InMind(q, u)
    BY <1>1, <1>10 DEF SeeAuctionWon, NotifyStarted, InMind
  <2> QED BY <1>1, <1>2, <1>10, <2>1 DEF SeeAuctionWon, NotifyStarted, serverVars
<1>11. CASE AskAuctionFailed(r)
  BY <1>2, <1>11 DEF AskAuctionFailed, ReportFailure, InMind
<1>12. ASSUME NEW s \in Robots, ReceiveNews(s, r) PROVE NotExcluded' /\ RenegsLast'
  BY <1>2, <1>12 DEF ReceiveNews, serverVars, InMind
<1> QED BY <1>4, <1>5, <1>6, <1>7, <1>8, <1>9, <1>10, <1>11, <1>12
        DEF RobotStep, NotifyCompleted, NotifyReneged

\* Every step keeps excluded robots out.
LEMMA ExclusionStep ==
  ASSUME ExclusionInv, [RuntimeNext]_vars
  PROVE  NotExcluded' /\ RenegsLast'
<1>1. /\ RuntimeTypeOK /\ TypeOK /\ NotExcluded /\ RenegsLast
  BY DEF ExclusionInv, ConsoleInv, RuntimeTypeInv, RuntimeTypeOK
<1>2. ASSUME NEW r \in Robots, Receive(r) PROVE NotExcluded' /\ RenegsLast'
  <2>1. RenegsLast'
    BY <1>1, <1>2, TakeRenegs DEF Receive, robotVars
  <2> QED BY <1>2, <2>1, ReceiveExclusions
<1>3. CASE (CheckExpire \/ TogglePause) /\ UNCHANGED <<robotVars, queue, news>>
  <2>1. RenegsLast'
    BY <1>1, <1>3, QuietRenegs DEF robotVars
  <2>2. \A r \in Robots, t \in Tasks : Candidate(r, t)' => Candidate(r, t)
    BY <1>1, <1>3, TimerExclusions DEF Candidate, InMind, BidSent, robotVars
  <2> QED BY <1>1, <1>3, <2>1, <2>2, NobodyNew, TimerExclusions
<1>4. CASE UNCHANGED vars
  <2>1. RenegsLast'
    BY <1>1, <1>4, QuietRenegs DEF vars, robotVars
  <2>2. \A r \in Robots, t \in Tasks : Candidate(r, t)' => Candidate(r, t)
    BY <1>4 DEF Candidate, InMind, BidSent, Bidder, Holder, vars, robotVars, serverVars,
                contracts
  <2> QED BY <1>1, <1>4, <2>1, <2>2, NobodyNew
          DEF RecordedExclusions, vars, serverVars, contracts
<1> QED BY <1>2, <1>3, <1>4, RobotExclusions DEF RuntimeNext, ConsoleStep

\* No robot holds the contract of a task it is excluded from, although the
\* console takes every offer: none of an excluded robot can reach it.
THEOREM ExcludedStayOut == RuntimeSpec => []ExcludedNeverHolds
<1>1. RuntimeInit => NotExcluded /\ RenegsLast
  BY DEF RuntimeInit, Init, NotExcluded, RenegsLast, Candidate, InMind, BidSent, Bidder,
         Holder, EmptyMap
<1>2. ExclusionInv /\ [RuntimeNext]_vars => NotExcluded' /\ RenegsLast'
  BY ExclusionStep
<1>3. RuntimeSpec => []ConsoleInv
  BY RuntimeTypeInvariant, ConsoleImplementsServer, ContractsDisjoint,
     ExclusionsFollowRecord, PTL DEF ConsoleInv
<1>4. ExclusionInv => ExcludedNeverHolds
  <2> SUFFICES ASSUME ExclusionInv, NEW t \in DOMAIN executingContracts
               PROVE  executingContracts[t].robot \notin executingContracts[t].excl
    BY DEF ExcludedNeverHolds
  <2>1. t \in Tasks /\ executingContracts[t].robot \in Robots
    BY DEF ExclusionInv, ConsoleInv, RuntimeTypeInv, RuntimeTypeOK, TypeOK, Mapping,
           ExecutingRequest
  <2>2. Candidate(executingContracts[t].robot, t)
    BY DEF Candidate, Holder
  <2> QED BY <2>1, <2>2
          DEF ExclusionInv, ConsoleInv, NotExcluded, ExclusionsMatchRecord
<1> QED BY <1>1, <1>2, <1>3, <1>4, PTL DEF RuntimeSpec, ExclusionInv

-----------------------------------------------------------------------------
(***************************************************************************)
(* One task at a time.  While a robot executes the only task there is, the *)
(* task injected last is that task, so that a reneg moves the contract of  *)
(* its sender; then owners, awards and contracts agree.                    *)
(***************************************************************************)

OneTask == ~RenegeBeforeStart /\ \A t, u \in Tasks : t = u

\* What is won, executed or given back is a task.
TasksNamed ==
  \A r \in Robots :
    /\ phase[r] = "won" => wonTask[r] \in Tasks
    /\ phase[r] = "executing" => executingTask[r] \in Tasks
    /\ \A i \in 1..Len(queue[r]) :
         queue[r][i].type \in {"complete", "reneg"} => queue[r][i].task \in Tasks

\* A task has one award at most.
AwardedOnce ==
  \A i, j \in 1..Len(awardList) :
    awardList[i].task \in Tasks /\ awardList[i].task = awardList[j].task => i = j

\* With a contract there is a task injected last.
InjectedLast ==
  DOMAIN openContracts \cup DOMAIN executingContracts # {} => cnpTaskID \in Tasks

\* The award of every task is as the contracts have it.
MatchingInv ==
  OwnerInv /\ OneContractPerTask /\ TasksNamed /\ AwardedOnce /\ InjectedLast
    /\ AwardsMatchContracts

\* An award appended is the only one of its task, if the task had none.
LEMMA AppendOnce ==
  ASSUME TypeOK, AwardedOnce, NEW a, awardList' = Append(awardList, a),
         a.task \in Tasks => AwardsOf(a.task) = {}
  PROVE  AwardedOnce'
<1> DEFINE n == Len(awardList)
<1>1. /\ n \in Nat /\ Len(awardList') = n + 1
      /\ \A i \in 1..n : awardList'[i] = awardList[i]
      /\ awardList'[n + 1] = a
  BY DEF TypeOK
<1>2. \A i \in 1..(n + 1) : i \in 1..n \/ i = n + 1
  BY <1>1
<1>3. \A i \in 1..n : a.task \in Tasks => awardList[i].task # a.task
  BY DEF AwardsOf
<1> HIDE DEF n
<1> QED BY <1>1, <1>2, <1>3 DEF AwardedOnce, n

\* An award that is erased is the only one of its task, so the task has none left.
LEMMA EraseOnce ==
  ASSUME TypeOK, AwardedOnce, NEW u, awardList' = ErasedAward(u)
  PROVE  AwardedOnce' /\ (u \in Tasks => AwardedRobot(u)' = NoRobot)
<1> DEFINE k == FirstAward(u)
<1>1. CASE AwardsOf(u) = {}
  BY <1>1 DEF ErasedAward, FirstAward, AwardedOnce, AwardedRobot, AwardsOf
<1>2. CASE AwardsOf(u) # {}
  <2>1. k \in 1..Len(awardList) /\ awardList[k].task = u
    BY <1>2, FirstAwardIndex DEF AwardsOf
  <2> HIDE DEF k
  <2>2. awardList' = RemoveAt(awardList, k) /\ awardList \in Seq(Award)
    BY <2>1 DEF ErasedAward, TypeOK, k
  <2>3. /\ Len(awardList') = Len(awardList) - 1 /\ Len(awardList) \in Nat
        /\ \A i \in 1..Len(awardList') :
             awardList'[i] = IF i < k THEN awardList[i] ELSE awardList[i + 1]
    <3>1. /\ Len(RemoveAt(awardList, k)) = Len(awardList) - 1
          /\ \A i \in 1..(Len(awardList) - 1) :
               RemoveAt(awardList, k)[i] =
                 IF i < k THEN awardList[i] ELSE awardList[i + 1]
      BY <2>1, <2>2, RemoveAtEntries
    <3>2. Len(awardList) \in Nat
      BY <2>2
    <3> QED BY <2>2, <3>1, <3>2, Zenon
  <2> DEFINE was(i) == IF i < k THEN i ELSE i + 1
  <2>4. \A i \in 1..Len(awardList') :
          was(i) \in (1..Len(awardList)) \ {k} /\ awardList'[i] = awardList[was(i)]
    BY <2>1, <2>3
  <2>5. \A i, j \in 1..Len(awardList') : was(i) = was(j) => i = j
    BY <2>1, <2>3
  <2> HIDE DEF was
  <2>6. AwardedOnce'
    BY <2>4, <2>5 DEF AwardedOnce
  <2>7. ASSUME u \in Tasks PROVE AwardsOf(u)' = {}
    BY <2>1, <2>4, <2>7 DEF AwardedOnce, AwardsOf
  <2> QED BY <2>6, <2>7 DEF AwardedRobot, FirstAward
<1> QED BY <1>1, <1>2

\* A message of the first in line that gives something back names a task.
LEMMA NamedRelease ==
  ASSUME RuntimeTypeOK, TasksNamed, NEW r \in Robots, queue[r] # <<>>,
         Head(queue[r]).type \in {"complete", "reneg"}
  PROVE  Head(queue[r]).task \in Tasks /\ Releases(Head(queue[r]), Head(queue[r]).task)
<1>1. 1 \in 1..Len(queue[r]) /\ Head(queue[r]) = queue[r][1]
  BY DEF RuntimeTypeOK
<1> QED BY <1>1 DEF TasksNamed, Releases

\* What a robot says and believes names a task through every step.
LEMMA NamedStep ==
  ASSUME OneTask, RuntimeTypeInv, TasksNamed, [RuntimeNext]_vars
  PROVE  TasksNamed'
<1>1. /\ RuntimeTypeOK /\ TaskInHand
      /\ DOMAIN phase = Robots /\ DOMAIN wonTask = Robots /\ DOMAIN executingTask = Robots
  BY DEF RuntimeTypeInv, RuntimeTypeOK
<1> DEFINE Beliefs == \A r \in Robots :
             /\ phase[r] = "won" => wonTask[r] \in Tasks
             /\ phase[r] = "executing" => executingTask[r] \in Tasks
           Words == \A r \in Robots : \A i \in 1..Len(queue[r]) :
             queue[r][i].type \in {"complete", "reneg"} => queue[r][i].task \in Tasks
<1>2. TasksNamed <=> Beliefs /\ Words
  BY DEF TasksNamed
<1>3. ASSUME NEW r \in Robots, NEW m, SendMessage(r, m),
             m.type \in {"complete", "reneg"} => m.task \in Tasks
      PROVE  Words'
  BY <1>1, <1>2, <1>3, SentEntries
<1>4. UNCHANGED queue => Words'
  BY <1>2
<1>5. UNCHANGED <<phase, wonTask, executingTask>> => Beliefs'
  BY <1>2
<1>6. ASSUME NEW r \in Robots, Receive(r) PROVE Beliefs' /\ Words'
  BY <1>1, <1>2, <1>5, <1>6, TakenEntries DEF Receive, robotVars
<1>7. ASSUME (CheckExpire \/ TogglePause) /\ UNCHANGED <<robotVars, queue, news>>
      PROVE  Beliefs' /\ Words'
  BY <1>4, <1>5, <1>7 DEF robotVars
<1>8. ASSUME NEW r \in Robots, NEW t \in Tasks, InjectTask(r, t) PROVE Beliefs' /\ Words'
  BY <1>3, <1>5, <1>8 DEF InjectTask
<1>9. ASSUME NEW r \in Robots, NEW bid \in Bids, BidOnTask(r, bid) PROVE Beliefs' /\ Words'
  BY <1>3, <1>5, <1>9 DEF BidOnTask, robotVars
<1>10. ASSUME NEW r \in Robots, GetTask(r) \/ GetTaskConstraints(r)
       PROVE  Beliefs' /\ Words'
  BY <1>1, <1>2, <1>4, <1>10 DEF GetTask, GetTaskConstraints
<1>11. ASSUME NEW r \in Robots, SeeAuctionFailed(r) \/ SeeAuctionLost(r)
       PROVE  Beliefs' /\ Words'
  BY <1>1, <1>2, <1>4, <1>11 DEF SeeAuctionFailed, SeeAuctionLost, LoseBidding
<1>12. ASSUME NEW r \in Robots, SeeAuctionWon(r) PROVE Beliefs' /\ Words'
  BY <1>1, <1>2, <1>4, <1>12 DEF SeeAuctionWon, TaskInHand
<1>13. ASSUME NEW r \in Robots, AskAuctionFailed(r) PROVE Beliefs' /\ Words'
  BY <1>4, <1>5, <1>13 DEF AskAuctionFailed
<1>14. ASSUME NEW r \in Robots, NotifyStarted(r) PROVE Beliefs' /\ Words'
  BY <1>1, <1>2, <1>4, <1>14 DEF NotifyStarted
<1>15. ASSUME NEW r \in Robots, NotifyCompleted(r) \/ NotifyReneged(r)
       PROVE  Beliefs' /\ Words'
  <2>1. PICK type : phase[r] = "executing" /\ CancelExecuting(r, type)
    BY <1>15 DEF NotifyCompleted, NotifyReneged, OneTask
  <2>2. executingTask[r] \in Tasks
    BY <1>2, <2>1
  <2>3. Words'
    BY <1>3, <2>1, <2>2 DEF CancelExecuting
  <2>4. Beliefs'
    BY <1>1, <1>2, <2>1 DEF CancelExecuting
  <2> QED BY <2>3, <2>4
<1>16. ASSUME NEW r \in Robots, NEW s \in Robots, ReceiveNews(s, r)
       PROVE  Beliefs' /\ Words'
  BY <1>4, <1>5, <1>16 DEF ReceiveNews
<1>17. ASSUME UNCHANGED vars PROVE Beliefs' /\ Words'
  BY <1>4, <1>5, <1>17 DEF vars, robotVars
<1>18. Beliefs' /\ Words'
  BY <1>6, <1>7, <1>8, <1>9, <1>10, <1>11, <1>12, <1>13, <1>14, <1>15, <1>16, <1>17
     DEF RuntimeNext, ConsoleStep, RobotStep
<1> QED BY <1>18 DEF TasksNamed

\* The release the console handles is that of the holder, and of the task injected last.
LEMMA HolderReleases ==
  ASSUME OneTask, MatchingInv, NEW r \in Robots, queue[r] # <<>>,
         Head(queue[r]).type \in {"complete", "reneg"}
  PROVE  LET t == Head(queue[r]).task IN
           /\ t \in Tasks /\ t \in DOMAIN executingContracts /\ t \notin DOMAIN openContracts
           /\ executingContracts[t].robot = r /\ cnpTaskID = t
           /\ Releases(Head(queue[r]), t)
<1> DEFINE t == Head(queue[r]).task
<1>1. RuntimeTypeOK /\ TypeOK
  BY DEF MatchingInv, OwnerInv, RuntimeTypeInv, RuntimeTypeOK
<1>2. t \in Tasks /\ Releases(Head(queue[r]), t)
  BY <1>1, NamedRelease DEF MatchingInv
<1>3. ReleaseSent(r, t)
  <2>1. 1 \in 1..Len(queue[r]) /\ Head(queue[r]) = queue[r][1]
    BY <1>1 DEF RuntimeTypeOK
  <2> QED BY <1>2, <2>1 DEF ReleaseSent, Releases
<1>4. AwardedRobot(t) = r /\ r # NoRobot
  BY <1>2, <1>3, RobotsAssumption DEF MatchingInv, OwnerInv, ClaimsAwarded, NoRobot
<1>5. t \in DOMAIN executingContracts /\ executingContracts[t].robot = r
  BY <1>2, <1>4 DEF MatchingInv, AwardsMatchContracts
<1>6. cnpTaskID = t
  BY <1>2, <1>5 DEF MatchingInv, InjectedLast, OneTask
<1> QED BY <1>2, <1>5, <1>6 DEF MatchingInv, OneContractPerTask

\* A step after which contracts and awards are as they were.
LEMMA SameAwards ==
  ASSUME MatchingInv, UNCHANGED <<executingContracts, awardList>>,
         DOMAIN openContracts' \subseteq DOMAIN openContracts \/ cnpTaskID' \in Tasks,
         cnpTaskID' \in Tasks \/ UNCHANGED cnpTaskID
  PROVE  AwardedOnce' /\ InjectedLast' /\ AwardsMatchContracts'
<1>1. \A t : AwardedRobot(t)' = AwardedRobot(t)
  BY DEF AwardedRobot, FirstAward, AwardsOf
<1>2. AwardsMatchContracts'
  BY <1>1 DEF MatchingInv, AwardsMatchContracts
<1> QED BY <1>2 DEF MatchingInv, AwardedOnce, InjectedLast

\* A release takes the award and the contract.
LEMMA ReleaseMatches ==
  ASSUME OneTask, MatchingInv, NEW r \in Robots, queue[r] # <<>>, NEW m, m = Head(queue[r]),
         \/ m.type = "reneg" /\ CancelTask(r, m.task)
         \/ m.type = "complete" /\ CompleteTask(m.task)
  PROVE  /\ AwardedOnce' /\ InjectedLast' /\ AwardsMatchContracts'
         /\ AwardedRobot(m.task)' = NoRobot
<1>1. TypeOK /\ AwardedOnce
  BY DEF MatchingInv, OwnerInv, RuntimeTypeInv, RuntimeTypeOK
<1>2. m.task \in Tasks /\ cnpTaskID = m.task
  BY HolderReleases
<1>3. /\ awardList' = ErasedAward(m.task) /\ UNCHANGED cnpTaskID
      /\ executingContracts' = Without(executingContracts, m.task)
  BY <1>2 DEF CancelTask, CompleteTask, RemoveTask
<1>4. AwardedOnce' /\ AwardedRobot(m.task)' = NoRobot
  BY <1>1, <1>2, <1>3, EraseOnce
<1>5. \A t \in Tasks : t = m.task /\ t \notin DOMAIN executingContracts'
  BY <1>2, <1>3 DEF OneTask, Without
<1> QED BY <1>2, <1>3, <1>4, <1>5 DEF InjectedLast, AwardsMatchContracts

\* A handled message keeps awards and contracts in agreement.
LEMMA ReceiveMatches ==
  ASSUME OneTask, MatchingInv, NEW r \in Robots, Receive(r)
  PROVE  AwardedOnce' /\ InjectedLast' /\ AwardsMatchContracts'
<1>1. PICK m \in Message : m = Head(queue[r])
  BY HeadMessage DEF Receive, MatchingInv, OwnerInv, RuntimeTypeInv
<1>2. CASE m.type = "inject" /\ Inject(m.task)
  BY <1>1, <1>2, MessageFields, SameAwards DEF Inject
<1>3. CASE m.type = "bid" /\ ReceiveOffer(r, m.task, m.bid)
  BY <1>3, SameAwards DEF ReceiveOffer, Match_TaskOffer
<1>4. CASE \/ m.type = "reneg" /\ CancelTask(r, m.task)
           \/ m.type = "complete" /\ CompleteTask(m.task)
  BY <1>1, <1>4, ReleaseMatches DEF Receive
<1> QED BY <1>1, <1>2, <1>3, <1>4 DEF Receive

\* The winner of an auction gets the award and the contract; one that failed leaves
\* both as they are.
LEMMA TimerMatches ==
  ASSUME MatchingInv, CheckExpire \/ TogglePause \/ ReportFailure
  PROVE  AwardedOnce' /\ InjectedLast' /\ AwardsMatchContracts'
<1>1. TypeOK /\ AwardedOnce /\ OneContractPerTask /\ AwardsMatchContracts /\ InjectedLast
  BY DEF MatchingInv, OwnerInv, RuntimeTypeInv, RuntimeTypeOK
<1>2. Failed \notin Tasks
  BY TasksAssumption DEF Failed
<1>3. CASE Tick \/ TickPaused \/ TogglePause
  BY <1>3, SameAwards DEF Tick, TickPaused, TogglePause, Ticked, contracts
<1>4. ASSUME NEW t \in Tasks, TickAward(t)
      PROVE  AwardedOnce' /\ InjectedLast' /\ AwardsMatchContracts'
  <2> DEFINE w == Find_MaxBidder(openContracts[t].bids)
             a == [task |-> t, robot |-> w]
             x == [robot |-> w, excl |-> openContracts[t].excl]
  <2>1. t \in DOMAIN openContracts /\ t \notin DOMAIN executingContracts
    BY <1>1, <1>4 DEF TickAward, Expiring, OneContractPerTask
  <2>2. AwardsOf(t) = {}
    BY <1>1, <2>1, AnswerType DEF AwardsMatchContracts
  <2>3. /\ executingContracts' = With(executingContracts, t, x)
        /\ awardList' = Append(awardList, a)
        /\ DOMAIN openContracts' \subseteq DOMAIN openContracts
        /\ UNCHANGED cnpTaskID
    BY <1>4 DEF TickAward, Without, Ticked
  <2>4. a.task = t /\ a.robot = w /\ x.robot = w
    OBVIOUS
  <2> HIDE DEF w, a, x
  <2>5. AwardedOnce'
    BY <1>1, <2>2, <2>3, <2>4, AppendOnce
  <2>6. AwardedRobot(t)' = w /\ \A u \in Tasks \ {t} : AwardedRobot(u)' = AwardedRobot(u)
    BY <1>1, <2>2, <2>3, <2>4, AppendFirst, AppendKeepsOthers
  <2>7. AwardsMatchContracts'
    BY <1>1, <2>3, <2>4, <2>6 DEF AwardsMatchContracts, With
  <2>8. InjectedLast'
    BY <1>1, <2>1, <2>3 DEF InjectedLast
  <2> QED BY <2>5, <2>7, <2>8
<1>5. ASSUME NEW t \in Tasks, TickFailure(t)
      PROVE  AwardedOnce' /\ InjectedLast' /\ AwardsMatchContracts'
  <2> DEFINE a == [task |-> Failed, robot |-> Failed]
  <2>1. t \in DOMAIN openContracts /\ t \notin DOMAIN executingContracts
    BY <1>1, <1>5 DEF TickFailure, Expiring, OneContractPerTask
  <2>2. /\ DOMAIN executingContracts' = DOMAIN executingContracts
        /\ \A u \in DOMAIN executingContracts : executingContracts'[u] = executingContracts[u]
        /\ awardList' = Append(awardList, a)
        /\ DOMAIN openContracts' \subseteq DOMAIN openContracts
        /\ UNCHANGED cnpTaskID
    BY <1>5, <2>1 DEF TickFailure, Without, Ticked
  <2>3. a.task = Failed
    OBVIOUS
  <2> HIDE DEF a
  <2>4. AwardedOnce'
    BY <1>1, <1>2, <2>2, <2>3, AppendOnce
  <2>5. \A u \in Tasks : AwardedRobot(u)' = AwardedRobot(u)
    BY <1>1, <1>2, <2>2, <2>3, AppendKeepsOthers
  <2>6. AwardsMatchContracts'
    BY <1>1, <2>2, <2>5 DEF AwardsMatchContracts
  <2> QED BY <1>1, <2>2, <2>4, <2>6 DEF InjectedLast
<1>6. CASE ReportFailure
  <2>1. awardList' = ErasedAward(Failed) /\ UNCHANGED <<contracts, cnpTaskID>>
    BY <1>6 DEF ReportFailure
  <2>2. AwardedOnce'
    BY <1>1, <2>1, EraseOnce
  <2>3. \A u \in Tasks : AwardedRobot(u)' = AwardedRobot(u)
    BY <1>1, <1>2, <2>1, ErasingKeepsOthers
  <2> QED BY <1>1, <2>1, <2>2, <2>3 DEF InjectedLast, AwardsMatchContracts, contracts
<1> QED BY <1>3, <1>4, <1>5, <1>6 DEF CheckExpire

\* Every step keeps awards and contracts in agreement.
LEMMA MatchingStep ==
  ASSUME OneTask, MatchingInv, [RuntimeNext]_vars
  PROVE  MatchingInv'
<1>1. OwnerInv' /\ TasksNamed'
  BY OwnerStep, NamedStep DEF MatchingInv, OwnerInv
<1>2. OneContractPerTask'
  BY ServerStep, OneContractStep DEF MatchingInv, OwnerInv, RuntimeTypeInv
<1>3. ASSUME NEW r \in Robots, Receive(r)
      PROVE  AwardedOnce' /\ InjectedLast' /\ AwardsMatchContracts'
  BY <1>3, ReceiveMatches
<1>4. ASSUME CheckExpire \/ TogglePause
      PROVE  AwardedOnce' /\ InjectedLast' /\ AwardsMatchContracts'
  BY <1>4, TimerMatches
<1>5. ASSUME NEW r \in Robots, RobotStep(r)
      PROVE  AwardedOnce' /\ InjectedLast' /\ AwardsMatchContracts'
  <2>1. UNCHANGED serverVars \/ ReportFailure
    BY <1>5 DEF RobotStep, InjectTask, GetTask, GetTaskConstraints, BidOnTask,
                SeeAuctionFailed, SeeAuctionLost, SeeAuctionWon, AskAuctionFailed,
                NotifyStarted, NotifyCompleted, NotifyReneged, CancelExecuting, ReceiveNews
  <2>2. CASE UNCHANGED serverVars
    BY <2>2, SameAwards DEF serverVars, contracts
  <2> QED BY <2>1, <2>2, TimerMatches
<1>6. ASSUME UNCHANGED vars
      PROVE  AwardedOnce' /\ InjectedLast' /\ AwardsMatchContracts'
  BY <1>6, SameAwards DEF vars, serverVars, contracts
<1>7. AwardedOnce' /\ InjectedLast' /\ AwardsMatchContracts'
  BY <1>3, <1>4, <1>5, <1>6 DEF RuntimeNext, ConsoleStep
<1> QED BY <1>1, <1>2, <1>7 DEF MatchingInv

\* With one task at a time awards and contracts agree at all times.
LEMMA MatchingInvariant ==
  ASSUME OneTask
  PROVE  RuntimeSpec => []MatchingInv
<1>1. RuntimeInit => OneContractPerTask /\ TasksNamed /\ AwardedOnce /\ InjectedLast
                       /\ AwardsMatchContracts
  BY DEF RuntimeInit, Init, EmptyMap, OneContractPerTask, TasksNamed, AwardedOnce,
         InjectedLast, AwardsMatchContracts, AwardedRobot, FirstAward, AwardsOf
<1>2. MatchingInv /\ [RuntimeNext]_vars => MatchingInv'
  BY MatchingStep
<1> QED BY <1>1, <1>2, OwnerInvariant, PTL DEF RuntimeSpec, MatchingInv

\* With one task at a time and no reneg before the start, the award list and the
\* executing contracts, two records kept by two classes, agree.
THEOREM AwardsAreContracts ==
  ASSUME OneTask
  PROVE  RuntimeSpec => []AwardsMatchContracts
<1>1. MatchingInv => AwardsMatchContracts
  BY DEF MatchingInv
<1> QED BY <1>1, MatchingInvariant, PTL

\* Then a robot that owns a task in its own eyes holds its contract in the console's.
THEOREM OwnersAreHolders ==
  ASSUME OneTask
  PROVE  RuntimeSpec => []OwnersHoldContracts
<1>1. MatchingInv => OwnersHoldContracts
  <2> SUFFICES ASSUME MatchingInv, NEW r \in Robots, NEW t \in Tasks, Owner(r, t)
               PROVE  /\ t \in DOMAIN executingContracts
                      /\ executingContracts[t].robot = r
    BY DEF OwnersHoldContracts
  <2>1. AwardedRobot(t) = r /\ r # NoRobot
    BY RobotsAssumption DEF MatchingInv, OwnerInv, ClaimsAwarded, NoRobot
  <2> QED BY <2>1 DEF MatchingInv, AwardsMatchContracts
<1> QED BY <1>1, MatchingInvariant, PTL

\* Then a contract ends by its holder's message only, and the task is up for auction
\* again without that robot, or gone.
THEOREM ContractsEndWell ==
  ASSUME OneTask
  PROVE  RuntimeSpec => ContractsEndProperly
<1>1. ASSUME MatchingInv, NEW r \in Robots, Receive(r) PROVE ContractEnded
  <2> SUFFICES ASSUME NEW t \in DOMAIN executingContracts \ DOMAIN executingContracts'
               PROVE  LET holder == executingContracts[t].robot IN
                        /\ queue[holder] # <<>> /\ Releases(Head(queue[holder]), t)
                        /\ AwardedRobot(t)' = NoRobot
                        /\ \/ /\ t \in DOMAIN openContracts'
                              /\ openContracts'[t].excl = {holder}
                           \/ t \notin DOMAIN openContracts' \cup DOMAIN reneggedContracts'
    BY DEF ContractEnded
  <2>1. t \in Tasks
    BY <1>1 DEF MatchingInv, OwnerInv, RuntimeTypeInv, RuntimeTypeOK, TypeOK, Mapping
  <2>2. PICK m : m = Head(queue[r])
    OBVIOUS
  <2>3. queue[r] # <<>>
    BY <1>1 DEF Receive
  <2>4. \/ m.type = "reneg" /\ CancelTask(r, m.task)
        \/ m.type = "complete" /\ CompleteTask(m.task)
    BY <1>1, <2>2 DEF Receive, Inject, ReceiveOffer
  <2>5. /\ m.task = t /\ cnpTaskID = t /\ t \notin DOMAIN openContracts
        /\ executingContracts[t].robot = r /\ Releases(m, t)
    BY <1>1, <2>1, <2>2, <2>3, <2>4, HolderReleases DEF OneTask
  <2>6. AwardedRobot(t)' = NoRobot
    BY <1>1, <2>2, <2>3, <2>4, <2>5, ReleaseMatches
  <2>7. CASE CancelTask(r, t)
    <3>1. /\ reneggedContracts' = With(reneggedContracts, t, {r})
          /\ executingContracts' = Without(executingContracts, t)
          /\ t \in DOMAIN executingContracts
      BY <2>5, <2>7 DEF CancelTask, ReneggedAfter, RenegesContract
    <3>2. t \in DOMAIN reneggedContracts' /\ reneggedContracts'[t] = {r}
      BY <3>1 DEF With
    <3>3. openContracts' = AfterInject(t, executingContracts', reneggedContracts')
      BY <2>7, <3>2 DEF CancelTask, ReinjectTask
    <3>4. openContracts' = With(openContracts, t, NewRequest({r}))
      BY <2>5, <3>2, <3>3 DEF AfterInject
    <3>5. t \in DOMAIN openContracts' /\ openContracts'[t].excl = {r}
      BY <3>4 DEF With, NewRequest
    <3> QED BY <2>2, <2>3, <2>5, <2>6, <3>5
  <2>8. CASE CompleteTask(t)
    <3>1. t \notin DOMAIN openContracts' \cup DOMAIN reneggedContracts'
      BY <2>8 DEF CompleteTask, RemoveTask, Without
    <3> QED BY <2>2, <2>3, <2>5, <2>6, <3>1
  <2> QED BY <2>4, <2>5, <2>7, <2>8
<1>2. ASSUME MatchingInv, CheckExpire \/ TogglePause PROVE ContractEnded
  <2>1. \A t \in Tasks : TickFailure(t) =>
          DOMAIN executingContracts' = DOMAIN executingContracts
    BY <1>2 DEF MatchingInv, OneContractPerTask, TickFailure, Expiring, Without
  <2> QED BY <1>2, <2>1 DEF CheckExpire, Tick, TickAward, TickPaused, TogglePause, With,
                            contracts, ContractEnded
<1>3. ASSUME NEW r \in Robots, RobotStep(r) PROVE ContractEnded
  BY <1>3 DEF RobotStep, InjectTask, GetTask, GetTaskConstraints, BidOnTask,
              SeeAuctionFailed, SeeAuctionLost, SeeAuctionWon, AskAuctionFailed,
              ReportFailure, NotifyStarted, NotifyCompleted, NotifyReneged,
              CancelExecuting, ReceiveNews, serverVars, contracts, ContractEnded
<1>4. MatchingInv /\ [RuntimeNext]_vars => [ContractEnded]_vars
  BY <1>1, <1>2, <1>3 DEF RuntimeNext, ConsoleStep
<1> QED BY <1>4, MatchingInvariant, PTL DEF RuntimeSpec, ContractsEndProperly

\* Then a bidder gives up on the console's answer only when the auction is over and
\* another robot holds the contract.
THEOREM LossesReal ==
  ASSUME OneTask
  PROVE  RuntimeSpec => LossesAreReal
<1>1. ASSUME MatchingInv, [RuntimeNext]_vars PROVE LossIsReal
  <2> SUFFICES ASSUME NEW r \in Robots, phase[r] = "bidding", phase'[r] = "idle",
                      ~auctionFailed[r]
               PROVE  /\ biddingTask[r] \notin DOMAIN openContracts
                      /\ biddingTask[r] \in DOMAIN executingContracts
                      /\ executingContracts[biddingTask[r]].robot # r
    BY DEF LossIsReal
  <2>1. DOMAIN phase = Robots /\ biddingTask[r] \in Tasks
    BY <1>1 DEF MatchingInv, OwnerInv, RuntimeTypeInv, RuntimeTypeOK, TaskInHand
  <2>2. SeeAuctionLost(r)
    <3>1. PICK q \in Robots : RobotStep(q)
      BY <1>1 DEF RuntimeNext, ConsoleStep, Receive, robotVars, vars
    <3>2. ~UNCHANGED phase
      OBVIOUS
    <3>3. \/ GetTask(q) \/ GetTaskConstraints(q)
          \/ SeeAuctionFailed(q) \/ SeeAuctionLost(q) \/ SeeAuctionWon(q)
          \/ NotifyStarted(q) \/ NotifyCompleted(q) \/ NotifyReneged(q)
      BY <3>1, <3>2 DEF RobotStep, InjectTask, BidOnTask, AskAuctionFailed, ReceiveNews,
                        robotVars
    <3> QED BY <2>1, <3>3
            DEF GetTask, GetTaskConstraints, SeeAuctionFailed, SeeAuctionLost, SeeAuctionWon,
                LoseBidding, NotifyStarted, NotifyCompleted, NotifyReneged, CancelExecuting
  <2>3. AwardedRobot(biddingTask[r]) \notin {NoRobot, r}
    BY <2>2 DEF SeeAuctionLost, SaysLost
  <2> QED BY <1>1, <2>1, <2>3 DEF MatchingInv, AwardsMatchContracts, OneContractPerTask
<1>2. MatchingInv /\ [RuntimeNext]_vars => [LossIsReal]_vars
  BY <1>1
<1> QED BY <1>2, MatchingInvariant, PTL DEF RuntimeSpec, LossesAreReal
=============================================================================
