-------------------------- MODULE TicketLineProofs --------------------------
(***************************************************************************)
(* The line never gives one place twice, and the numbers of the guests who *)
(* kept their place rise with it, for every number of visits and every     *)
(* bound on the numbers given.                                             *)
(***************************************************************************)
EXTENDS TicketLine, TLAPS, FiniteSetTheorems, WellFoundedInduction

\* A column, and a slot, whose numbers stay within a bound.
Within(bound) ==
  [main : 0..bound, priority : 0..bound, front : BOOLEAN, order : 0..bound]

\* A non-empty set of naturals with an upper bound has a maximum: SQL's max picks one of
\* the values of its column.
LEMMA MaxOfBounded ==
  ASSUME NEW bound \in Nat, NEW S, S \subseteq 0..bound, S # {}
  PROVE  Max(S) \in S /\ \A x \in S : x <= Max(S)
PROOF
  <1> DEFINE T == {bound - x : x \in S}
  <1>1. T \subseteq Nat /\ T # {}
    <2>1. \A x \in S : bound - x \in Nat
      OBVIOUS
    <2>2. T \subseteq Nat
      BY <2>1
    <2>3. PICK x \in S : TRUE
      OBVIOUS
    <2>4. bound - x \in T
      BY <2>3
    <2> QED
      BY <2>2, <2>4
  <1>2. PICK t \in T : \A u \in T : ~ (<<u, t>> \in OpToRel(<, Nat))
    BY <1>1, NatLessThanWellFounded, WFMin
  <1>3. \A u \in T : ~ (u < t)
    BY <1>1, <1>2 DEF OpToRel
  <1>4. PICK m \in S : t = bound - m
    OBVIOUS
  <1>5. \A x \in S : m >= x
    <2> SUFFICES ASSUME NEW x \in S PROVE m >= x
      OBVIOUS
    <2>1. bound - x \in T /\ ~ (bound - x < bound - m)
      BY <1>3, <1>4
    <2> QED
      BY <2>1
  <1>6. \E m1 \in S : \A x \in S : m1 >= x
    BY <1>5
  <1>7. Max(S) \in S /\ \A x \in S : Max(S) >= x
    BY <1>6 DEF Max
  <1> QED
    BY <1>7

\* The highest of a column is within the column's bound, is at least each of its values,
\* and is one of them unless it is 0, the null of an empty column.
LEMMA HighestOfColumn ==
  ASSUME NEW bound \in Nat, NEW column, column \subseteq 0..bound
  PROVE  /\ Highest(column) \in 0..bound
         /\ \A x \in column : x <= Highest(column)
         /\ Highest(column) \in column \cup {0}
PROOF
  <1>1. column \cup {0} \subseteq 0..bound /\ column \cup {0} # {}
    OBVIOUS
  <1>2. /\ Max(column \cup {0}) \in column \cup {0}
        /\ \A x \in column \cup {0} : x <= Max(column \cup {0})
    BY <1>1, MaxOfBounded
  <1> QED
    BY <1>1, <1>2 DEF Highest

\* A placement: its order is one past the highest, it is at the front when the worker says
\* so, and a guest with no number gets the next main one unless put at the front.
LEMMA PlaceGives ==
  ASSUME NEW bound \in Nat,
         NEW line \in [highestMain : 0..bound, highestPriority : 0..bound,
                       highestOrder : 0..bound, othersWaiting : BOOLEAN],
         NEW placement \in Placements,
         NEW held \in [main : 0..bound, priority : 0..bound],
         line.highestMain + 1 <= bound,
         line.highestPriority + 1 <= bound,
         line.highestOrder + 1 <= bound
  PROVE  /\ Place(line, placement, held) \in Within(bound)
         /\ Place(line, placement, held).order = line.highestOrder + 1
         /\ Place(line, placement, held).front = (placement = "next")
         /\ held = NoNumber /\ placement # "next" =>
              Place(line, placement, held).main = line.highestMain + 1
PROOF
  <1> DEFINE front  == placement = "next"
             number == IF held # NoNumber THEN held
                       ELSE IF front /\ line.othersWaiting
                            THEN [main |-> 0, priority |-> line.highestPriority + 1]
                            ELSE [main |-> line.highestMain + 1, priority |-> 0]
  <1>1. Place(line, placement, held) =
          [main |-> number.main, priority |-> number.priority,
           front |-> front, order |-> line.highestOrder + 1]
    BY DEF Place
  <1>2. number \in [main : 0..bound, priority : 0..bound]
    OBVIOUS
  <1>3. line.highestOrder + 1 \in 0..bound /\ front \in BOOLEAN
    OBVIOUS
  <1>4. held = NoNumber /\ placement # "next" => number.main = line.highestMain + 1
    OBVIOUS
  <1> HIDE DEF number
  <1> QED
    BY <1>1, <1>2, <1>3, <1>4 DEF Within

\* A draw: the winner's number and order are rank past the highest, and the other two
\* columns stay.
LEMMA DrawnSlotGives ==
  ASSUME NEW bound \in Nat,
         NEW line, line.highestMain \in 0..bound, line.highestOrder \in 0..bound,
         NEW s \in Within(bound),
         NEW rank \in Nat \ {0},
         line.highestMain + rank <= bound,
         line.highestOrder + rank <= bound
  PROVE  /\ DrawnSlot(s, line, rank) \in Within(bound)
         /\ DrawnSlot(s, line, rank).main = line.highestMain + rank
         /\ DrawnSlot(s, line, rank).order = line.highestOrder + rank
         /\ DrawnSlot(s, line, rank).front = s.front
         /\ DrawnSlot(s, line, rank).priority = s.priority
PROOF
  <1>1. line.highestMain + rank \in 0..bound /\ line.highestOrder + rank \in 0..bound
    OBVIOUS
  <1> QED
    BY <1>1 DEF DrawnSlot, Within

-----------------------------------------------------------------------------
(* The line.                                                                *)

\* The highest of each column is within the bound and bounds the column.
LEMMA HighestBounds ==
  ASSUME TypeOK
  PROVE  /\ HighestMain \in 0..MaxOrder
         /\ HighestPriority \in 0..MaxOrder
         /\ HighestOrder \in 0..MaxOrder
         /\ \A v \in Visits : /\ slot[v].main <= HighestMain
                              /\ slot[v].order <= HighestOrder
PROOF
  <1>1. MaxOrder \in Nat
    BY LineAssumption
  <1>2. {slot[v].main : v \in Visits} \subseteq 0..MaxOrder
    BY DEF TypeOK, Slots
  <1>3. {slot[v].priority : v \in Visits} \subseteq 0..MaxOrder
    BY DEF TypeOK, Slots
  <1>4. {slot[v].order : v \in Visits} \subseteq 0..MaxOrder
    BY DEF TypeOK, Slots
  <1>5. HighestMain \in 0..MaxOrder /\ \A v \in Visits : slot[v].main <= HighestMain
    BY <1>1, <1>2, HighestOfColumn DEF HighestMain
  <1>6. HighestPriority \in 0..MaxOrder
    BY <1>1, <1>3, HighestOfColumn DEF HighestPriority
  <1>7. HighestOrder \in 0..MaxOrder /\ \A v \in Visits : slot[v].order <= HighestOrder
    BY <1>1, <1>4, HighestOfColumn DEF HighestOrder
  <1> QED
    BY <1>5, <1>6, <1>7

\* The inductive invariant holds of a line nobody has joined.
LEMMA LineInit == Init => LineInv
PROOF
  BY LineAssumption DEF Init, LineInv, TypeOK, Slots, OrdersUnique, NumbersRiseWithTheLine,
     KeptTheirPlace, NumberedHavePlace, NotInLine

\* One visit gets a slot past every other: what a join and a return have in common.
LEMMA NewSlot ==
  ASSUME LineInv,
         NEW v \in Visits,
         NEW s \in Slots,
         slot' = [slot EXCEPT ![v] = s],
         s.order = HighestOrder + 1,
         replaced' \in [Visits -> BOOLEAN],
         \A u \in Visits \ {v} : replaced'[u] = replaced[u],
         s.front \/ replaced'[v] \/ s.main = HighestMain + 1
  PROVE  LineInv'
PROOF
  <1>0. TypeOK /\ OrdersUnique /\ NumbersRiseWithTheLine /\ NumberedHavePlace
    BY DEF LineInv
  <1>1. slot \in [Visits -> Slots]
    BY <1>0 DEF TypeOK
  <1>2. slot'[v] = s /\ \A u \in Visits \ {v} : slot'[u] = slot[u]
    BY <1>1
  <1>3. /\ HighestOrder \in Nat /\ HighestMain \in Nat
        /\ \A u \in Visits : slot[u].main <= HighestMain /\ slot[u].order <= HighestOrder
    BY <1>0, HighestBounds, LineAssumption
  <1>3a. \A u \in Visits : /\ slot[u].main \in Nat /\ slot[u].order \in Nat
                           /\ slot[u].front \in BOOLEAN
    BY <1>1, LineAssumption DEF Slots
  <1>4. TypeOK'
    BY <1>1, <1>2 DEF TypeOK
  <1>5. OrdersUnique'
    <2> SUFFICES ASSUME NEW a \in Visits, NEW b \in Visits,
                        slot'[a].order # 0, slot'[a].order = slot'[b].order
                 PROVE  a = b
      BY DEF OrdersUnique
    <2>1. CASE a # v /\ b # v
      BY <2>1, <1>0, <1>2 DEF OrdersUnique
    <2>2. CASE a = v /\ b # v
      BY <2>2, <1>2, <1>3, <1>3a
    <2>3. CASE a # v /\ b = v
      BY <2>3, <1>2, <1>3, <1>3a
    <2> QED
      BY <2>1, <2>2, <2>3
  <1>6. NumberedHavePlace'
    BY <1>0, <1>2, <1>3 DEF NumberedHavePlace
  <1>7. NumbersRiseWithTheLine'
    <2> SUFFICES ASSUME NEW a \in Visits, NEW b \in Visits, a # b,
                        KeptTheirPlace(a)', KeptTheirPlace(b)'
                 PROVE  /\ slot'[a].main # slot'[b].main
                        /\ slot'[a].main < slot'[b].main => Ahead(slot'[a], slot'[b])
      BY DEF NumbersRiseWithTheLine
    <2>0. /\ ~slot'[a].front /\ ~replaced'[a] /\ slot'[a].main # 0
          /\ ~slot'[b].front /\ ~replaced'[b] /\ slot'[b].main # 0
      BY DEF KeptTheirPlace
    <2>1. CASE a # v /\ b # v
      <3>1. KeptTheirPlace(a) /\ KeptTheirPlace(b)
        BY <2>0, <2>1, <1>2 DEF KeptTheirPlace
      <3> QED
        BY <3>1, <2>1, <1>0, <1>2 DEF NumbersRiseWithTheLine
    <2>2. CASE a = v
      <3>1. slot'[a].main = HighestMain + 1 /\ slot'[b] = slot[b]
        BY <2>0, <2>2, <1>2
      <3> QED
        BY <3>1, <1>3, <1>3a
    <2>3. CASE b = v
      <3>1. /\ slot'[b].main = HighestMain + 1 /\ slot'[b].order = HighestOrder + 1
            /\ slot'[a] = slot[a]
        BY <2>0, <2>3, <1>2
      <3>2. slot[a].order # 0
        BY <3>1, <2>0, <1>0 DEF NumberedHavePlace
      <3>3. slot'[a].front = FALSE /\ slot'[b].front = FALSE
        BY <2>0, <3>1, <1>2, <1>3a, <2>3 DEF Slots
      <3>4. slot[a].order < HighestOrder + 1 /\ slot[a].main < HighestMain + 1
        BY <1>3, <1>3a
      <3>5. Ahead(slot'[a], slot'[b])
        BY <3>1, <3>2, <3>3, <3>4 DEF Ahead
      <3> QED
        BY <3>1, <3>4, <3>5, <1>3, <1>3a
    <2> QED
      BY <2>1, <2>2, <2>3
  <1> QED
    BY <1>4, <1>5, <1>6, <1>7 DEF LineInv

\* Joining the line keeps the invariant: the slot is past every other.
LEMMA JoinKeepsLineInv ==
  ASSUME LineInv, NEW v \in Visits, NEW placement \in Placements,
         NEW othersWaiting \in BOOLEAN, Join(v, placement, othersWaiting)
  PROVE  LineInv'
PROOF
  <1> DEFINE line == LineNow(othersWaiting)
             s    == Place(line, placement, NoNumber)
  <1>1. TypeOK /\ MaxOrder \in Nat
    BY LineAssumption DEF LineInv
  <1>2. /\ line \in [highestMain : 0..MaxOrder, highestPriority : 0..MaxOrder,
                     highestOrder : 0..MaxOrder, othersWaiting : BOOLEAN]
        /\ line.highestMain = HighestMain
        /\ line.highestPriority = HighestPriority
        /\ line.highestOrder = HighestOrder
    BY <1>1, HighestBounds DEF LineNow
  <1>3. NoNumber \in [main : 0..MaxOrder, priority : 0..MaxOrder]
    BY <1>1 DEF NoNumber
  <1>4. /\ line.highestMain + 1 <= MaxOrder
        /\ line.highestPriority + 1 <= MaxOrder
        /\ line.highestOrder + 1 <= MaxOrder
    BY <1>2 DEF Join, Issuable
  <1> HIDE DEF line
  <1>5. /\ s \in Within(MaxOrder)
        /\ s.order = HighestOrder + 1
        /\ s.front = (placement = "next")
        /\ placement # "next" => s.main = HighestMain + 1
    BY <1>1, <1>2, <1>3, <1>4, PlaceGives
  <1>6. slot' = [slot EXCEPT ![v] = s] /\ replaced' = replaced
    BY DEF Join, line
  <1>7. replaced' \in [Visits -> BOOLEAN]
    BY <1>1, <1>6 DEF TypeOK
  <1> HIDE DEF s
  <1> QED
    BY <1>5, <1>6, <1>7, NewSlot DEF Within, Slots

\* So does being put back, whatever number the request holds.
LEMMA PutBackKeepsLineInv ==
  ASSUME LineInv, NEW v \in Visits, NEW placement \in Placements,
         NEW othersWaiting \in BOOLEAN, NEW held \in HeldNumbers,
         PutBack(v, placement, othersWaiting, held)
  PROVE  LineInv'
PROOF
  <1> DEFINE line == LineNow(othersWaiting)
             s    == Place(line, placement, held)
  <1>1. TypeOK /\ MaxOrder \in Nat
    BY LineAssumption DEF LineInv
  <1>2. /\ line \in [highestMain : 0..MaxOrder, highestPriority : 0..MaxOrder,
                     highestOrder : 0..MaxOrder, othersWaiting : BOOLEAN]
        /\ line.highestMain = HighestMain
        /\ line.highestPriority = HighestPriority
        /\ line.highestOrder = HighestOrder
    BY <1>1, HighestBounds DEF LineNow
  <1>3. held \in [main : 0..MaxOrder, priority : 0..MaxOrder]
    BY DEF HeldNumbers
  <1>4. /\ line.highestMain + 1 <= MaxOrder
        /\ line.highestPriority + 1 <= MaxOrder
        /\ line.highestOrder + 1 <= MaxOrder
    BY <1>2 DEF PutBack, Issuable
  <1> HIDE DEF line
  <1>5. s \in Within(MaxOrder) /\ s.order = HighestOrder + 1
    BY <1>1, <1>2, <1>3, <1>4, PlaceGives
  <1>6. slot' = [slot EXCEPT ![v] = s] /\ replaced' = [replaced EXCEPT ![v] = TRUE]
    BY DEF PutBack, line
  <1>7. /\ replaced' \in [Visits -> BOOLEAN] /\ replaced'[v]
        /\ \A u \in Visits \ {v} : replaced'[u] = replaced[u]
    BY <1>1, <1>6 DEF TypeOK
  <1> HIDE DEF s
  <1> QED
    BY <1>5, <1>6, <1>7, NewSlot DEF Within, Slots

\* So does the draw, whose winners stand past every other in the order drawn.
LEMMA DrawKeepsLineInv ==
  ASSUME LineInv, NEW winners \in SUBSET Visits, NEW rank \in Rankings(winners),
         DrawWinners(winners, rank)
  PROVE  LineInv'
PROOF
  <1> DEFINE line == LineNow(TRUE)
             n    == Cardinality(winners)
  <1>0. TypeOK /\ OrdersUnique /\ NumbersRiseWithTheLine /\ NumberedHavePlace
    BY DEF LineInv
  <1>1. MaxOrder \in Nat /\ n \in Nat
    BY LineAssumption, FS_Subset, FS_CardinalityType
  <1>2. slot \in [Visits -> Slots] /\ replaced \in [Visits -> BOOLEAN]
    BY <1>0 DEF TypeOK
  <1>3. /\ line.highestMain = HighestMain /\ line.highestOrder = HighestOrder
        /\ HighestMain \in 0..MaxOrder /\ HighestOrder \in 0..MaxOrder
        /\ \A u \in Visits : slot[u].main <= HighestMain /\ slot[u].order <= HighestOrder
    BY <1>0, HighestBounds DEF LineNow
  <1>4. /\ \A w \in winners : rank[w] \in 1..n
        /\ \A u, w \in winners : rank[u] = rank[w] => u = w
    BY DEF Rankings
  <1>5. HighestMain + n <= MaxOrder /\ HighestOrder + n <= MaxOrder
    BY DEF DrawWinners, Issuable
  <1>6. /\ \A w \in winners : slot'[w] = DrawnSlot(slot[w], line, rank[w])
        /\ \A u \in Visits \ winners : slot'[u] = slot[u]
        /\ DOMAIN slot' = Visits
        /\ slot' = [u \in Visits |-> slot'[u]]
        /\ replaced' = replaced
    BY DEF DrawWinners
  <1> HIDE DEF line, n
  <1>7. \A w \in winners : /\ slot'[w] \in Slots
                           /\ slot'[w].main = HighestMain + rank[w]
                           /\ slot'[w].order = HighestOrder + rank[w]
                           /\ slot'[w].front = slot[w].front
    <2> SUFFICES ASSUME NEW w \in winners
                 PROVE  /\ slot'[w] \in Slots
                        /\ slot'[w].main = HighestMain + rank[w]
                        /\ slot'[w].order = HighestOrder + rank[w]
                        /\ slot'[w].front = slot[w].front
      OBVIOUS
    <2>1. slot[w] \in Within(MaxOrder) /\ Slots = Within(MaxOrder)
      BY <1>2 DEF Slots, Within
    <2>2. /\ rank[w] \in Nat \ {0}
          /\ line.highestMain + rank[w] <= MaxOrder
          /\ line.highestOrder + rank[w] <= MaxOrder
      BY <1>1, <1>3, <1>4, <1>5
    <2> QED
      BY <1>1, <1>3, <1>6, <2>1, <2>2, DrawnSlotGives
  <1>8. \A u \in Visits : /\ slot[u].main \in Nat /\ slot[u].order \in Nat
                          /\ slot[u].front \in BOOLEAN
    BY <1>1, <1>2 DEF Slots
  <1>9. TypeOK'
    <2>1. \A u \in Visits : slot'[u] \in Slots
      BY <1>2, <1>6, <1>7
    <2> QED
      BY <2>1, <1>2, <1>6 DEF TypeOK
  <1>10. OrdersUnique'
    <2> SUFFICES ASSUME NEW a \in Visits, NEW b \in Visits,
                        slot'[a].order # 0, slot'[a].order = slot'[b].order
                 PROVE  a = b
      BY DEF OrdersUnique
    <2>1. CASE a \in winners /\ b \in winners
      <3>1. rank[a] = rank[b]
        BY <2>1, <1>1, <1>3, <1>4, <1>7
      <3> QED
        BY <3>1, <2>1, <1>4
    <2>2. CASE a \in winners /\ b \notin winners
      BY <2>2, <1>1, <1>3, <1>4, <1>6, <1>7, <1>8
    <2>3. CASE a \notin winners /\ b \in winners
      BY <2>3, <1>1, <1>3, <1>4, <1>6, <1>7, <1>8
    <2>4. CASE a \notin winners /\ b \notin winners
      BY <2>4, <1>0, <1>6 DEF OrdersUnique
    <2> QED
      BY <2>1, <2>2, <2>3, <2>4
  <1>11. NumberedHavePlace'
    <2> SUFFICES ASSUME NEW a \in Visits, slot'[a].main # 0
                 PROVE  slot'[a].order # 0
      BY DEF NumberedHavePlace
    <2>1. CASE a \in winners
      BY <2>1, <1>1, <1>3, <1>4, <1>7
    <2>2. CASE a \notin winners
      BY <2>2, <1>0, <1>6 DEF NumberedHavePlace
    <2> QED
      BY <2>1, <2>2
  <1>12. NumbersRiseWithTheLine'
    <2> SUFFICES ASSUME NEW a \in Visits, NEW b \in Visits, a # b,
                        KeptTheirPlace(a)', KeptTheirPlace(b)'
                 PROVE  /\ slot'[a].main # slot'[b].main
                        /\ slot'[a].main < slot'[b].main => Ahead(slot'[a], slot'[b])
      BY DEF NumbersRiseWithTheLine
    <2>1. /\ slot'[a].front = FALSE /\ slot'[b].front = FALSE
          /\ slot'[a].main # 0 /\ slot'[b].main # 0
          /\ ~replaced[a] /\ ~replaced[b]
      BY <1>6, <1>7, <1>8 DEF KeptTheirPlace
    <2>2. slot'[a].order # 0 /\ slot'[b].order # 0
      BY <2>1, <1>11 DEF NumberedHavePlace
    <2>3. CASE a \in winners /\ b \in winners
      <3>1. rank[a] # rank[b] /\ rank[a] \in Nat /\ rank[b] \in Nat
        BY <2>3, <1>1, <1>4
      <3>2. /\ slot'[a].main = HighestMain + rank[a] /\ slot'[b].main = HighestMain + rank[b]
            /\ slot'[a].order = HighestOrder + rank[a] /\ slot'[b].order = HighestOrder + rank[b]
        BY <2>3, <1>7
      <3>3. HighestMain \in Nat /\ HighestOrder \in Nat
        BY <1>3
      <3>4. slot'[a].main < slot'[b].main => slot'[a].order < slot'[b].order
        BY <3>1, <3>2, <3>3
      <3>5. slot'[a].main # slot'[b].main
        <4>1. \A m, x, y \in Nat : m + x = m + y => x = y
          OBVIOUS
        <4> QED
          BY <3>1, <3>2, <3>3, <4>1
      <3> QED
        BY <3>4, <3>5, <2>1, <2>2 DEF Ahead
    <2>4. CASE a \in winners /\ b \notin winners
      <3>1. slot'[b].main < slot'[a].main
        BY <2>4, <1>1, <1>3, <1>4, <1>6, <1>7, <1>8
      <3>2. slot'[a].main \in Nat /\ slot'[b].main \in Nat
        BY <2>4, <1>1, <1>3, <1>4, <1>6, <1>7, <1>8
      <3> QED
        BY <3>1, <3>2
    <2>5. CASE a \notin winners /\ b \in winners
      <3>1. slot'[a].main < slot'[b].main /\ slot'[a].order < slot'[b].order
        BY <2>5, <1>1, <1>3, <1>4, <1>6, <1>7, <1>8
      <3>2. slot'[a].main \in Nat /\ slot'[b].main \in Nat
        BY <2>5, <1>1, <1>3, <1>4, <1>6, <1>7, <1>8
      <3>3. slot'[a].main # slot'[b].main
        BY <3>1, <3>2
      <3>4. Ahead(slot'[a], slot'[b])
        BY <3>1, <2>1, <2>2 DEF Ahead
      <3> QED
        BY <3>3, <3>4
    <2>6. CASE a \notin winners /\ b \notin winners
      <3>1. KeptTheirPlace(a) /\ KeptTheirPlace(b)
        BY <2>1, <2>6, <1>6 DEF KeptTheirPlace
      <3> QED
        BY <3>1, <2>6, <1>0, <1>6 DEF NumbersRiseWithTheLine
    <2> QED
      BY <2>3, <2>4, <2>5, <2>6
  <1> QED
    BY <1>9, <1>10, <1>11, <1>12 DEF LineInv

\* Every step of the line keeps the invariant.
LEMMA LineInvInductive == LineInv /\ [Next]_vars => LineInv'
PROOF
  <1> SUFFICES ASSUME LineInv, [Next]_vars PROVE LineInv'
    OBVIOUS
  <1>1. ASSUME NEW v \in Visits, NEW placement \in Placements, NEW othersWaiting \in BOOLEAN,
               Join(v, placement, othersWaiting)
        PROVE  LineInv'
    BY <1>1, JoinKeepsLineInv
  <1>2. ASSUME NEW v \in Visits, NEW placement \in Placements, NEW othersWaiting \in BOOLEAN,
               NEW held \in HeldNumbers, PutBack(v, placement, othersWaiting, held)
        PROVE  LineInv'
    BY <1>2, PutBackKeepsLineInv
  <1>3. ASSUME NEW winners \in SUBSET Visits, NEW rank \in Rankings(winners),
               DrawWinners(winners, rank)
        PROVE  LineInv'
    BY <1>3, DrawKeepsLineInv
  <1>4. CASE UNCHANGED vars
    BY <1>4 DEF vars, LineInv, TypeOK, OrdersUnique, NumbersRiseWithTheLine,
       KeptTheirPlace, NumberedHavePlace
  <1> QED
    BY <1>1, <1>2, <1>3, <1>4 DEF Next

\* Whatever joins, returns and draws happen, no two guests have one place, and the
\* numbers of those who kept their place rise with the line.
THEOREM LineIsCorrect == Spec => [](TypeOK /\ OrdersUnique /\ NumbersRiseWithTheLine)
PROOF
  <1>1. Spec => []LineInv
    BY LineInit, LineInvInductive, PTL DEF Spec
  <1>2. LineInv => TypeOK /\ OrdersUnique /\ NumbersRiseWithTheLine
    BY DEF LineInv
  <1> QED
    BY <1>1, <1>2, PTL

\* Every column of a line keeps its type, within the bound on the numbers given.
THEOREM LineTypeCorrect == Spec => []TypeOK
PROOF
  BY LineIsCorrect, PTL

\* The numbers of those who kept their place rise with the line.
THEOREM LineNumbersRise == Spec => []NumbersRiseWithTheLine
PROOF
  BY LineIsCorrect, PTL
============================================================================
