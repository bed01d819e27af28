----------------------------- MODULE LineOrder -----------------------------
(***************************************************************************)
(* A guest's number and place in the line (line-order.ts, queue-number.ts) *)
(* as the four columns of a visit: the main and the priority number, the   *)
(* front flag and the order.  0 stands for a null column.                  *)
(***************************************************************************)
EXTENDS Integers, FiniteSets, FiniteSetsExt

CONSTANTS Visits,   \* the visits of one session, present and to come
          MaxOrder  \* the bound on the numbers and orders given

ASSUME LineAssumption == MaxOrder \in Nat /\ IsFiniteSet(Visits)

\* A visit's four columns, and what a request holds of a number, within the bound.
Slots == [main : 0..MaxOrder, priority : 0..MaxOrder, front : BOOLEAN,
          order : 0..MaxOrder]

HeldNumbers == [main : 0..MaxOrder, priority : 0..MaxOrder]

NotInLine == [main |-> 0, priority |-> 0, front |-> FALSE, order |-> 0]

Placements == {"next", "end"}

\* The number columns of a guest who has none yet.
NoNumber == [main |-> 0, priority |-> 0]

\* QueueNumber.of and toSource: a visit's number, the priority one first.
NumberOf(slot) ==
  IF slot.priority # 0 THEN [main |-> 0, priority |-> slot.priority]
                       ELSE [main |-> slot.main, priority |-> 0]

\* LineOrder.compare: the front first, then by order, a null order last.
Ahead(s, t) ==
  \/ s.front /\ ~t.front
  \/ /\ s.front = t.front
     /\ s.order # 0
     /\ t.order = 0 \/ s.order < t.order

\* SQL's max over a column, null when every row is null.
Highest(column) == Max(column \cup {0})

\* Mutant: a returned guest loses their number.
PlaceAnew(line, placement, held) ==
  [main |-> line.highestMain + 1, priority |-> 0,
   front |-> placement = "next", order |-> line.highestOrder + 1]

\* LineOrder.place: the slot a guest gets from what was read of the line.
Place(line, placement, held) ==
  LET front  == placement = "next"
      number == IF held # NoNumber THEN held
                ELSE IF front /\ line.othersWaiting
                     THEN [main |-> 0, priority |-> line.highestPriority + 1]
                     ELSE [main |-> line.highestMain + 1, priority |-> 0]
  IN  [main |-> number.main, priority |-> number.priority,
       front |-> front, order |-> line.highestOrder + 1]

\* LineOrder.draw as the lottery writes it: the number and the order of the winner
\* drawn rank-th.  The UPDATE leaves the visit's other two columns as they are.
DrawnSlot(slot, line, rank) ==
  [main |-> line.highestMain + rank, priority |-> slot.priority,
   front |-> slot.front, order |-> line.highestOrder + rank]

\* Every way to order a set of winners.
Rankings(winners) ==
  {rank \in [winners -> 1..Cardinality(winners)] :
     \A u, v \in winners : rank[u] = rank[v] => u = v}
============================================================================
