----------------------------- MODULE TicketLine -----------------------------
(***************************************************************************)
(* What a session's line promises, with no session, no locks and no        *)
(* requests in it: every placement reads the highest numbers and orders    *)
(* given so far and takes the next ones in one step.  MarketDay is shown   *)
(* to implement this, although its transactions read and write apart.      *)
(***************************************************************************)
EXTENDS LineOrder

VARIABLES slot,     \* slot[v]: the visit's number and place
          replaced  \* replaced[v]: a worker has put the visit somewhere else in the line

vars == <<slot, replaced>>

HighestMain     == Highest({slot[v].main : v \in Visits})
HighestPriority == Highest({slot[v].priority : v \in Visits})
HighestOrder    == Highest({slot[v].order : v \in Visits})

LineNow(othersWaiting) ==
  [highestMain |-> HighestMain, highestPriority |-> HighestPriority,
   highestOrder |-> HighestOrder, othersWaiting |-> othersWaiting]

\* MaxOrder leaves room for count more.
Issuable(count) ==
  /\ HighestMain + count <= MaxOrder
  /\ HighestPriority + count <= MaxOrder
  /\ HighestOrder + count <= MaxOrder

Init ==
  /\ slot = [v \in Visits |-> NotInLine]
  /\ replaced = [v \in Visits |-> FALSE]

\* A guest with no number yet joins, at the front or at the end.
Join(v, placement, othersWaiting) ==
  /\ slot[v] = NotInLine
  /\ Issuable(1)
  /\ slot' = [slot EXCEPT ![v] = Place(LineNow(othersWaiting), placement, NoNumber)]
  /\ UNCHANGED replaced

\* A guest is put back in the line under the number the worker's request holds.
PutBack(v, placement, othersWaiting, held) ==
  /\ Issuable(1)
  /\ slot' = [slot EXCEPT ![v] = Place(LineNow(othersWaiting), placement, held)]
  /\ replaced' = [replaced EXCEPT ![v] = TRUE]

\* The draw: its winners get consecutive numbers and orders, in the order drawn.
DrawWinners(winners, rank) ==
  /\ Issuable(Cardinality(winners))
  /\ slot' = [v \in Visits |-> IF v \in winners
                               THEN DrawnSlot(slot[v], LineNow(TRUE), rank[v])
                               ELSE slot[v]]
  /\ UNCHANGED replaced

Next ==
  \/ \E v \in Visits, placement \in Placements, othersWaiting \in BOOLEAN :
       \/ Join(v, placement, othersWaiting)
       \/ \E held \in HeldNumbers : PutBack(v, placement, othersWaiting, held)
  \/ \E winners \in SUBSET Visits :
       \E rank \in Rankings(winners) : DrawWinners(winners, rank)

Spec == Init /\ [][Next]_vars

-----------------------------------------------------------------------------
\* Every column has its type, within the bound.
TypeOK ==
  /\ slot \in [Visits -> Slots]
  /\ replaced \in [Visits -> BOOLEAN]

\* Two guests in line never tie: the trailing created_at of the line's ORDER BY
\* decides nothing.
OrdersUnique ==
  \A u, v \in Visits :
    slot[u].order # 0 /\ slot[u].order = slot[v].order => u = v

\* The visits whose main number tells their place: not at the front, never put back.
KeptTheirPlace(v) == ~slot[v].front /\ ~replaced[v] /\ slot[v].main # 0

\* Main numbers rise in step with the line, so a waiting guest can compare theirs
\* with the one being called (queue-number.ts, line-order.ts).
NumbersRiseWithTheLine ==
  \A u, v \in Visits :
    KeptTheirPlace(u) /\ KeptTheirPlace(v) /\ u # v =>
      /\ slot[u].main # slot[v].main
      /\ slot[u].main < slot[v].main => Ahead(slot[u], slot[v])

\* Whoever has a number has a place in the order.
NumberedHavePlace ==
  \A v \in Visits :
    slot[v].main # 0 => slot[v].order # 0

\* The inductive invariant.
LineInv ==
  /\ TypeOK
  /\ OrdersUnique
  /\ NumbersRiseWithTheLine
  /\ NumberedHavePlace
============================================================================
